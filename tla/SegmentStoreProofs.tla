-------------------------- MODULE SegmentStoreProofs --------------------------
(* Proofs about SegmentStore, for every set of jobs and every value of the   *)
(* bounds: the types and, from them, that deletion and the groomer never let  *)
(* a deleted file reappear or a row go before its file.                       *)
EXTENDS SegmentStore, TLAPS

-----------------------------------------------------------------------------
(* Files, their marks and what ffmpeg is doing.                             *)

\* ffmpeg's end leaves its last segment closed, listed or not.
LEMMA QuitDisk == TypeOK /\ Quit => DiskOK'
<1> SUFFICES ASSUME TypeOK, Quit PROVE DiskOK'
  OBVIOUS
<1> USE DEF TypeOK, DiskOK
<1>1. made' = made /\ open' = 0 /\ ffmpeg' = "down" /\ files' = files /\ touched' = touched /\ aged' = aged /\ listed' = listed
  BY DEF Quit, Stopped, otherVars
<1>2. fresh' \subseteq files
  BY DEF Quit, Stopped
<1>3. Closed \subseteq 1 .. made /\ open \in {0} \cup 1 .. made /\ Closed' = 1 .. made
  <2>1. 0 \notin 1 .. made
    OBVIOUS
  <2>. QED BY <1>1, <2>1, BoundsAssumption DEF Closed
<1>4. csv' \subseteq 1 .. made
  BY <1>3 DEF Quit
<1>. QED
  BY <1>1, <1>2, <1>3, <1>4

\* The groomer puts back a segment that was recorded.
LEMMA ReplaceFileDisk == TypeOK /\ ReplaceFile => DiskOK'
<1> SUFFICES ASSUME TypeOK, ReplaceFile PROVE DiskOK'
  OBVIOUS
<1>1. groom.seg \in 1 .. made
  BY BoundsAssumption DEF TypeOK, GroomOK, DiskOK, ReplaceFile
<1>. QED
  BY <1>1 DEF TypeOK, DiskOK, ReplaceFile, ffmpegVars, otherVars, Closed

\* No step leaves a mark on a file that is not there, or opens two segments.
LEMMA DiskStep == TypeOK /\ [Next]_vars => DiskOK'
<1> SUFFICES ASSUME TypeOK, [Next]_vars PROVE DiskOK'
  OBVIOUS
<1> USE DEF TypeOK, diskVars, ffmpegVars, indexVars, rowVars, jobVars, groomVars,
             otherVars
<1>1. CASE Dial
  BY <1>1, BoundsAssumption DEF Dial, DiskOK, Closed, Unlinked, OpenNext, Stopped,
       Remove, Fail
<1>2. CASE Connect
  BY <1>2, BoundsAssumption DEF Connect, DiskOK, Closed, Unlinked, OpenNext, Stopped,
       Remove, Fail
<1>3. CASE Roll
  BY <1>3, BoundsAssumption DEF Roll, DiskOK, Closed, Unlinked, OpenNext, Stopped,
       Remove, Fail
<1>4. CASE Quit
  BY <1>4, QuitDisk
<1>5. CASE Write
  BY <1>5, BoundsAssumption DEF Write, DiskOK, Closed, Unlinked, OpenNext, Stopped,
       Remove, Fail
<1>6. CASE Age
  BY <1>6, BoundsAssumption DEF Age, DiskOK, Closed, Unlinked, OpenNext, Stopped,
       Remove, Fail
<1>7. ASSUME NEW s \in Segs, Quiet(s) PROVE DiskOK'
  BY <1>7, BoundsAssumption DEF Quiet, DiskOK, Closed, Unlinked, OpenNext, Stopped,
       Remove, Fail
<1>8. ASSUME NEW s \in Segs, AgeRewritten(s) PROVE DiskOK'
  BY <1>8, BoundsAssumption DEF AgeRewritten, DiskOK, Closed, Unlinked, OpenNext,
       Stopped, Remove, Fail
<1>9. ASSUME NEW j \in AllJobs, NEW s \in Segs, Unlink(j, s) PROVE DiskOK'
  BY <1>9, BoundsAssumption DEF Unlink, DiskOK, Closed, Unlinked, OpenNext, Stopped,
       Remove, Fail
<1>10. ASSUME NEW s \in Segs, Sweep(s) PROVE DiskOK'
  BY <1>10, BoundsAssumption DEF Sweep, DiskOK, Closed, Unlinked, OpenNext, Stopped,
       Remove, Fail
<1>11. CASE ReplaceFile
  BY <1>11, ReplaceFileDisk
<1>12. CASE EndPurge
  BY <1>12, BoundsAssumption DEF EndPurge, DiskOK, Closed, Unlinked, OpenNext, Stopped,
       Remove, Fail
<1>13. CASE ReplaceWorker
  BY <1>13, BoundsAssumption DEF ReplaceWorker, DiskOK, Closed, Unlinked, OpenNext,
       Stopped, Remove, Fail
<1>14. CASE Crash
  BY <1>14, BoundsAssumption DEF Crash, DiskOK, Closed, Unlinked, OpenNext, Stopped,
       Remove, Fail
<1>15. CASE \/ ReadList \/ IndexLine \/ LineFails \/ Scan \/ AddProbed \/ EndScan \/
             SelectAll \/ SelectExpired \/ BeginSweep \/ EndSweep \/ GroomFails \/
             MarkGroomed \/ (\E s \in Segs : TakeLine(s)) \/
             (\E s \in Segs : Probe(s)) \/ (\E s \in Segs : BeginGroom(s)) \/
             (\E j \in TwoPhase, S \in SUBSET Segs : Choose(j, S)) \/
             (\E j \in AllJobs : Commit(j)) \/ (\E j \in AllJobs : DeleteRows(j))
  <2>1. UNCHANGED <<files, fresh, touched, made, open, ffmpeg, csv, listed, aged>>
    <3>1. CASE ReadList \/ IndexLine \/ LineFails \/ (\E s \in Segs : TakeLine(s))
      BY <3>1 DEF ReadList, IndexLine, LineFails, TakeLine
    <3>2. CASE Scan \/ AddProbed \/ EndScan \/ (\E s \in Segs : Probe(s))
      BY <3>2 DEF Scan, AddProbed, EndScan, Probe
    <3>3. CASE GroomFails \/ MarkGroomed \/ (\E s \in Segs : BeginGroom(s))
      BY <3>3 DEF GroomFails, MarkGroomed, BeginGroom
    <3>4. CASE SelectAll \/ SelectExpired \/ BeginSweep \/ EndSweep
      BY <3>4 DEF SelectAll, SelectExpired, BeginSweep, EndSweep
    <3>5. CASE \/ (\E j \in TwoPhase, S \in SUBSET Segs : Choose(j, S))
               \/ (\E j \in AllJobs : Commit(j)) \/ (\E j \in AllJobs : DeleteRows(j))
      BY <3>5 DEF Choose, Commit, DeleteRows
    <3>. QED
      BY <1>15, <3>1, <3>2, <3>3, <3>4, <3>5
  <2>. QED
    BY <2>1 DEF DiskOK, Closed
<1>16. CASE UNCHANGED vars
  BY <1>16 DEF vars, DiskOK, Closed, Unlinked, OpenNext, Stopped, Remove, Fail
<1>. QED
  BY <1>1, <1>2, <1>3, <1>4, <1>5, <1>6, <1>7, <1>8, <1>9, <1>10, <1>11,
     <1>12, <1>13, <1>14, <1>15, <1>16 DEF Next, Recording,
     Indexing, Reconciling, Deleting, Ageing, Grooming

-----------------------------------------------------------------------------
(* The index rows and the two threads that add them.                        *)

\* The indexer's row is one of a closed segment.
LEMMA IndexLineIndex == TypeOK /\ IndexLine => IndexOK'
<1> SUFFICES ASSUME TypeOK, IndexLine PROVE IndexOK'
  OBVIOUS
<1>0. made' = made /\ Closed' = Closed /\ rec' = rec
  BY DEF IndexLine, ffmpegVars, Closed
<1>1. idx.seg \in 1 .. made
  BY DEF TypeOK, IndexOK, Closed, IndexLine
<1>2. idx' \in [left : SUBSET Closed, seg : {0} \cup Closed]
  BY DEF TypeOK, IndexOK, IndexLine
<1>3. rowId' \in [Segs -> Nat]
  <2>1. rowId \in [Segs -> Nat] /\ rowId' = [rowId EXCEPT ![idx.seg] = @ + 1]
    BY DEF TypeOK, IndexOK, IndexLine, AddRow
  <2>2. \A t \in Segs : rowId[t] + 1 \in Nat
    BY <2>1
  <2>. QED
    BY <2>1, <2>2
<1>4. watermark' \in 0 .. made
  BY <1>1 DEF TypeOK, IndexOK, IndexLine, Largest
<1>. QED
  BY <1>0, <1>1, <1>2, <1>3, <1>4 DEF TypeOK, IndexOK, IndexLine, AddRow

\* Reconcile takes a file from its scan in hand.
LEMMA ProbeIndex == ASSUME NEW s \in Segs, TypeOK, Probe(s) PROVE IndexOK'
<1>0. made' = made /\ Closed' = Closed /\ UNCHANGED <<idx, watermark, rowVars>>
  BY DEF Probe, ffmpegVars, Closed
<1>1. s \in 1 .. made
  BY DEF TypeOK, IndexOK, Probe
<1>2. /\ rec' \in [pc : {"idle", "scan", "add"}, left : SUBSET (1 .. made), seg : 0 .. made,
              short : BOOLEAN, old : BOOLEAN]
      /\ rec'.pc = "add" <=> rec'.seg # 0
  <2>0. rec \in [pc : {"idle", "scan", "add"}, left : SUBSET (1 .. made), seg : 0 .. made,
              short : BOOLEAN, old : BOOLEAN] /\ made \in Nat /\ rec.pc = "scan" /\ rec.seg = 0
    BY BoundsAssumption DEF TypeOK, IndexOK, DiskOK, Probe
  <2>1. CASE rec' = [rec EXCEPT !.pc = "add", !.left = @ \ {s}, !.seg = s, !.short = (s = open)]
    <3>1. rec' = [pc |-> "add", left |-> rec.left \ {s}, seg |-> s, short |-> (s = open), old |-> rec.old]
      BY <2>0, <2>1
    <3>. QED BY <1>1, <2>0, <3>1
  <2>2. CASE rec' = [rec EXCEPT !.left = @ \ {s}]
    BY <2>0, <2>2
  <2>. QED
    BY <2>1, <2>2 DEF Probe
<1>. QED
  BY <1>0, <1>2 DEF TypeOK, IndexOK, rowVars

\* Reconcile's row is one of a recorded segment.
LEMMA AddProbedIndex == TypeOK /\ AddProbed => IndexOK'
<1> SUFFICES ASSUME TypeOK, AddProbed PROVE IndexOK'
  OBVIOUS
<1>0. made' = made /\ Closed' = Closed /\ idx' = idx
  BY DEF AddProbed, ffmpegVars, Closed
<1>1. rec.seg \in 1 .. made
  BY BoundsAssumption DEF TypeOK, IndexOK, DiskOK, AddProbed
<1>2. /\ rec' \in [pc : {"idle", "scan", "add"}, left : SUBSET (1 .. made), seg : 0 .. made,
              short : BOOLEAN, old : BOOLEAN]
      /\ rec'.pc # "add" /\ rec'.seg = 0
  <2>1. rec \in [pc : {"idle", "scan", "add"}, left : SUBSET (1 .. made), seg : 0 .. made,
              short : BOOLEAN, old : BOOLEAN] /\ made \in Nat
    BY BoundsAssumption DEF TypeOK, IndexOK, DiskOK
  <2>2. rec' = [rec EXCEPT !.pc = "scan", !.seg = 0, !.short = FALSE]
    BY DEF AddProbed
  <2>3. rec' = [pc |-> "scan", left |-> rec.left, seg |-> 0, short |-> FALSE, old |-> rec.old]
    BY <2>1, <2>2
  <2>. QED
    BY <2>1, <2>3
<1>3. rowId' \in [Segs -> Nat]
  <2>1. rowId \in [Segs -> Nat] /\ rowId' = [rowId EXCEPT ![rec.seg] = @ + 1]
    BY DEF TypeOK, IndexOK, AddProbed, AddRow
  <2>2. \A t \in Segs : rowId[t] + 1 \in Nat
    BY <2>1
  <2>. QED
    BY <2>1, <2>2
<1>4. watermark' \in 0 .. made
  BY <1>1 DEF TypeOK, IndexOK, AddProbed, Largest
<1>. QED
  BY <1>0, <1>1, <1>2, <1>3, <1>4 DEF TypeOK, IndexOK, AddProbed, AddRow

\* A new worker starts with nothing in hand; a running scan goes on.
LEMMA ReplaceWorkerIndex == TypeOK /\ ReplaceWorker => IndexOK'
<1> SUFFICES ASSUME TypeOK, ReplaceWorker PROVE IndexOK'
  OBVIOUS
<1>0. made' = made /\ UNCHANGED rowVars /\ idx' = Idle /\ watermark' = 0
  BY DEF ReplaceWorker, Stopped
<1>2. /\ rec' \in [pc : {"idle", "scan", "add"}, left : SUBSET (1 .. made), seg : 0 .. made,
              short : BOOLEAN, old : BOOLEAN]
      /\ rec'.pc = rec.pc /\ rec'.seg = rec.seg
  BY DEF TypeOK, IndexOK, ReplaceWorker
<1>. QED
  BY <1>0, <1>2, BoundsAssumption DEF TypeOK, IndexOK, DiskOK, rowVars, Idle

\* No step makes a row of a segment that was never recorded.
LEMMA IndexStep == TypeOK /\ [Next]_vars => IndexOK'
<1> SUFFICES ASSUME TypeOK, [Next]_vars PROVE IndexOK'
  OBVIOUS
<1> USE DEF TypeOK, diskVars, ffmpegVars, indexVars, rowVars, jobVars, groomVars,
             otherVars
<1>1. CASE Connect
  BY <1>1 DEF Connect, IndexOK, DiskOK, JobsOK, GroomOK, Closed, Segs, Idle, NoScan,
       Largest, AddRow, DropRows, OpenNext, Stopped, Unindexed
<1>2. CASE Roll
  BY <1>2 DEF Roll, IndexOK, DiskOK, JobsOK, GroomOK, Closed, Segs, Idle, NoScan,
       Largest, AddRow, DropRows, OpenNext, Stopped, Unindexed
<1>3. CASE Quit
  BY <1>3 DEF Quit, IndexOK, DiskOK, JobsOK, GroomOK, Closed, Segs, Idle, NoScan,
       Largest, AddRow, DropRows, OpenNext, Stopped, Unindexed
<1>4. CASE ReadList
  BY <1>4 DEF ReadList, IndexOK, DiskOK, JobsOK, GroomOK, Closed, Segs, Idle, NoScan,
       Largest, AddRow, DropRows, OpenNext, Stopped, Unindexed
<1>5. ASSUME NEW s \in Segs, TakeLine(s) PROVE IndexOK'
  BY <1>5 DEF TakeLine, IndexOK, DiskOK, JobsOK, GroomOK, Closed, Segs, Idle, NoScan,
       Largest, AddRow, DropRows, OpenNext, Stopped, Unindexed
<1>6. CASE IndexLine
  BY <1>6, IndexLineIndex
<1>7. CASE LineFails
  BY <1>7 DEF LineFails, IndexOK, DiskOK, JobsOK, GroomOK, Closed, Segs, Idle, NoScan,
       Largest, AddRow, DropRows, OpenNext, Stopped, Unindexed
<1>8. CASE Scan
  BY <1>8 DEF Scan, IndexOK, DiskOK, JobsOK, GroomOK, Closed, Segs, Idle, NoScan,
       Largest, AddRow, DropRows, OpenNext, Stopped, Unindexed
<1>9. ASSUME NEW s \in Segs, Probe(s) PROVE IndexOK'
  BY <1>9, ProbeIndex
<1>10. CASE AddProbed
  BY <1>10, AddProbedIndex
<1>11. CASE EndScan
  BY <1>11 DEF EndScan, IndexOK, DiskOK, JobsOK, GroomOK, Closed, Segs, Idle, NoScan,
       Largest, AddRow, DropRows, OpenNext, Stopped, Unindexed
<1>12. ASSUME NEW j \in AllJobs, Commit(j) PROVE IndexOK'
  BY <1>12 DEF Commit, IndexOK, DiskOK, JobsOK, GroomOK, Closed, Segs, Idle, NoScan,
       Largest, AddRow, DropRows, OpenNext, Stopped, Unindexed
<1>13. ASSUME NEW j \in AllJobs, DeleteRows(j) PROVE IndexOK'
  BY <1>13 DEF DeleteRows, IndexOK, DiskOK, JobsOK, GroomOK, Closed, Segs, Idle,
       NoScan, Largest, AddRow, DropRows, OpenNext, Stopped, Unindexed
<1>14. CASE MarkGroomed
  BY <1>14 DEF MarkGroomed, IndexOK, DiskOK, JobsOK, GroomOK, Closed, Segs, Idle,
       NoScan, Largest, AddRow, DropRows, OpenNext, Stopped, Unindexed
<1>15. CASE ReplaceWorker
  BY <1>15, ReplaceWorkerIndex
<1>16. CASE Crash
  BY <1>16 DEF Crash, IndexOK, DiskOK, JobsOK, GroomOK, Closed, Segs, Idle, NoScan,
       Largest, AddRow, DropRows, OpenNext, Stopped, Unindexed
<1>17. CASE \/ Dial \/ Write \/ Age \/ SelectAll \/ EndPurge \/ SelectExpired \/
             BeginSweep \/ EndSweep \/ ReplaceFile \/ GroomFails \/
             (\E s \in Segs : Quiet(s)) \/ (\E s \in Segs : AgeRewritten(s)) \/
             (\E s \in Segs : Sweep(s)) \/ (\E s \in Segs : BeginGroom(s)) \/
             (\E j \in TwoPhase, S \in SUBSET Segs : Choose(j, S)) \/
             (\E j \in AllJobs, s \in Segs : Unlink(j, s))
  BY <1>17 DEF Dial, Write, Age, SelectAll, EndPurge, SelectExpired, BeginSweep,
       EndSweep, ReplaceFile, GroomFails, Quiet, AgeRewritten, Sweep, BeginGroom,
       Choose, Unlink, IndexOK, DiskOK, JobsOK, GroomOK, Closed, Segs, Idle, NoScan,
       Largest, AddRow, DropRows, OpenNext, Stopped, Unindexed
<1>18. CASE UNCHANGED vars
  BY <1>18 DEF vars, IndexOK, DiskOK, JobsOK, GroomOK, Closed, Segs, Idle, NoScan,
       Largest, AddRow, DropRows, OpenNext, Stopped, Unindexed
<1>. QED
  BY <1>1, <1>2, <1>3, <1>4, <1>5, <1>6, <1>7, <1>8, <1>9, <1>10, <1>11,
     <1>12, <1>13, <1>14, <1>15, <1>16, <1>17, <1>18 DEF Next, Recording,
     Indexing, Reconciling, Deleting, Ageing, Grooming

-----------------------------------------------------------------------------
(* The deletion jobs.                                                       *)

\* No step gives a deletion job a file that was never recorded.
LEMMA JobsStep == TypeOK /\ [Next]_vars => JobsOK'
<1> SUFFICES ASSUME TypeOK, [Next]_vars PROVE JobsOK'
  OBVIOUS
<1> USE DEF TypeOK, diskVars, ffmpegVars, indexVars, rowVars, jobVars, groomVars,
             otherVars
<1>1. CASE Connect
  BY <1>1 DEF Connect, JobsOK, DiskOK, IndexOK, Closed, Segs, NoIds, OpenNext, Stopped,
       Start, Finish, Remove, Fail, AllJobs, TwoPhase, RowsFirst
<1>2. CASE Roll
  BY <1>2 DEF Roll, JobsOK, DiskOK, IndexOK, Closed, Segs, NoIds, OpenNext, Stopped,
       Start, Finish, Remove, Fail, AllJobs, TwoPhase, RowsFirst
<1>3. CASE Age
  BY <1>3 DEF Age, JobsOK, DiskOK, IndexOK, Closed, Segs, NoIds, OpenNext, Stopped,
       Start, Finish, Remove, Fail, AllJobs, TwoPhase, RowsFirst
<1>4. ASSUME NEW j \in TwoPhase, NEW S \in SUBSET Segs, Choose(j, S) PROVE JobsOK'
  BY <1>4 DEF Choose, InScope, JobsOK, DiskOK, IndexOK, Closed, Segs, NoIds, OpenNext,
       Stopped, Start, Finish, Remove, Fail, AllJobs, TwoPhase, RowsFirst
<1>5. ASSUME NEW j \in AllJobs, NEW s \in Segs, Unlink(j, s) PROVE JobsOK'
  <2>1. /\ left' = [left EXCEPT ![j] = @ \ {s}] /\ UNCHANGED <<pc, ids, upto, made, aged>> /\ s \in left[j]
    BY <1>5 DEF Unlink, Remove, Unlinked, Fail
  <2>2. left' \in [AllJobs -> SUBSET (1 .. made)] /\ s \in 1 .. made
    BY <2>1 DEF JobsOK
  <2>3. done' = [done EXCEPT ![j] = @ \cup {s}] \/ done' = done
    BY <1>5 DEF Unlink, Remove
  <2>4. done' \in [AllJobs -> SUBSET (1 .. made)]
    <3>1. done \in [AllJobs -> SUBSET (1 .. made)]
      BY DEF JobsOK
    <3>. QED
      BY <2>2, <2>3, <3>1
  <2>. QED
    BY <2>1, <2>2, <2>4 DEF JobsOK
<1>6. ASSUME NEW j \in AllJobs, Commit(j) PROVE JobsOK'
  BY <1>6 DEF Commit, JobsOK, DiskOK, IndexOK, Closed, Segs, NoIds, OpenNext, Stopped,
       Start, Finish, Remove, Fail, AllJobs, TwoPhase, RowsFirst
<1>7. CASE SelectExpired
  BY <1>7 DEF SelectExpired, JobsOK, DiskOK, IndexOK, Closed, Segs, NoIds, OpenNext,
       Stopped, Start, Finish, Remove, Fail, AllJobs, TwoPhase, RowsFirst
<1>8. CASE SelectAll
  BY <1>8 DEF SelectAll, JobsOK, DiskOK, IndexOK, Closed, Segs, NoIds, OpenNext,
       Stopped, Start, Finish, Remove, Fail, AllJobs, TwoPhase, RowsFirst
<1>9. ASSUME NEW j \in AllJobs, DeleteRows(j) PROVE JobsOK'
  BY <1>9 DEF DeleteRows, JobsOK, DiskOK, IndexOK, Closed, Segs, NoIds, OpenNext,
       Stopped, Start, Finish, Remove, Fail, AllJobs, TwoPhase, RowsFirst
<1>10. CASE EndPurge
  BY <1>10 DEF EndPurge, JobsOK, DiskOK, IndexOK, Closed, Segs, NoIds, OpenNext,
       Stopped, Start, Finish, Remove, Fail, AllJobs, TwoPhase, RowsFirst
<1>11. CASE BeginSweep
  BY <1>11 DEF BeginSweep, JobsOK, DiskOK, IndexOK, Closed, Segs, NoIds, OpenNext,
       Stopped, Start, Finish, Remove, Fail, AllJobs, TwoPhase, RowsFirst
<1>12. ASSUME NEW s \in Segs, Sweep(s) PROVE JobsOK'
  BY <1>12 DEF Sweep, JobsOK, DiskOK, IndexOK, Closed, Segs, NoIds, OpenNext, Stopped,
       Start, Finish, Remove, Fail, AllJobs, TwoPhase, RowsFirst
<1>13. CASE EndSweep
  BY <1>13 DEF EndSweep, JobsOK, DiskOK, IndexOK, Closed, Segs, NoIds, OpenNext,
       Stopped, Start, Finish, Remove, Fail, AllJobs, TwoPhase, RowsFirst
<1>14. CASE Crash
  BY <1>14 DEF Crash, JobsOK, DiskOK, IndexOK, Closed, Segs, NoIds, OpenNext, Stopped,
       Start, Finish, Remove, Fail, AllJobs, TwoPhase, RowsFirst
<1>15. CASE \/ Dial \/ Quit \/ Write \/ ReadList \/ IndexLine \/ LineFails \/ Scan \/
             AddProbed \/ EndScan \/ ReplaceFile \/ GroomFails \/ MarkGroomed \/
             ReplaceWorker \/ (\E s \in Segs : Quiet(s)) \/
             (\E s \in Segs : AgeRewritten(s)) \/ (\E s \in Segs : TakeLine(s)) \/
             (\E s \in Segs : Probe(s)) \/ (\E s \in Segs : BeginGroom(s))
  BY <1>15 DEF Dial, Quit, Write, ReadList, IndexLine, LineFails, Scan, AddProbed,
       EndScan, ReplaceFile, GroomFails, MarkGroomed, ReplaceWorker, Quiet,
       AgeRewritten, TakeLine, Probe, BeginGroom, JobsOK, DiskOK, IndexOK, Closed,
       Segs, NoIds, OpenNext, Stopped, Start, Finish, Remove, Fail, AllJobs, TwoPhase,
       RowsFirst
<1>16. CASE UNCHANGED vars
  BY <1>16 DEF vars, JobsOK, DiskOK, IndexOK, Closed, Segs, NoIds, OpenNext, Stopped,
       Start, Finish, Remove, Fail, AllJobs, TwoPhase, RowsFirst
<1>. QED
  BY <1>1, <1>2, <1>3, <1>4, <1>5, <1>6, <1>7, <1>8, <1>9, <1>10, <1>11,
     <1>12, <1>13, <1>14, <1>15, <1>16 DEF Next, Recording,
     Indexing, Reconciling, Deleting, Ageing, Grooming

-----------------------------------------------------------------------------
(* The groomer and the history.                                             *)

\* A rewritten segment is one the groomer had in hand.
LEMMA ReplaceFileGroom == TypeOK /\ ReplaceFile => GroomOK'
<1> SUFFICES ASSUME TypeOK, ReplaceFile PROVE GroomOK'
  OBVIOUS
<1>1. groom.seg \in 1 .. made
  BY BoundsAssumption DEF TypeOK, GroomOK, DiskOK, ReplaceFile
<1>2. groom' \in [pc : {"idle", "remux", "mark"}, seg : 0 .. made, id : Nat] /\ groom'.seg # 0
  BY <1>1 DEF TypeOK, GroomOK, ReplaceFile
<1>. QED
  BY <1>1, <1>2 DEF TypeOK, GroomOK, ReplaceFile, ffmpegVars, otherVars

\* No step leaves the groomer with a segment that was never recorded.
LEMMA GroomStep == TypeOK /\ [Next]_vars => GroomOK'
<1> SUFFICES ASSUME TypeOK, [Next]_vars PROVE GroomOK'
  OBVIOUS
<1> USE DEF TypeOK, diskVars, ffmpegVars, indexVars, rowVars, jobVars, groomVars,
             otherVars
<1>1. CASE Connect
  BY <1>1 DEF Connect, GroomOK, DiskOK, IndexOK, JobsOK, Closed, Segs, NoGroom,
       OpenNext, Stopped
<1>2. CASE Roll
  BY <1>2 DEF Roll, GroomOK, DiskOK, IndexOK, JobsOK, Closed, Segs, NoGroom, OpenNext,
       Stopped
<1>3. ASSUME NEW s \in Segs, BeginGroom(s) PROVE GroomOK'
  BY <1>3 DEF BeginGroom, GroomOK, DiskOK, IndexOK, JobsOK, Closed, Segs, NoGroom,
       OpenNext, Stopped
<1>4. CASE ReplaceFile
  BY <1>4, ReplaceFileGroom
<1>5. CASE GroomFails
  BY <1>5 DEF GroomFails, GroomOK, DiskOK, IndexOK, JobsOK, Closed, Segs, NoGroom,
       OpenNext, Stopped
<1>6. CASE MarkGroomed
  BY <1>6 DEF MarkGroomed, GroomOK, DiskOK, IndexOK, JobsOK, Closed, Segs, NoGroom,
       OpenNext, Stopped
<1>7. ASSUME NEW j \in AllJobs, Commit(j) PROVE GroomOK'
  BY <1>7 DEF Commit, GroomOK, DiskOK, IndexOK, JobsOK, Closed, Segs, NoGroom,
       OpenNext, Stopped
<1>8. CASE Crash
  BY <1>8 DEF Crash, GroomOK, DiskOK, IndexOK, JobsOK, Closed, Segs, NoGroom, OpenNext,
       Stopped
<1>9. CASE \/ Dial \/ Quit \/ Write \/ Age \/ ReadList \/ IndexLine \/ LineFails \/
             Scan \/ AddProbed \/ EndScan \/ SelectAll \/ EndPurge \/ SelectExpired \/
             BeginSweep \/ EndSweep \/ ReplaceWorker \/ (\E s \in Segs : Quiet(s)) \/
             (\E s \in Segs : AgeRewritten(s)) \/ (\E s \in Segs : TakeLine(s)) \/
             (\E s \in Segs : Probe(s)) \/ (\E s \in Segs : Sweep(s)) \/
             (\E j \in TwoPhase, S \in SUBSET Segs : Choose(j, S)) \/
             (\E j \in AllJobs, s \in Segs : Unlink(j, s)) \/
             (\E j \in AllJobs : DeleteRows(j))
  BY <1>9 DEF Dial, Quit, Write, Age, ReadList, IndexLine, LineFails, Scan, AddProbed,
       EndScan, SelectAll, EndPurge, SelectExpired, BeginSweep, EndSweep,
       ReplaceWorker, Quiet, AgeRewritten, TakeLine, Probe, Sweep, Choose, Unlink,
       DeleteRows, GroomOK, DiskOK, IndexOK, JobsOK, Closed, Segs, NoGroom, OpenNext,
       Stopped
<1>10. CASE UNCHANGED vars
  BY <1>10 DEF vars, GroomOK, DiskOK, IndexOK, JobsOK, Closed, Segs, NoGroom, OpenNext,
       Stopped
<1>. QED
  BY <1>1, <1>2, <1>3, <1>4, <1>5, <1>6, <1>7, <1>8, <1>9,
     <1>10 DEF Next, Recording,
     Indexing, Reconciling, Deleting, Ageing, Grooming

-----------------------------------------------------------------------------
(* The counters stay within their bounds.                                   *)

\* No step exceeds the bounds.
LEMMA CountersStep == TypeOK /\ [Next]_vars => CountersOK'
<1> SUFFICES ASSUME TypeOK, [Next]_vars PROVE CountersOK'
  OBVIOUS
<1> USE DEF TypeOK, diskVars, ffmpegVars, indexVars, rowVars, jobVars, groomVars,
             otherVars
<1>1. ASSUME NEW j \in TwoPhase, NEW S \in SUBSET Segs, Choose(j, S) PROVE CountersOK'
  BY <1>1, BoundsAssumption DEF Choose, InScope, CountersOK, Fail, Remove
<1>2. CASE SelectAll
  BY <1>2, BoundsAssumption DEF SelectAll, CountersOK, Fail, Remove
<1>3. ASSUME NEW j \in AllJobs, NEW s \in Segs, Unlink(j, s) PROVE CountersOK'
  BY <1>3, BoundsAssumption DEF Unlink, CountersOK, Fail, Remove
<1>4. ASSUME NEW s \in Segs, Sweep(s) PROVE CountersOK'
  BY <1>4, BoundsAssumption DEF Sweep, CountersOK, Fail, Remove
<1>5. ASSUME NEW s \in Segs, BeginGroom(s) PROVE CountersOK'
  BY <1>5, BoundsAssumption DEF BeginGroom, CountersOK, Fail, Remove
<1>6. CASE ReplaceWorker
  BY <1>6, BoundsAssumption DEF ReplaceWorker, CountersOK, Fail, Remove
<1>7. CASE Crash
  BY <1>7, BoundsAssumption DEF Crash, CountersOK, Fail, Remove
<1>8. CASE \/ Dial \/ Connect \/ Roll \/ Quit \/ Write \/ Age \/ ReadList \/
             IndexLine \/ LineFails \/ Scan \/ AddProbed \/ EndScan \/
             (\E s \in Segs : Quiet(s)) \/ (\E s \in Segs : AgeRewritten(s)) \/
             (\E s \in Segs : TakeLine(s)) \/ (\E s \in Segs : Probe(s))
  BY <1>8 DEF Dial, Connect, Roll, Quit, Write, Age, ReadList, IndexLine, LineFails,
       Scan, AddProbed, EndScan, Quiet, AgeRewritten, TakeLine, Probe, CountersOK,
       Fail, Remove, OpenNext, Stopped, Start, Finish
<1>9. CASE \/ EndPurge \/ SelectExpired \/ BeginSweep \/ EndSweep \/ ReplaceFile \/
             GroomFails \/ MarkGroomed \/ (\E j \in AllJobs : Commit(j)) \/
             (\E j \in AllJobs : DeleteRows(j))
  BY <1>9 DEF EndPurge, SelectExpired, BeginSweep, EndSweep, ReplaceFile, GroomFails,
       MarkGroomed, Commit, DeleteRows, CountersOK, Fail, Remove, OpenNext, Stopped,
       Start, Finish
<1>10. CASE UNCHANGED vars
  BY <1>10 DEF vars, CountersOK, Fail, Remove
<1>. QED
  BY <1>1, <1>2, <1>3, <1>4, <1>5, <1>6, <1>7, <1>8, <1>9,
     <1>10 DEF Next, Recording,
     Indexing, Reconciling, Deleting, Ageing, Grooming

-----------------------------------------------------------------------------
\* An empty camera directory and an empty index have their types.
LEMMA TypeInit == Init => TypeOK
BY BoundsAssumption DEF Init, TypeOK, DiskOK, IndexOK, JobsOK, GroomOK, CountersOK, Closed, Idle,
   NoScan, NoIds, NoGroom, AllJobs, TwoPhase, RowsFirst

\* Every variable keeps its type, and the parts of the state fit each other: a
\* marked file exists, a flagged row exists, nothing in any hand is unrecorded.
THEOREM TypeCorrect == Spec => []TypeOK
<1>1. TypeOK /\ [Next]_vars => TypeOK'
  BY DiskStep, IndexStep, JobsStep, GroomStep, CountersStep DEF TypeOK
<1>. QED
  BY TypeInit, <1>1, PTL DEF Spec

-----------------------------------------------------------------------------
(* Deleted files.                                                           *)

\* A segment ffmpeg opens is new: no job and no erasure has met it.
LEMMA OpenNextSafe ==
  ASSUME StoreInv, OpenNext, UNCHANGED <<done, revived, erased>>
  PROVE  UnlinkedStayGone' /\ ErasedFilesStayGone'
<1>1. /\ files' = files \cup {made + 1}
      /\ made + 1 \notin 1 .. made
  BY BoundsAssumption DEF StoreInv, TypeOK, DiskOK, OpenNext
<1>2. /\ \A j \in AllJobs : done[j] \subseteq 1 .. made
      /\ erased \subseteq 1 .. made
  BY DEF StoreInv, TypeOK, JobsOK, GroomOK
<1>. QED
  BY <1>1, <1>2 DEF StoreInv, UnlinkedStayGone, ErasedFilesStayGone

\* No step but os.replace brings back a file that a job has unlinked.
LEMMA SafetyStep == StoreInv /\ [Next]_vars => UnlinkedStayGone' /\ ErasedFilesStayGone'
<1> DEFINE Gone == UnlinkedStayGone /\ ErasedFilesStayGone
<1> SUFFICES ASSUME StoreInv, [Next]_vars PROVE Gone'
  OBVIOUS
<1> USE DEF diskVars, ffmpegVars, indexVars, rowVars, jobVars, groomVars, otherVars,
            UnlinkedStayGone, ErasedFilesStayGone
<1>0. /\ Gone
      /\ done \in [AllJobs -> SUBSET (1 .. made)]
  BY DEF StoreInv, TypeOK, JobsOK
<1>1. CASE Connect \/ Roll
  BY <1>1, OpenNextSafe DEF Connect, Roll, OpenNext
<1>2. CASE \/ \E j \in TwoPhase, S \in SUBSET Segs : Choose(j, S)
           \/ SelectExpired \/ SelectAll \/ EndPurge \/ BeginSweep \/ EndSweep
  BY <1>0, <1>2 DEF Choose, SelectExpired, SelectAll, EndPurge, BeginSweep, EndSweep, Start,
     Finish, AllJobs, TwoPhase, RowsFirst
<1>3. ASSUME NEW j \in AllJobs, NEW s \in Segs, Unlink(j, s) PROVE Gone'
  <2>1. CASE Remove(j, s)
    BY <1>0, <1>3, <2>1 DEF Unlink, Remove, Unlinked
  <2>2. CASE Fail(s) /\ UNCHANGED done
    BY <1>0, <1>3, <2>2 DEF Unlink, Fail
  <2>. QED
    BY <1>3, <2>1, <2>2 DEF Unlink
<1>4. ASSUME NEW j \in AllJobs, Commit(j) PROVE Gone'
  BY <1>0, <1>4 DEF Commit, Finish
<1>5. ASSUME NEW s \in Segs, Sweep(s) PROVE Gone'
  BY <1>0, <1>5 DEF Sweep, Unlinked, Fail
<1>6. CASE ReplaceFile
  BY <1>0, <1>6 DEF ReplaceFile
<1>7. CASE Crash
  BY <1>0, <1>7 DEF Crash, Stopped, AllJobs, TwoPhase, RowsFirst
<1>8. CASE \/ Dial \/ Quit \/ Write \/ Age \/ ReadList \/ IndexLine \/ LineFails \/ Scan
           \/ AddProbed \/ EndScan \/ GroomFails \/ MarkGroomed \/ ReplaceWorker
           \/ \E s \in Segs : Quiet(s) \/ AgeRewritten(s) \/ TakeLine(s) \/ Probe(s)
                              \/ BeginGroom(s)
           \/ \E j \in AllJobs : DeleteRows(j)
  BY <1>0, <1>8 DEF Dial, Quit, Write, Age, ReadList, IndexLine, LineFails, Scan, AddProbed,
     EndScan, GroomFails, MarkGroomed, ReplaceWorker, Stopped, Quiet, AgeRewritten, TakeLine,
     Probe, BeginGroom, DeleteRows
<1>9. CASE UNCHANGED vars
  BY <1>0, <1>9 DEF vars
<1>. HIDE DEF Gone
<1>. QED
  BY <1>1, <1>2, <1>3, <1>4, <1>5, <1>6, <1>7, <1>8, <1>9 DEF Next, Recording, Indexing,
     Reconciling, Deleting, Ageing, Grooming

\* The invariant of the deletion jobs: what is unlinked stays gone until its rows
\* have followed and after, but for the groomer.
THEOREM StoreCorrect == Spec => []StoreInv
<1>1. Init => StoreInv
  BY TypeInit DEF Init, StoreInv, UnlinkedStayGone, ErasedFilesStayGone
<1>2. StoreInv /\ [Next]_vars => StoreInv'
  BY SafetyStep, DiskStep, IndexStep, JobsStep, GroomStep, CountersStep DEF StoreInv, TypeOK
<1>. QED
  BY <1>1, <1>2, PTL DEF Spec

\* An erased segment's file never comes back, whatever the other threads do, unless
\* the groomer had it in hand (server.py:1014-1032).
THEOREM ErasureHolds == Spec => []ErasedFilesStayGone
<1>1. StoreInv => ErasedFilesStayGone
  BY DEF StoreInv
<1>. QED
  BY StoreCorrect, <1>1, PTL

-----------------------------------------------------------------------------
(* Rows leave after their files.                                            *)

\* Outside the two rows-first jobs a row leaves only by the commit of a two-phase
\* deletion.
LEMMA RowsKept ==
  ASSUME StoreInv, [Next]_vars,
         \A j \in RowsFirst : pc[j] = "delete" => pc'[j] = "delete" \/ pc'[j] = "idle",
         NEW s \in rows \ rows'
  PROVE  s \notin files \ revived /\ UNCHANGED <<files, revived>>
<1> USE DEF diskVars, ffmpegVars, indexVars, rowVars, jobVars, groomVars, otherVars
<1> SUFFICES \E j \in AllJobs : Commit(j)
  BY DEF Commit, DropRows, StoreInv, UnlinkedStayGone
<1>1. ASSUME NEW j \in AllJobs, DeleteRows(j) PROVE FALSE
  BY <1>1 DEF DeleteRows, StoreInv, TypeOK, JobsOK
<1>2. IndexLine \/ AddProbed => FALSE
  BY DEF IndexLine, AddProbed, AddRow
<1>3. CASE \/ Dial \/ Connect \/ Roll \/ Quit \/ Write \/ Age \/ ReadList \/ LineFails \/ Scan
           \/ EndScan \/ SelectExpired \/ SelectAll \/ EndPurge \/ BeginSweep \/ EndSweep
           \/ ReplaceFile \/ GroomFails \/ MarkGroomed \/ ReplaceWorker \/ Crash
  BY <1>3 DEF Dial, Connect, Roll, Quit, Write, Age, ReadList, LineFails, Scan, EndScan,
     SelectExpired, SelectAll, EndPurge, BeginSweep, EndSweep, ReplaceFile, GroomFails,
     MarkGroomed, ReplaceWorker, Crash, OpenNext, Stopped
<1>4. CASE \/ \E t \in Segs : Quiet(t) \/ AgeRewritten(t) \/ TakeLine(t) \/ Probe(t)
                              \/ Sweep(t) \/ BeginGroom(t)
           \/ \E j \in TwoPhase, S \in SUBSET Segs : Choose(j, S)
           \/ \E j \in AllJobs, t \in Segs : Unlink(j, t)
  BY <1>4 DEF Quiet, AgeRewritten, TakeLine, Probe, Sweep, BeginGroom, Choose, Unlink
<1>5. CASE UNCHANGED vars
  BY <1>5 DEF vars
<1>. QED
  BY <1>1, <1>2, <1>3, <1>4, <1>5 DEF Next, Recording, Indexing, Reconciling, Deleting, Ageing,
     Grooming

\* Size cap, disk floor and erasure never drop a row whose file is still there, a
\* failed unlink included (retention.py:246-265, server.py:1014-1032).
THEOREM RowsFollowFiles == Spec => RowLeavesAfterFile
<1>1. StoreInv /\ [Next]_vars =>
        [(\A j \in RowsFirst : pc[j] = "delete" => pc'[j] = "delete" \/ pc'[j] = "idle")
           => \A s \in rows \ rows' : s \notin files \ revived]_vars
  BY RowsKept
<1>. QED
  BY StoreCorrect, <1>1, PTL DEF Spec, RowLeavesAfterFile
-----------------------------------------------------------------------------
(* The groomer.                                                             *)

\* Segments the groomer has rewritten or has in hand.
Handled == slim \cup (IF groom.pc = "idle" THEN {} ELSE {groom.seg})

\* No deletion that drops rows first, no replaced worker.
Undisturbed == (\A j \in RowsFirst : pc[j] = "idle") /\ ~rec.old

\* What has a row, or has been handled, is behind the watermark, and neither the
\* indexer nor a scan has it in hand: its file has a row, or has gone for good.
HandsInv ==
  /\ \A s \in rows \cup Handled : s <= watermark
  /\ idx.seg \notin Handled
  /\ \A s \in Handled \ revived : s \notin rec.left \cup {rec.seg} /\ (s \in files => s \in rows)

\* The row of a rewritten segment bears the flag, or is about to.
FlagInv ==
  /\ groom.pc # "idle" /\ groom.seg \in rows \ revived => rowId[groom.seg] = groom.id
  /\ groom.pc = "remux" /\ groom.seg \in slim => groom.seg \in revived
  /\ \A s \in slim \ revived :
       s \in rows => s \in groomed \/ (groom.pc = "mark" /\ groom.seg = s)
  /\ regroomed \subseteq revived

CarefulInv ==
  restarts = 0 /\ Jobs \subseteq TwoPhase => Undisturbed /\ HandsInv /\ FlagInv

LEMMA CarefulInit == Init => CarefulInv
BY DEF Init, CarefulInv, Undisturbed, HandsInv, FlagInv, Handled, NoScan, NoGroom, Idle, RowsFirst,
       AllJobs

\* Only recorded segments are handled.
LEMMA HandledMade == TypeOK => Handled \subseteq 1 .. made /\ 1 .. made \subseteq Segs
<1> SUFFICES ASSUME TypeOK PROVE Handled \subseteq 1 .. made /\ 1 .. made \subseteq Segs
  OBVIOUS
<1>1. made \in 0 .. MaxSeg /\ slim \subseteq 1 .. made
  BY DEF TypeOK, DiskOK, GroomOK
<1>2. groom.pc # "idle" => groom.seg \in 1 .. made
  <2>1. groom.seg \in 0 .. made /\ (groom.pc # "idle" => groom.seg # 0)
    BY DEF TypeOK, GroomOK
  <2>. QED
    BY <1>1, <2>1, BoundsAssumption
<1>3. Handled \subseteq 1 .. made
  BY <1>1, <1>2 DEF Handled
<1>4. 1 .. made \subseteq Segs
  BY <1>1, BoundsAssumption DEF Segs
<1>. QED
  BY <1>3, <1>4

\* A row that is added belongs to no segment the groomer has handled, or to one it
\* has put back.
LEMMA CarefulRow ==
  ASSUME StoreInv, Undisturbed, HandsInv, FlagInv, NEW s \in 1 .. made, NEW partial \in BOOLEAN,
         AddRow(s, partial), s \notin Handled \ revived,
         watermark' = Largest(watermark, s), idx'.seg \in {0, idx.seg},
         rec'.left = rec.left, rec'.seg \in {0, rec.seg},
         UNCHANGED <<files, slim, revived, regroomed, groom>>
  PROVE  HandsInv' /\ FlagInv'
<1>1. watermark \in Nat /\ watermark' \in Nat /\ watermark <= watermark' /\ s <= watermark'
  BY BoundsAssumption DEF StoreInv, TypeOK, DiskOK, IndexOK, Largest
<1>2. /\ rows' = rows \cup {s} /\ groomed' = groomed \ {s}
      /\ \A t \in Segs \ {s} : rowId'[t] = rowId[t]
  BY DEF AddRow, StoreInv, TypeOK, IndexOK
<1>3. Handled' = Handled /\ Handled \subseteq 1 .. made /\ 1 .. made \subseteq Segs
      /\ rows \subseteq 1 .. made
  BY HandledMade DEF Handled, StoreInv, TypeOK, IndexOK
<1>4. 0 \notin 1 .. made
  OBVIOUS
<1>5. HandsInv'
  <2>1. \A t \in rows' \cup Handled' : t <= watermark'
    <3>1. \A t \in rows \cup Handled : t <= watermark /\ t \in Nat
      BY <1>3, BoundsAssumption DEF HandsInv
    <3>2. \A t \in rows \cup Handled : t <= watermark'
      BY <1>1, <3>1
    <3>. QED BY <1>1, <1>2, <1>3, <3>2
  <2>2. idx'.seg \notin Handled'
    BY <1>3, <1>4 DEF HandsInv
  <2>3. \A t \in Handled' \ revived' : /\ t \notin rec'.left \cup {rec'.seg}
                                       /\ (t \in files' => t \in rows')
    <3>. SUFFICES ASSUME NEW t \in Handled \ revived
                  PROVE  t \notin rec'.left \cup {rec'.seg} /\ (t \in files => t \in rows')
      BY <1>3
    <3>1. t \notin rec.left \cup {rec.seg} /\ (t \in files => t \in rows)
      BY DEF HandsInv
    <3>2. t # 0
      BY <1>3, <1>4
    <3>. QED BY <1>2, <3>1, <3>2
  <2>. QED BY <2>1, <2>2, <2>3 DEF HandsInv
<1>6. groom.pc # "idle" => groom.seg \in Handled
  BY DEF Handled
<1>7. slim \subseteq Handled
  BY DEF Handled
<1>8. FlagInv'
  BY <1>2, <1>3, <1>6, <1>7 DEF FlagInv
<1>. QED
  BY <1>5, <1>8

\* A step that adds no row and leaves the groomer alone.
LEMMA CarefulSame ==
  ASSUME StoreInv, HandsInv, FlagInv,
         UNCHANGED <<rowId, watermark, slim, revived, regroomed, groom>>,
         rows' = rows, groomed' = groomed,
         \A s \in files' \ files : s \notin Handled,
         idx'.seg \notin Handled,
         \A s \in (rec'.left \cup {rec'.seg}) \ (rec.left \cup {rec.seg}) : s \notin Handled \ revived
  PROVE  HandsInv' /\ FlagInv'
<1>1. Handled' = Handled
  BY DEF Handled
<1>. QED
  BY <1>1 DEF HandsInv, FlagInv

LEMMA CarefulStep == StoreInv /\ CarefulInv /\ [Next]_vars => CarefulInv'
<1> SUFFICES ASSUME StoreInv, CarefulInv, [Next]_vars, restarts' = 0, Jobs \subseteq TwoPhase
             PROVE  Undisturbed' /\ HandsInv' /\ FlagInv'
  BY DEF CarefulInv
<1> USE DEF diskVars, ffmpegVars, indexVars, rowVars, jobVars, groomVars, otherVars
<1>0. restarts = 0
  <2>1. restarts \in Nat /\ (restarts' = restarts \/ restarts' = restarts + 1)
    <3>1. restarts \in Nat
      BY BoundsAssumption DEF StoreInv, TypeOK, CountersOK
    <3>2. CASE ReplaceWorker \/ Crash
      BY <3>1, <3>2 DEF ReplaceWorker, Crash
    <3>3. CASE ~(ReplaceWorker \/ Crash)
      BY <3>1, <3>3 DEF vars, Next, Recording, Dial, Connect, Roll, Quit, Write, Age, OpenNext,
         Quiet, AgeRewritten, Indexing, ReadList, TakeLine, IndexLine, LineFails, Reconciling,
         Scan, Probe, AddProbed, EndScan, Choose, Deleting, Unlink, Commit, DeleteRows, SelectAll,
         EndPurge, Ageing, SelectExpired, BeginSweep, Sweep, EndSweep, Grooming, BeginGroom,
         ReplaceFile, GroomFails, MarkGroomed
    <3>. QED
      BY <3>2, <3>3
  <2>. QED
    BY <2>1
<1>1. Undisturbed /\ HandsInv /\ FlagInv
  BY <1>0 DEF CarefulInv
<1>2. TypeOK /\ "age" \notin Jobs /\ "purge" \notin Jobs
  BY DEF StoreInv, TwoPhase
<1>3. pc["age"] = "idle" /\ pc["purge"] = "idle" /\ ~rec.old
  BY <1>1 DEF Undisturbed, RowsFirst
<1>4. ~ReplaceWorker /\ ~Crash
  BY <1>0, <1>2, BoundsAssumption DEF ReplaceWorker, Crash
<1>5. Undisturbed'
  <2>1. pc'["age"] = "idle" /\ pc'["purge"] = "idle"
    <3>1. CASE \/ \E j \in TwoPhase, S \in SUBSET Segs : Choose(j, S)
               \/ \E j \in AllJobs : Commit(j)
      BY <1>2, <1>3, <3>1 DEF Choose, Commit, Start, Finish, TypeOK, JobsOK, AllJobs, TwoPhase,
         RowsFirst
    <3>2. CASE \/ SelectAll \/ EndPurge \/ SelectExpired \/ BeginSweep \/ EndSweep
               \/ \E j \in AllJobs : DeleteRows(j)
      BY <1>2, <1>3, <3>2 DEF SelectAll, EndPurge, SelectExpired, BeginSweep, EndSweep, DeleteRows,
         RowsFirst
    <3>3. CASE pc' = pc
      BY <1>3, <3>3
    <3>. QED
      BY <1>4, <3>1, <3>2, <3>3 DEF vars, Next, Recording, Dial, Connect, Roll, Quit, Write, Age,
         OpenNext, Quiet, AgeRewritten, Indexing, ReadList, TakeLine, IndexLine, LineFails,
         Reconciling, Scan, Probe, AddProbed, EndScan, Deleting, Unlink, Ageing, Sweep, Grooming,
         BeginGroom, ReplaceFile, GroomFails, MarkGroomed
  <2>2. ~rec'.old
    <3>1. rec.old = rec'.old \/ ~rec'.old
      <4>1. CASE Scan
        BY <4>1 DEF Scan, NoScan
      <4>2. CASE AddProbed \/ \E s \in Segs : Probe(s)
        <5>1. rec.old \in BOOLEAN /\ rec \in [pc : {"idle", "scan", "add"}, left : SUBSET (1 .. made), seg : 0 .. made,
                                              short : BOOLEAN, old : BOOLEAN]
          BY <1>2 DEF TypeOK, IndexOK
        <5>2. CASE AddProbed
          BY <5>1, <5>2 DEF AddProbed
        <5>3. ASSUME NEW s \in Segs, Probe(s) PROVE rec.old = rec'.old \/ ~rec'.old
          <6>1. CASE s \in files \ fresh
            BY <5>1, <5>3, <6>1 DEF Probe
          <6>2. CASE ~(s \in files \ fresh)
            BY <5>1, <5>3, <6>2 DEF Probe
          <6>. QED
            BY <6>1, <6>2
        <5>. QED
          BY <4>2, <5>2, <5>3
      <4>3. CASE EndScan
        BY <4>3 DEF EndScan, NoScan
      <4>4. CASE rec' = rec
        BY <4>4
      <4>. QED
        BY <1>4, <4>1, <4>2, <4>3, <4>4 DEF vars, Next, Recording, Dial, Connect, Roll, Quit,
           Write, Age, OpenNext, Quiet, AgeRewritten, Indexing, ReadList, TakeLine, IndexLine,
           LineFails, Reconciling, Choose, Deleting, Unlink, Commit, DeleteRows, SelectAll,
           EndPurge, Ageing, SelectExpired, BeginSweep, Sweep, EndSweep, Grooming, BeginGroom,
           ReplaceFile, GroomFails, MarkGroomed
    <3>. QED
      BY <1>3, <3>1
  <2>. QED
    BY <2>1, <2>2 DEF Undisturbed, RowsFirst
<1>6. Handled \subseteq 1 .. made /\ 1 .. made \subseteq Segs /\ 0 \notin 1 .. made
  BY <1>2, HandledMade
<1> SUFFICES HandsInv' /\ FlagInv'
  BY <1>5
<1>7. CASE IndexLine
  <2>1. idx.seg \in 1 .. made /\ idx.seg \notin Handled /\ idx'.seg = 0 /\ rec' = rec
    BY <1>1, <1>2, <1>7 DEF IndexLine, TypeOK, IndexOK, Closed, HandsInv
  <2>. QED
    BY <1>1, <1>7, <2>1, CarefulRow DEF IndexLine
<1>8. CASE AddProbed
  <2>1. rec.seg \in 1 .. made /\ rec.short \in BOOLEAN /\ rec.seg \notin Handled \ revived
    <3>1. rec.seg # 0 /\ rec.seg \in 0 .. made /\ rec.short \in BOOLEAN
      BY <1>2, <1>8 DEF AddProbed, TypeOK, IndexOK
    <3>2. made \in Nat
      BY <1>2, BoundsAssumption DEF TypeOK, DiskOK
    <3>. QED
      BY <1>1, <3>1, <3>2 DEF HandsInv
  <2>2. rec'.left = rec.left /\ rec'.seg = 0
    BY <1>2, <1>8 DEF AddProbed, TypeOK, IndexOK
  <2>. QED
    BY <1>1, <1>3, <1>8, <2>1, <2>2, CarefulRow DEF AddProbed
<1>9. ASSUME NEW j \in AllJobs, Commit(j) PROVE HandsInv' /\ FlagInv'
  <2>1. PICK S \in SUBSET done[j] : rows' = rows \ S /\ groomed' = groomed \ S /\ rowId' = rowId
    BY <1>9 DEF Commit, DropRows
  <2>2. \A s \in S \ revived : s \notin files
    BY <2>1 DEF StoreInv, UnlinkedStayGone
  <2>3. Handled' = Handled
    BY <1>9 DEF Commit, Handled
  <2>. QED
    BY <1>1, <1>9, <2>1, <2>2, <2>3 DEF Commit, HandsInv, FlagInv
<1>10. ASSUME NEW s \in Segs, BeginGroom(s) PROVE HandsInv' /\ FlagInv'
  <2>1. /\ groom' = [pc |-> "remux", seg |-> s, id |-> rowId[s]] /\ groom.pc = "idle"
        /\ s \in rows \cap files /\ s \notin groomed
        /\ s \notin rec.left \cup {rec.seg} /\ s # idx.seg
        /\ UNCHANGED <<files, idx, rec, watermark, rows, rowId, groomed, slim, revived, regroomed>>
    BY <1>10 DEF BeginGroom, Old
  <2>2. Handled' = Handled \cup {s}
    BY <2>1 DEF Handled
  <2>3. HandsInv'
    BY <1>1, <2>1, <2>2 DEF HandsInv
  <2>4. s \in slim => s \in revived
    BY <1>1, <2>1 DEF FlagInv
  <2>5. FlagInv'
    BY <1>1, <2>1, <2>4 DEF FlagInv
  <2>. QED
    BY <2>3, <2>5
<1>11. CASE ReplaceFile
  <2> DEFINE s == groom.seg
  <2>1. /\ groom.pc = "remux" /\ groom'.pc = "mark" /\ groom'.seg = s /\ groom'.id = groom.id
        /\ files' = files \cup {s} /\ slim' = slim \cup {s}
        /\ revived' = IF s \in files THEN revived ELSE revived \cup {s}
        /\ regroomed' = regroomed \cup (slim \cap {s})
        /\ UNCHANGED <<idx, rec, watermark, rows, rowId, groomed>>
    BY <1>2, <1>11 DEF ReplaceFile, TypeOK, GroomOK
  <2>2. s \in Handled /\ Handled' = Handled
    BY <2>1 DEF Handled
  <2> HIDE DEF s
  <2>3. HandsInv'
    BY <1>1, <2>1, <2>2 DEF HandsInv
  <2>4. FlagInv'
    BY <1>1, <2>1 DEF FlagInv, s
  <2>. QED
    BY <2>3, <2>4
<1>12. CASE GroomFails
  <2>1. /\ groom.pc = "remux" /\ groom'.pc = "idle"
        /\ UNCHANGED <<files, idx, rec, watermark, rows, rowId, groomed, slim, revived, regroomed>>
    BY <1>12 DEF GroomFails, NoGroom
  <2>2. Handled' \subseteq Handled
    BY <2>1 DEF Handled
  <2>. QED
    BY <1>1, <2>1, <2>2 DEF HandsInv, FlagInv
<1>13. CASE MarkGroomed
  <2>1. /\ groom.pc = "mark" /\ groom'.pc = "idle"
        /\ groomed' = IF groom.seg \in rows /\ rowId[groom.seg] = groom.id
                        THEN groomed \cup {groom.seg} ELSE groomed
        /\ UNCHANGED <<files, idx, rec, watermark, rows, rowId, slim, revived, regroomed>>
    BY <1>13 DEF MarkGroomed, NoGroom
  <2>2. Handled' \subseteq Handled
    BY <2>1 DEF Handled
  <2>. QED
    BY <1>1, <2>1, <2>2 DEF HandsInv, FlagInv
<1>14. CASE Connect \/ Roll
  <2>1. files' = files \cup {made + 1} /\ made + 1 \notin 1 .. made
    BY <1>2, <1>14, BoundsAssumption DEF Connect, Roll, OpenNext, TypeOK, DiskOK
  <2>. QED
    BY <1>1, <1>6, <1>14, <2>1, CarefulSame DEF Connect, Roll, OpenNext, HandsInv
<1>15. ASSUME NEW s \in Segs, TakeLine(s) PROVE HandsInv' /\ FlagInv'
  <2>1. idx'.seg = 0 \/ (idx'.seg = s /\ s > watermark)
    BY <1>15 DEF TakeLine
  <2>2. watermark \in Nat /\ s \in Nat
    BY <1>2, BoundsAssumption DEF TypeOK, DiskOK, IndexOK, Segs
  <2>3. idx'.seg \notin Handled
    BY <1>1, <1>6, <2>1, <2>2 DEF HandsInv
  <2>. QED
    BY <1>1, <1>15, <2>3, CarefulSame DEF TakeLine
<1>16. CASE Scan
  <2>1. rec'.left = Unindexed /\ rec'.seg = 0
    BY <1>16 DEF Scan, NoScan
  <2>2. \A s \in Unindexed : s \notin Handled \ revived
    BY <1>1 DEF Unindexed, HandsInv
  <2>. QED
    BY <1>1, <1>6, <1>16, <2>1, <2>2, CarefulSame DEF Scan, HandsInv
<1>17. ASSUME NEW s \in Segs, Probe(s) PROVE HandsInv' /\ FlagInv'
  <2>1. s \in rec.left /\ rec'.left \cup {rec'.seg} \subseteq rec.left \cup {rec.seg}
    BY <1>2, <1>17 DEF Probe, TypeOK, IndexOK
  <2>. QED
    BY <1>1, <1>17, <2>1, CarefulSame DEF Probe, HandsInv
<1>18. CASE EndScan
  <2>1. rec'.left = {} /\ rec'.seg = 0
    BY <1>18 DEF EndScan, NoScan
  <2>. QED
    BY <1>1, <1>6, <1>18, <2>1, CarefulSame DEF EndScan, HandsInv
<1>19. CASE ReadList \/ LineFails
  <2>1. idx'.seg \in {0, idx.seg}
    BY <1>2, <1>19 DEF ReadList, LineFails, Idle, TypeOK, IndexOK
  <2>2. idx'.seg \notin Handled
    BY <1>1, <1>6, <2>1 DEF HandsInv
  <2>. QED
    BY <1>1, <1>19, <2>2, CarefulSame DEF ReadList, LineFails
<1>20. ASSUME UNCHANGED <<rowVars, idx, rec, watermark, slim, revived, regroomed, groom>>,
              files' \subseteq files
       PROVE  HandsInv' /\ FlagInv'
  BY <1>1, <1>20, CarefulSame DEF HandsInv
<1>21. CASE \/ Dial \/ Quit \/ Write \/ Age \/ \E s \in Segs : Quiet(s) \/ AgeRewritten(s)
  BY <1>20, <1>21 DEF Dial, Quit, Stopped, Write, Age, Quiet, AgeRewritten
<1>22. CASE \/ \E j \in TwoPhase, S \in SUBSET Segs : Choose(j, S)
            \/ \E j \in AllJobs, s \in Segs : Unlink(j, s)
  BY <1>20, <1>22 DEF Choose, Unlink, Remove, Unlinked, Fail
<1>23. CASE \/ SelectAll \/ SelectExpired \/ BeginSweep \/ EndSweep \/ EndPurge
            \/ (\E s \in Segs : Sweep(s)) \/ \E j \in AllJobs : DeleteRows(j)
  BY <1>2, <1>3, <1>23 DEF SelectAll, SelectExpired, BeginSweep, EndSweep, EndPurge, Sweep,
     DeleteRows, RowsFirst
<1>24. CASE UNCHANGED vars
  BY <1>20, <1>24 DEF vars
<1>. QED
  BY <1>4, <1>7, <1>8, <1>9, <1>10, <1>11, <1>12, <1>13, <1>14, <1>15, <1>16, <1>17, <1>18,
     <1>19, <1>21, <1>22, <1>23, <1>24
  DEF Next, Recording, Indexing, Reconciling, Deleting, Ageing, Grooming

\* No segment is rewritten twice, save one the groomer itself put back, as long as
\* nothing restarts and all deletion is two-phase (grooming.py:20-21).
THEOREM GroomedOnlyOnce == Spec => []GroomedOnce
<1>1. CarefulInv => GroomedOnce
  BY DEF CarefulInv, FlagInv, GroomedOnce
<1>. QED
  BY <1>1, CarefulInit, CarefulStep, StoreCorrect, PTL DEF Spec
=============================================================================
