------------------------------ MODULE AuditTrail ------------------------------
(***************************************************************************)
(* The hash-chained audit log and the two feeds that must not record an    *)
(* event twice: logins, seen at every page load, and the events that       *)
(* workers poll from Keycloak.  A database lock serialises the writers;    *)
(* the cache remembers what has been recorded.                             *)
(* Code: camera-mgmt/backend/services/audit.py.                            *)
(***************************************************************************)
EXTENDS Naturals, Sequences, FiniteSets, SequencesExt

CONSTANTS Recorders,      \* tasks that append: pollers and page loads
          Sessions,       \* login sessions
          Events,         \* what Keycloak has to tell
          Timings,        \* when the events may happen
          Page,           \* how many events one poll fetches, the newest first
          AuditBudgets    \* events, page loads, failed writes, crashes, outages, polls in one

ASSUME AuditAssumption ==
  /\ IsFiniteSet(Recorders) /\ Timings \subseteq [Events -> Nat \ {0}] /\ Page \in Nat \ {0}
  /\ Sessions \cap Events = {}
  /\ AuditBudgets \subseteq [event : Nat, load : Nat, fail : Nat, crash : Nat, outage : Nat, blind : Nat]

Nobody == "nobody"
NoJob == "none"
ASSUME NamesAssumption == Nobody \notin Recorders /\ NoJob \notin Sessions \cup Events

VARIABLES
  log,         \* audit_log in the order of ids: what, and the hash of the row before
  chainLock,   \* who holds the advisory lock
  stamp,       \* when each event happened
  kcEvents,    \* events Keycloak has stored
  mark,        \* the high-water mark in the cache
  known,       \* sessions and events the cache has seen
  answers,     \* does the cache answer?
  rec,         \* what a recorder is doing, and what it holds meanwhile
  dropped,     \* history: what a crash or a failed write lost after it was claimed
  late,        \* history: events stored behind the mark, or pushed off the page
  blackout,    \* history: the cache was away, or forgot
  auditBudget

feedVars == <<stamp, kcEvents, mark, known, answers>>
auditVars == <<log, chainLock, feedVars, rec, dropped, late, blackout, auditBudget>>

SpendAudit(c) == auditBudget[c] > 0 /\ auditBudget' = [auditBudget EXCEPT ![c] = @ - 1]

(* SHA-256 of the row before and the payload: a value for each history.    *)
HashOf(prev, what) == Append(prev, what)
LastHash == IF log = <<>> THEN <<>> ELSE HashOf(Last(log).prev, Last(log).what)

(* A poller carries the events to go through, the mark it read and the one *)
(* it will leave; whoever writes carries what it writes and the last hash. *)
Task(at, job, todo, high, top, head) ==
  [at |-> at, job |-> job, todo |-> todo, high |-> high, top |-> top, head |-> head]
Idle == Task("idle", NoJob, {}, 0, 0, <<>>)
Does(p, task) == rec' = [rec EXCEPT ![p] = task]

AuditInit ==
  /\ log = <<>> /\ chainLock = Nobody
  /\ stamp \in Timings /\ kcEvents = {} /\ mark = 0 /\ known = {} /\ answers = TRUE
  /\ rec = [p \in Recorders |-> Idle]
  /\ dropped = {} /\ late = {} /\ blackout = FALSE /\ auditBudget \in AuditBudgets

Happens(e) ==
  /\ e \notin kcEvents /\ SpendAudit("event") /\ kcEvents' = kcEvents \cup {e}
  /\ late' = IF \E d \in kcEvents : stamp[d] >= stamp[e] THEN late \cup {e} ELSE late
  /\ UNCHANGED <<log, chainLock, stamp, mark, known, answers, rec, dropped, blackout>>

-----------------------------------------------------------------------------
(* record_login_once: the first load of a session's page claims it; without*)
(* a cache every load records.                                             *)
PageLoad(p, s) ==
  /\ rec[p].at = "idle" /\ SpendAudit("load")
  /\ IF answers /\ s \in known
       THEN UNCHANGED <<rec, known>>
       ELSE /\ Does(p, Task("wait", s, {}, 0, 0, <<>>))
            /\ known' = IF answers THEN known \cup {s} ELSE known
  /\ UNCHANGED <<log, chainLock, stamp, kcEvents, mark, answers, dropped, late, blackout>>

(* One poll: fetch the newest page ...                                     *)
Newest(S) == {P \in SUBSET S : /\ Cardinality(P) = IF Cardinality(S) < Page THEN Cardinality(S)
                                                                           ELSE Page
                               /\ \A e \in P, d \in S \ P : stamp[e] >= stamp[d]}

Fetch(p) ==
  /\ rec[p].at = "idle" /\ kcEvents # {}
  /\ \E P \in Newest(kcEvents) :
       /\ Does(p, Task("mark", NoJob, P, 0, 0, <<>>))
       /\ late' = late \cup {e \in kcEvents \ P : stamp[e] > mark}
  /\ UNCHANGED <<log, chainLock, feedVars, dropped, blackout, auditBudget>>

(* ... then the mark, and keep what is above it; without an answer the     *)
(* mark counts as zero ...                                                 *)
Above(todo, h) == {e \in todo : stamp[e] > h}

ReadMark(p) ==
  /\ rec[p].at = "mark"
  /\ IF answers THEN UNCHANGED auditBudget ELSE SpendAudit("blind")
  /\ LET h == IF answers THEN mark ELSE 0 IN
     Does(p, Task("each", NoJob, Above(rec[p].todo, h), h, h, <<>>))
  /\ UNCHANGED <<log, chainLock, feedVars, dropped, late, blackout>>

(* ... oldest first, each event is recorded by the poller that claims it   *)
(* (SET NX), or by every poller while the cache is away ...                *)
Oldest(todo) == {e \in todo : \A d \in todo : stamp[e] <= stamp[d]}
Later(h, e) == IF stamp[e] > h THEN stamp[e] ELSE h

Claim(p) ==
  /\ rec[p].at = "each"
  /\ \E e \in Oldest(rec[p].todo) :
       LET rest == rec[p].todo \ {e}
           top == Later(rec[p].top, e)
       IN  /\ IF answers /\ e \in known
                THEN Does(p, Task("each", NoJob, rest, rec[p].high, top, <<>>))
                ELSE Does(p, Task("wait", e, rest, rec[p].high, top, <<>>))
           /\ known' = IF answers THEN known \cup {e} ELSE known
  /\ UNCHANGED <<log, chainLock, stamp, kcEvents, mark, answers, dropped, late, blackout, auditBudget>>

(* Mutant: the mark moves to the newest event fetched before it is         *)
(* recorded.                                                               *)
StoreMarkEarly(p) ==
  /\ rec[p].at = "each"
  /\ rec' = IF rec[p].todo = {} THEN [rec EXCEPT ![p] = Idle] ELSE rec
  /\ \/ rec[p].todo = {} /\ UNCHANGED mark
     \/ \E e \in rec[p].todo : (\A d \in rec[p].todo : stamp[d] <= stamp[e]) /\ mark' = stamp[e]
  /\ UNCHANGED <<log, chainLock, stamp, kcEvents, known, answers, dropped, late, blackout, auditBudget>>

(* ... and the mark is stored, without a look at what another poller left. *)
StoreMark(p) ==
  /\ rec[p].at = "each" /\ rec[p].todo = {} /\ Does(p, Idle)
  /\ mark' = IF rec[p].top > rec[p].high /\ answers THEN rec[p].top ELSE mark
  /\ UNCHANGED <<log, chainLock, stamp, kcEvents, known, answers, dropped, late, blackout, auditBudget>>

-----------------------------------------------------------------------------
(* log_event.                                                              *)

(* The advisory lock is held to the end of the transaction.                *)
TakeLock(p) ==
  /\ rec[p].at = "wait" /\ chainLock = Nobody /\ chainLock' = p
  /\ Does(p, Task("insert", rec[p].job, rec[p].todo, rec[p].high, rec[p].top, LastHash))
  /\ UNCHANGED <<log, feedVars, dropped, late, blackout, auditBudget>>

(* A poller goes on to its next event; a page load is served.              *)
Served(p) ==
  IF rec[p].job \in Events THEN Does(p, Task("each", NoJob, rec[p].todo, rec[p].high, rec[p].top, <<>>))
                           ELSE Does(p, Idle)

Insert(p) ==
  /\ rec[p].at = "insert"
  /\ log' = Append(log, [what |-> rec[p].job, prev |-> rec[p].head])
  /\ Served(p) /\ chainLock' = Nobody
  /\ UNCHANGED <<feedVars, dropped, late, blackout, auditBudget>>

(* A write that fails is logged and forgotten: it must not surface.        *)
WriteFails(p) ==
  /\ rec[p].at \in {"wait", "insert"} /\ SpendAudit("fail")
  /\ Served(p) /\ dropped' = dropped \cup {rec[p].job}
  /\ chainLock' = IF chainLock = p THEN Nobody ELSE chainLock
  /\ UNCHANGED <<log, feedVars, late, blackout>>

(* The worker dies: its transaction is rolled back, and what it had        *)
(* claimed is not recorded.                                                *)
WorkerCrashes(p) ==
  /\ rec[p].at # "idle" /\ SpendAudit("crash")
  /\ Does(p, Idle) /\ dropped' = dropped \cup ({rec[p].job} \ {NoJob})
  /\ chainLock' = IF chainLock = p THEN Nobody ELSE chainLock
  /\ UNCHANGED <<log, feedVars, late, blackout>>

-----------------------------------------------------------------------------
(* The cache.                                                              *)

CacheAway ==
  /\ answers /\ SpendAudit("outage") /\ answers' = FALSE /\ blackout' = TRUE
  /\ UNCHANGED <<log, chainLock, stamp, kcEvents, mark, known, rec, dropped, late>>

(* It comes back with what it held, or empty.                              *)
CacheBack ==
  /\ ~answers /\ answers' = TRUE
  /\ \/ UNCHANGED <<mark, known>>
     \/ mark' = 0 /\ known' = {}
  /\ UNCHANGED <<log, chainLock, stamp, kcEvents, rec, dropped, late, blackout, auditBudget>>

(* An event's key expires after an hour, many polls after the mark passed  *)
(* it.                                                                     *)
KeyExpires(e) ==
  /\ e \in known /\ mark >= stamp[e] /\ \A p \in Recorders : rec[p].at = "idle"
  /\ known' = known \ {e}
  /\ UNCHANGED <<log, chainLock, stamp, kcEvents, mark, answers, rec, dropped, late, blackout,
                 auditBudget>>

Poll(p) == ReadMark(p) \/ Claim(p) \/ StoreMark(p) \/ TakeLock(p) \/ Insert(p)

AuditNext ==
  \/ \E p \in Recorders : \/ Fetch(p) \/ Poll(p) \/ WriteFails(p) \/ WorkerCrashes(p)
                          \/ \E s \in Sessions : PageLoad(p, s)
  \/ \E e \in Events : Happens(e) \/ KeyExpires(e)
  \/ CacheAway \/ CacheBack

AuditSpec == AuditInit /\ [][AuditNext]_auditVars

-----------------------------------------------------------------------------
Tasks == [at : {"idle", "mark", "each", "wait", "insert"}, job : Sessions \cup Events \cup {NoJob},
          todo : SUBSET Events, high : Nat, top : Nat, head : Seq(Sessions \cup Events)]

AuditTypeOK ==
  /\ log \in Seq([what : Sessions \cup Events, prev : Seq(Sessions \cup Events)])
  /\ chainLock \in Recorders \cup {Nobody} /\ stamp \in [Events -> Nat \ {0}]
  /\ kcEvents \subseteq Events /\ mark \in Nat
  /\ known \subseteq Sessions \cup Events /\ answers \in BOOLEAN /\ rec \in [Recorders -> Tasks]
  /\ dropped \subseteq Sessions \cup Events /\ late \subseteq Events /\ blackout \in BOOLEAN

(* verify_chain finds no break: each row carries the hash of the one       *)
(* before it, whoever wrote the two.                                       *)
ChainVerifies ==
  \A i \in DOMAIN log :
    log[i].prev = IF i = 1 THEN <<>> ELSE HashOf(log[i - 1].prev, log[i - 1].what)

(* A login or an event is in the log once, unless the cache was away.      *)
RecordedOnce ==
  ~blackout => \A i, j \in DOMAIN log : log[i].what = log[j].what => i = j

TrailSound == ChainVerifies /\ RecordedOnce

Recorded(e) == \E i \in DOMAIN log : log[i].what = e

(* What the mark has passed is in the log or about to be, unless it was    *)
(* stored behind the mark, crowded off the page, or claimed by a worker    *)
(* that failed to write it.                                                *)
NothingMissed ==
  \A e \in kcEvents : stamp[e] <= mark /\ e \notin late \cup dropped =>
    Recorded(e) \/ \E p \in Recorders : rec[p].job = e

(* The trail verifies, says each thing once, and nothing the poll has      *)
(* passed is missing from it.                                              *)
TrailComplete == TrailSound /\ NothingMissed
=============================================================================
