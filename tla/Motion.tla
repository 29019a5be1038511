-------------------------------- MODULE Motion --------------------------------
(***************************************************************************)
(* The motion service (motion/detector): one camera, added and removed, in *)
(* either of the service's modes.  In capture mode each registration has a *)
(* thread of its own that reads the stream; in broker mode one subscriber  *)
(* thread handles the notices of every camera.  A registration is an       *)
(* entry, since its CameraState outlives it in the hands of threads.       *)
(***************************************************************************)
EXTENDS Naturals, Sequences, FiniteSets

CONSTANTS
  MaxEntries,      \* how often the camera is added
  MaxIncidents,    \* nothing moves once it has triggered so often
  Widths,          \* lengths of the confirmation window; the least is the first
  MotionBudgets    \* how often each disturbance happens, and the mode
Entries == 1 .. MaxEntries
MotionBudgetTypes ==
  [mode : {"capture", "broker"}, remove : Nat, reset : Nat, break : Nat, pause : Nat, outage : Nat, resize : Nat]

ASSUME MotionAssumption ==
  /\ MaxEntries \in Nat \ {0} /\ MaxIncidents \in Nat
  /\ Widths \subseteq Nat \ {0, 1} /\ Widths # {}
  /\ MotionBudgets \subseteq MotionBudgetTypes

VARIABLES
  camera,          \* the entry in the registry, or 0
  added,           \* entries made so far
  stopped,         \* entries whose stop event is set
  state,           \* CameraState.state
  window,          \* motion_window: which samples showed motion
  width,           \* its maxlen
  primed,          \* capture: the loop has a prev_frame
  openEvent,       \* the incident of the entry, or 0
  thread,          \* where the thread that samples an entry is
  copy,            \* _tune_window: the window it is about to store
  asked,           \* the entry a manual reset looked up, or 0
  heard,           \* how long ago _last_ts is
  subscribed,      \* the subscription to the broker's notices stands
  incidents,       \* the log: the entry of each incident
  ended,           \* incidents with ended_at
  motionBudget,
  fresh, tainted, crossed   \* history, see the properties
cameraVars == <<camera, added, stopped, state, primed>>
windowVars == <<window, width, copy, fresh, tainted>>
eventVars == <<openEvent, incidents, ended, crossed>>
inputVars == <<heard, subscribed>>
motionVars == <<cameraVars, windowVars, eventVars, inputVars, thread, asked, motionBudget>>

Capture == motionBudget.mode = "capture"
Broker == motionBudget.mode = "broker"
UseMotion(what) ==
  /\ motionBudget[what] > 0
  /\ motionBudget' = [motionBudget EXCEPT ![what] = @ - 1]

Least(S) == CHOOSE m \in S : \A n \in S : m <= n
FirstWidth == Least(Widths)

MotionInit ==
  /\ camera = 0 /\ added = 0 /\ stopped = {} /\ asked = 0
  /\ state = [e \in Entries |-> "CONNECTING"] /\ primed = [e \in Entries |-> FALSE]
  /\ window = [e \in Entries |-> <<>>] /\ width = [e \in Entries |-> FirstWidth] /\ copy = <<>>
  /\ fresh = [e \in Entries |-> 0] /\ tainted = {} /\ crossed = {}
  /\ openEvent = [e \in Entries |-> 0] /\ incidents = <<>> /\ ended = {}
  /\ thread = [e \in Entries |-> "idle"]
  /\ heard = "never" /\ subscribed = TRUE
  /\ motionBudget \in MotionBudgets

-----------------------------------------------------------------------------
(* Who may work on an entry.                                               *)

(* In broker mode one thread serves every entry.                           *)
AtRest(e) ==
  IF Capture THEN e <= added /\ thread[e] = "idle"
             ELSE \A f \in Entries : thread[f] = "idle"
CaptureLoop(e) == Capture /\ AtRest(e) /\ e \notin stopped
Subscribed(e) == Broker /\ AtRest(e) /\ subscribed /\ camera = e

-----------------------------------------------------------------------------
(* The window.                                                             *)

Latest(s, n) == IF Len(s) <= n THEN s ELSE SubSeq(s, Len(s) - n + 1, Len(s))
Samples == IF Len(incidents) < MaxIncidents THEN BOOLEAN ELSE {FALSE}
Moving(s) == Cardinality({i \in DOMAIN s : s[i]})

(* confirm_ratio is 0.6.                                                   *)
Confirms(s, n) == Len(s) = n /\ 10 * Moving(s) >= 6 * n

(* motion_window.clear(): what was seen before is not held against the     *)
(* camera.                                                                 *)
ClearedNot(s) == s
Cleared(s) == <<>>
Forget(e) ==
  /\ window' = [window EXCEPT ![e] = Cleared(@)]
  /\ fresh' = [fresh EXCEPT ![e] = 0]
  /\ tainted' = tainted \ {e}
  /\ UNCHANGED <<width, copy>>

(* A sample joins the window and may confirm motion; the incident is       *)
(* recorded after the lock is released.                                    *)
ApplyFeature(e, motion, from) ==
  LET w == Latest(Append(window[e], motion), width[e])
      triggers == Confirms(w, width[e]) /\ from = "MONITORING" IN
  /\ window' = [window EXCEPT ![e] = w]
  /\ fresh' = [fresh EXCEPT ![e] = IF @ < width[e] THEN @ + 1 ELSE @]
  /\ state' = [state EXCEPT ![e] = IF triggers THEN "TRIGGERED" ELSE from]
  /\ thread' = [thread EXCEPT ![e] = IF triggers THEN "trigger" ELSE "idle"]
  /\ UNCHANGED <<width, copy, tainted>>

(* record_trigger, and the entry gets its incident under its own lock.     *)
RecordTrigger(e) ==
  LET i == Len(incidents) + 1 IN
  /\ thread[e] = "trigger"
  /\ incidents' = Append(incidents, e)
  /\ openEvent' = [openEvent EXCEPT ![e] = i]
  /\ crossed' = IF state[e] = "TRIGGERED" THEN crossed ELSE crossed \cup {i}
  /\ thread' = [thread EXCEPT ![e] = "idle"]
  /\ UNCHANGED <<cameraVars, windowVars, ended, inputVars, asked, motionBudget>>

(* The entry leaves TRIGGERED or MONITORING: its incident is taken off it  *)
(* under the lock and closed after; nobody else has it by then.            *)
Closed(e) == ended \cup ({openEvent[e]} \ {0})
Leave(e, to) ==
  /\ state' = [state EXCEPT ![e] = to]
  /\ openEvent' = [openEvent EXCEPT ![e] = 0]
  /\ Forget(e)
  /\ UNCHANGED <<incidents, crossed>>

-----------------------------------------------------------------------------
(* The API.                                                                *)

AddCamera ==
  /\ camera = 0 /\ added < MaxEntries
  /\ camera' = added + 1 /\ added' = added + 1
  /\ UNCHANGED <<stopped, state, primed, windowVars, eventVars, inputVars, thread, asked, motionBudget>>

(* The join is over after ten seconds, whatever the thread does.           *)
RemoveCamera ==
  /\ camera # 0 /\ UseMotion("remove")
  /\ camera' = 0 /\ stopped' = stopped \cup {camera}
  /\ UNCHANGED <<added, state, primed, windowVars, eventVars, inputVars, thread, asked>>

AskReset ==
  /\ asked = 0 /\ camera # 0 /\ UseMotion("reset")
  /\ asked' = camera
  /\ UNCHANGED <<cameraVars, windowVars, eventVars, inputVars, thread>>

(* What _tune_window copied before is stored after, cleared or not.        *)
ResetCamera ==
  /\ asked # 0 /\ asked' = 0
  /\ IF state[asked] = "TRIGGERED"
     THEN Leave(asked, "MONITORING") /\ ended' = Closed(asked)
     ELSE UNCHANGED <<state, windowVars, eventVars>>
  /\ UNCHANGED <<camera, added, stopped, primed, inputVars, thread, motionBudget>>

-----------------------------------------------------------------------------
(* Capture mode: capture_loop of one entry.                                *)

(* A frame: the stream is up; a due sample compares it with the last.      *)
CaptureFrame(e) ==
  LET from == IF state[e] = "CONNECTING" THEN "MONITORING" ELSE state[e] IN
  /\ CaptureLoop(e)
  /\ IF primed[e] THEN /\ \E m \in Samples : ApplyFeature(e, m, from)
                       /\ UNCHANGED primed
                  ELSE /\ primed' = [primed EXCEPT ![e] = TRUE]
                       /\ state' = [state EXCEPT ![e] = from]
                       /\ UNCHANGED <<windowVars, thread>>
  /\ UNCHANGED <<camera, added, stopped, eventVars, inputVars, asked, motionBudget>>

(* _handle_reconnect.                                                      *)
LoseStream(e) ==
  /\ CaptureLoop(e) /\ UseMotion("break")
  /\ primed' = [primed EXCEPT ![e] = FALSE]
  /\ IF state[e] # "CONNECTING"
     THEN Leave(e, "CONNECTING") /\ ended' = Closed(e)
     ELSE UNCHANGED <<state, windowVars, eventVars>>
  /\ UNCHANGED <<camera, added, stopped, inputVars, thread, asked>>

EndCapture(e) ==
  /\ Capture /\ AtRest(e) /\ e \in stopped
  /\ thread' = [thread EXCEPT ![e] = "over"]
  /\ openEvent' = [openEvent EXCEPT ![e] = 0] /\ ended' = Closed(e)
  /\ UNCHANGED <<cameraVars, windowVars, incidents, crossed, inputVars, asked, motionBudget>>

(* _maybe_rearm once the cooldown is over; in broker mode the subscriber   *)
(* does it for every camera after each notice and each idle second.        *)
Rearms(e) == CaptureLoop(e) \/ Subscribed(e)
Rearm(e) ==
  /\ Rearms(e) /\ state[e] = "TRIGGERED"
  /\ Leave(e, "MONITORING") /\ ended' = Closed(e)
  /\ UNCHANGED <<camera, added, stopped, primed, inputVars, thread, asked, motionBudget>>

-----------------------------------------------------------------------------
(* Broker mode: the subscriber thread.                                     *)

(* A notice after the broker reconnected: its difference spans the outage. *)
BaselineReset(e) ==
  /\ Subscribed(e) /\ UseMotion("break")
  /\ Forget(e)
  /\ UNCHANGED <<cameraVars, eventVars, inputVars, thread, asked>>

(* _handle and _tune_window.  The window is resized when the cadence has   *)
(* changed: copied here, stored in the next step, both without the lock.  A *)
(* notice that was long under way carries an old time.                     *)
ReceiveNotice(e) ==
  /\ Subscribed(e)
  /\ \/ /\ \/ heard' = "lately" /\ UNCHANGED motionBudget
           \/ heard' = "long ago" /\ UseMotion("pause")
        /\ thread' = [thread EXCEPT ![e] = "sized"]
        /\ UNCHANGED copy
     \/ /\ heard' = "lately" /\ UseMotion("resize")
        /\ thread' = [thread EXCEPT ![e] = "copied"] /\ copy' = window[e]
  /\ UNCHANGED <<cameraVars, window, width, fresh, tainted, eventVars, subscribed, asked>>

StoreWindow(e) ==
  /\ thread[e] = "copied"
  /\ \E n \in Widths \ {width[e]} :
       /\ window' = [window EXCEPT ![e] = Latest(copy, n)]
       /\ width' = [width EXCEPT ![e] = n]
       /\ tainted' = IF Len(window'[e]) > Len(window[e]) THEN tainted \cup {e} ELSE tainted
  /\ copy' = <<>>
  /\ thread' = [thread EXCEPT ![e] = "sized"]
  /\ UNCHANGED <<cameraVars, fresh, eventVars, inputVars, asked, motionBudget>>

NoticeSample(e) ==
  /\ Broker /\ thread[e] = "sized"
  /\ \E m \in Samples :
       ApplyFeature(e, m, IF state[e] = "CONNECTING" THEN "MONITORING" ELSE state[e])
  /\ UNCHANGED <<camera, added, stopped, primed, eventVars, inputVars, asked, motionBudget>>

(* _rearm_all: the notices have stopped for longer than a stream may.      *)
GoStale(e) ==
  /\ Subscribed(e) /\ heard = "long ago" /\ state[e] # "CONNECTING"
  /\ Leave(e, "CONNECTING") /\ ended' = Closed(e)
  /\ UNCHANGED <<camera, added, stopped, primed, inputVars, thread, asked, motionBudget>>

(* Nothing is announced for a while, or nothing arrives.                   *)
NoticesStop ==
  /\ Broker /\ heard = "lately" /\ UseMotion("pause")
  /\ heard' = "long ago"
  /\ UNCHANGED <<cameraVars, windowVars, eventVars, subscribed, thread, asked>>

(* The subscription breaks; until it stands again nobody re-arms or ages   *)
(* anything.                                                               *)
LoseSubscription ==
  /\ Broker /\ subscribed /\ (\A e \in Entries : thread[e] = "idle") /\ UseMotion("outage")
  /\ subscribed' = FALSE
  /\ tainted' = tainted \cup {e \in Entries : window[e] # <<>>}
  /\ fresh' = [e \in Entries |-> 0]
  /\ UNCHANGED <<cameraVars, window, width, copy, eventVars, heard, thread, asked>>

Resubscribe ==
  /\ ~subscribed /\ subscribed' = TRUE
  /\ UNCHANGED <<cameraVars, windowVars, eventVars, heard, thread, asked, motionBudget>>

-----------------------------------------------------------------------------
MotionThread(e) ==
  RecordTrigger(e) \/ EndCapture(e) \/ Rearm(e) \/ StoreWindow(e) \/ NoticeSample(e) \/ GoStale(e)
MotionNext ==
  \/ AddCamera \/ RemoveCamera \/ AskReset \/ ResetCamera
  \/ NoticesStop \/ LoseSubscription \/ Resubscribe
  \/ \E e \in Entries : \/ MotionThread(e) \/ CaptureFrame(e) \/ LoseStream(e)
                        \/ BaselineReset(e) \/ ReceiveNotice(e)

-----------------------------------------------------------------------------
MotionTypeOK ==
  /\ added \in 0 .. MaxEntries /\ camera \in 0 .. added /\ asked \in 0 .. added
  /\ stopped \subseteq 1 .. added /\ tainted \subseteq Entries
  /\ state \in [Entries -> {"CONNECTING", "MONITORING", "TRIGGERED"}]
  /\ primed \in [Entries -> BOOLEAN] /\ width \in [Entries -> Widths]
  /\ window \in [Entries -> Seq(BOOLEAN)] /\ fresh \in [Entries -> Nat]
  /\ \A e \in Entries : Len(window[e]) <= width[e]
  /\ copy \in Seq(BOOLEAN)
  /\ thread \in [Entries -> {"idle", "copied", "sized", "trigger", "over"}]
  /\ incidents \in Seq(Entries)
  /\ openEvent \in [Entries -> 0 .. Len(incidents)]
  /\ ended \cup crossed \subseteq DOMAIN incidents
  /\ heard \in {"never", "lately", "long ago"} /\ subscribed \in BOOLEAN
  /\ motionBudget \in MotionBudgetTypes

(* An incident that is open is the one of a camera that is TRIGGERED, and  *)
(* a triggered camera has one, or is about to.  Two openings are known: a  *)
(* reset between a trigger and the record of it leaves the incident with a *)
(* camera that has gone on, and in broker mode nobody closes the incident  *)
(* of a camera that is removed (capture_loop closes it "so events never    *)
(* dangle after removal").                                                 *)
IncidentsMatch ==
  /\ \A i \in (DOMAIN incidents) \ (ended \cup crossed) :
       LET e == incidents[i] IN
       /\ openEvent[e] = i
       /\ camera = e => state[e] = "TRIGGERED"
       /\ camera # e => Broker \/ thread[e] # "over"
  /\ \A e \in Entries : state[e] = "TRIGGERED" /\ thread[e] # "over" =>
       thread[e] = "trigger" \/ openEvent[e] \in (DOMAIN incidents) \ ended

(* The window holds no sample of before the last lost stream, reset        *)
(* baseline, silence, reset or cooldown, so that an interruption cannot    *)
(* confirm itself into an alert - unless a resize put back what a reset    *)
(* had cleared, or the samples stem from before a lost subscription.       *)
WindowFresh == \A e \in Entries \ tainted : Len(window[e]) <= fresh[e]

(* When triggers and faults end, a triggered camera re-arms and one whose  *)
(* notices have stopped is shown as CONNECTING.                            *)
Settled ==
  camera # 0 => /\ state[camera] # "TRIGGERED"
                /\ heard = "long ago" => state[camera] = "CONNECTING"
===============================================================================
