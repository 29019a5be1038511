------------------------------- MODULE VideoPath -------------------------------
(***************************************************************************)
(* The way of the pictures, side by side: the ring that hands frames to    *)
(* consumers, the motion service's samples, what of a picture the detector *)
(* is shown, the two paths of a frame in the analytics service - tracks    *)
(* and observations, activities - and what becomes of the events.  They run in threads and processes of their own  *)
(* and share no state but the ring, whose promise the others rely on, and  *)
(* queues they only put into; so one of them moves in a behaviour and the  *)
(* others stay where they began.                                           *)
(***************************************************************************)
EXTENDS FrameRing, Motion, Gating, Tracking, Activities, Events

VARIABLE stage

Stages == {"ring", "motion", "seeing", "tracking", "activities", "events"}
At(s) == stage = s

pathVars == <<vars, motionVars, gateVars, trackingVars, activityVars, reportVars, stage>>

(* A part that stays takes one of its initial states.                      *)
PathInit ==
  /\ stage \in Stages /\ Init /\ MotionInit /\ GatingInit /\ TrackingInit /\ ActivityInit /\ EventInit
  /\ ~At("motion") => motionBudget = CHOOSE b \in MotionBudgets : TRUE
  /\ ~At("seeing") => gateBudget = CHOOSE b \in GateBudgets : TRUE
  /\ ~At("tracking") => trackBudget = CHOOSE b \in TrackBudgets : TRUE
  /\ ~At("activities") => activityBudget = CHOOSE b \in ActivityBudgets : TRUE
  /\ ~At("events") => eventBudget = CHOOSE b \in EventBudgets : TRUE

Rings ==
  At("ring") /\ Next /\ UNCHANGED <<motionVars, gateVars, trackingVars, activityVars, reportVars, stage>>
Senses ==
  At("motion") /\ MotionNext /\ UNCHANGED <<vars, gateVars, trackingVars, activityVars, reportVars, stage>>
Sees ==
  At("seeing") /\ GatingNext /\ UNCHANGED <<vars, motionVars, trackingVars, activityVars, reportVars, stage>>
Tracks ==
  At("tracking") /\ TrackingNext /\ UNCHANGED <<vars, motionVars, gateVars, activityVars, reportVars, stage>>
Watches ==
  At("activities") /\ ActivityNext /\ UNCHANGED <<vars, motionVars, gateVars, trackingVars, reportVars, stage>>
Reports ==
  At("events") /\ EventNext /\ UNCHANGED <<vars, motionVars, gateVars, trackingVars, activityVars, stage>>

PathNext == Rings \/ Senses \/ Sees \/ Tracks \/ Watches \/ Reports

(* The capture thread runs whatever it started; cameras and consumers owe  *)
(* nothing.                                                                *)
RingFairness == WF_vars(At("ring") /\ WriterStep)

(* The threads of the motion service run; the subscription is asked for    *)
(* again and again; and every frame, every notice and every idle second    *)
(* runs the test for a cooldown that is over, however often the camera was *)
(* interrupted in between.                                                 *)
MotionFairness ==
  /\ \A e \in Entries : WF_motionVars(At("motion") /\ MotionThread(e))
  /\ WF_motionVars(At("motion") /\ Resubscribe)
  /\ SF_motionVars(At("motion") /\ \E e \in Entries : GoStale(e) \/ Rearm(e))

(* The sender runs, the API ends what it has begun, and the sweep of the   *)
(* expired comes round.                                                    *)
EventFairness ==
  /\ WF_reportVars(At("events") /\ Sending)
  /\ WF_reportVars(At("events") /\ \E rows \in abandoned : RecordAbandoned(rows))
  /\ WF_reportVars(At("events") /\ PurgeExpired)

PathSpec ==
  /\ PathInit /\ [][PathNext]_pathVars
  /\ RingFairness /\ MotionFairness /\ EventFairness

-----------------------------------------------------------------------------
PathTypeOK ==
  stage \in Stages /\ TypeOK /\ MotionTypeOK /\ GatingTypeOK /\ TrackingTypeOK /\ ActivityTypeOK /\ EventTypeOK

(* All that comes is looked at and told as one; no page of the feed hides *)
(* a row, and its graph adds up to it.                                     *)
SightsTold == EverythingLooked /\ OneBoxEach /\ PagesComplete

(* What the activities tell of is what was there, and it is told; what     *)
(* they remember goes with the thing it is about.                          *)
ActivitiesTold == EventsJustified /\ StaysReported /\ MemoryReleased

(* Incidents are what the samples showed, whatever is reset meanwhile.     *)
MotionTold == IncidentsMatch /\ WindowFresh

(* Looks of one track lie apart, and what is kept for a track goes with    *)
(* it, but for the tracks a thread held when they went.  Nothing that was  *)
(* observed or decided disappears uncounted on its way out, and what waits *)
(* keeps its order.                                                        *)
LossesOwned == LooksApart /\ AnchorsPruned /\ LossesCounted /\ EventsAccounted

(* The capture thread always gets back to its camera, however slow its     *)
(* readers are; and when triggers and faults end, a triggered camera       *)
(* re-arms, one whose notices have stopped is shown as CONNECTING, and     *)
(* every event has been answered for.                                      *)
PathMoves ==
  /\ []<>(At("ring") => wpc = "idle")
  /\ <>[]((At("motion") => Settled) /\ (At("events") => EventsSettled))
================================================================================
