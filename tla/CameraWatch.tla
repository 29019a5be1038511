------------------------------ MODULE CameraWatch ------------------------------
(***************************************************************************)
(* What the operators see of a camera: its live paths in the relay and the *)
(* history of its status, which the management API keeps, and its recorded *)
(* footage, which the NVR shows and tells of, with the state of the disk   *)
(* it lies on, and what searches over what was seen bring back: the rows   *)
(* the index chooses, and those of them the management API serves; the     *)
(* camera's second stream, and the picture of it that all who look share.  *)
(* No part changes another's state, so each is followed with the others    *)
(* left where they began.                                                  *)
(***************************************************************************)
EXTENDS Relay, Uptime, Playback, Gateway, StorageLevel, Search, SubTrack, Snapshot

CONSTANT Holdings   \* the recordings that searches are served from

VARIABLE watched
paneVars == <<relayVars, uptimeVars, playVars, footageVars, levelVars, gateVars, findVars, subVars, shotVars>>
watchVars == <<paneVars, watched>>
WatchedParts == {"paths", "history", "playback", "footage", "storage", "results", "served", "second", "picture"}
Over(w) == watched = w

(* The parts that stay take one of their initial states.                   *)
One(S) == {CHOOSE x \in S : TRUE}
AnyReel == One(Reels)
AnyCorpus == One(Corpora)
WatchInit ==
  /\ watched \in WatchedParts
  /\ relayBudget \in (IF Over("paths") THEN RelayBudgets ELSE One(RelayBudgets)) /\ RelayInit
  /\ uptimeBudget \in (IF Over("history") THEN UptimeBudgets ELSE One(UptimeBudgets)) /\ UptimeInit
  /\ playBudget \in (IF Over("playback") THEN PlayBudgets ELSE One(PlayBudgets)) /\ PlayInit
  /\ levelBudget \in (IF Over("storage") THEN LevelBudgets ELSE One(LevelBudgets)) /\ LevelInit
  /\ tape \in (CASE Over("footage") -> Reels [] Over("served") -> Holdings [] OTHER -> AnyReel) /\ FootageInit
  /\ corpus \in (IF Over("results") THEN Corpora ELSE AnyCorpus) /\ FindInit
  /\ GateInit
  /\ subBudget \in (IF Over("second") THEN SubBudgets ELSE One(SubBudgets))
  /\ menu \in (IF Over("second") THEN Menus ELSE One(Menus)) /\ SubInit
  /\ shotBudget \in (IF Over("picture") THEN ShotBudgets ELSE One(ShotBudgets)) /\ ShotInit
WatchPaths ==
  /\ Over("paths") /\ RelayNext
  /\ UNCHANGED <<uptimeVars, playVars, footageVars, levelVars, gateVars, findVars, subVars, shotVars, watched>>
WatchHistory ==
  /\ Over("history") /\ UptimeNext
  /\ UNCHANGED <<relayVars, playVars, footageVars, levelVars, gateVars, findVars, subVars, shotVars, watched>>
WatchPlayback ==
  /\ Over("playback") /\ PlayNext
  /\ UNCHANGED <<relayVars, uptimeVars, footageVars, levelVars, gateVars, findVars, subVars, shotVars, watched>>
WatchFootage ==
  /\ Over("footage") /\ FootageNext
  /\ UNCHANGED <<relayVars, uptimeVars, playVars, levelVars, gateVars, findVars, subVars, shotVars, watched>>
WatchStorage ==
  /\ Over("storage") /\ LevelNext
  /\ UNCHANGED <<relayVars, uptimeVars, playVars, footageVars, gateVars, findVars, subVars, shotVars, watched>>
WatchResults ==
  /\ Over("results") /\ FindNext
  /\ UNCHANGED <<relayVars, uptimeVars, playVars, footageVars, levelVars, gateVars, subVars, shotVars, watched>>
WatchServed ==
  /\ Over("served") /\ GateNext
  /\ UNCHANGED <<relayVars, uptimeVars, playVars, levelVars, findVars, subVars, shotVars, watched>>
WatchSecond ==
  /\ Over("second") /\ SubNext
  /\ UNCHANGED <<relayVars, uptimeVars, playVars, footageVars, levelVars, gateVars, findVars, shotVars, watched>>
WatchPicture ==
  /\ Over("picture") /\ ShotNext
  /\ UNCHANGED <<relayVars, uptimeVars, playVars, footageVars, levelVars, gateVars, findVars, subVars, watched>>
WatchNext ==
  \/ WatchPaths \/ WatchHistory \/ WatchPlayback \/ WatchFootage \/ WatchStorage
  \/ WatchResults \/ WatchServed \/ WatchSecond \/ WatchPicture

(* Requests, checks, the monitor and the reconcile loop go on, locks and   *)
(* backoffs run out, and MediaMTX is started again by its container; a     *)
(* request that builds an artifact ends; the NVR's retention, its disk     *)
(* monitor and its alerter run by their timers; probes end, requests make  *)
(* their calls, the loops come round; a decode is given up in time.        *)
WatchFairness ==
  /\ WF_relayVars(Over("paths") /\ Calls("request")) /\ WF_relayVars(Over("paths") /\ Checking)
  /\ WF_relayVars(Over("paths") /\ Monitoring) /\ WF_relayVars(Over("paths") /\ Syncing)
  /\ WF_relayVars(Over("paths") /\ LockExpires) /\ WF_relayVars(Over("paths") /\ MtxStarts)
  /\ WF_playVars(Over("playback") /\ EndClip)
  /\ \A p \in Players : WF_playVars(Over("playback") /\ Serving(p))
  /\ WF_levelVars(Over("storage") /\ Keeping) /\ WF_levelVars(Over("storage") /\ CheckDisk)
  /\ WF_levelVars(Over("storage") /\ Alarming)
  /\ WF_subVars(Over("second") /\ SyncPath) /\ WF_subVars(Over("second") /\ SyncRecorder)
  /\ WF_subVars(Over("second") /\ Answering) /\ \A h \in Callers : WF_subVars(Over("second") /\ Calling(h))
  /\ \A p \in Probers : WF_subVars(Over("second") /\ (ProbeMain(p) \/ ProbeOther(p)))
  /\ WF_shotVars(Over("picture") /\ TickOver) /\ \A v \in Viewers : WF_shotVars(Over("picture") /\ Asking(v))
WatchSpec == WatchInit /\ [][WatchNext]_watchVars /\ WatchFairness

-----------------------------------------------------------------------------
WatchTypeOK ==
  /\ watched \in WatchedParts /\ RelayTypeOK /\ UptimeTypeOK /\ PlayTypeOK /\ LevelTypeOK
  /\ SubTypeOK /\ ShotTypeOK

(* When nobody asks for anything any more, the relay comes to carry what   *)
(* the camera's row says and keeps to it, every request for an artifact or *)
(* a picture has been answered, the disk has its floor and the webhook the *)
(* state of it, and what the row says of the second stream is recorded.    *)
WatchSettles ==
  <>[](/\ Over("paths") => RelaySettled
       /\ Over("playback") => AllServed
       /\ Over("storage") => WellHeard /\ DiskKept
       /\ Over("second") => SubFollowed
       /\ Over("picture") => ShotSettled)

(* Playback: the slots are kept, nothing is built twice at a time, and     *)
(* nobody is shown an older picture than was asked for.  Live, one decode  *)
(* serves all, with the camera they asked for.                             *)
PlaybackTrue == SlotsKept /\ BuiltOnce /\ ServedCurrent /\ OneDecode /\ OwnPicture

(* What is told of a camera is so.  Its history: no unit is called up that *)
(* nobody saw up, and none is lost but to a recovery or the retention.     *)
(* Its second stream: the best there is, recorded as the operator says,    *)
(* kept through silence, and handed out as what it is.                     *)
CameraTold == UptimeTrue /\ ConfigKept /\ BestStored /\ OperatorWins /\ PlaysAsIs

(* What is computed of its past agrees: both reports of its uptime, and of *)
(* its footage the tracks, gaps, outages, clips and snapshots.             *)
PastTold == ReportsAgree /\ NoGapInvented /\ GapsAgree /\ ClipHolds /\ SnapshotTrue

(* What a search finds is there, in the order asked for and complete as    *)
(* far as it says so; what is served of it can be played back, and nothing *)
(* that could be is withheld.                                              *)
SearchTold ==
  /\ PageHonest /\ ShortPageComplete /\ RecentFirst /\ FacesNearest /\ FeedTrue /\ PlatesTold
  /\ ServedPlayable /\ NothingPlayableWithheld /\ ScopeKept
================================================================================
