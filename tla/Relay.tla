-------------------------------- MODULE Relay --------------------------------
(***************************************************************************)
(* The live paths of one camera: what the management API asks of MediaMTX  *)
(* (services/relay.py) and why (routers/cameras.py, services/health.py).   *)
(* MediaMTX keeps its paths in memory only.  Four parties change them side *)
(* by side: the handler of a request, the check that follows some of them, *)
(* the health monitor and the relay's reconcile loop; each works from the  *)
(* row it read before, and reads the camera's re-stamp flag again before   *)
(* every path it writes.  A camera with a broken clock cannot be watched   *)
(* until an ffmpeg hop stands between it and MediaMTX.                     *)
(***************************************************************************)
EXTENDS Naturals, Sequences

CONSTANTS
  Threshold,       \* hls_fail_threshold
  RelayBudgets     \* the camera, and how often each request and fault happens
ASSUME RelayAssumption ==
  /\ Threshold \in Nat \ {0}
  /\ \A b \in RelayBudgets : /\ {"anew", "sub"} \subseteq DOMAIN b
                            /\ b["anew"] \in 1 .. 2 /\ b["sub"] \in {"none", "resolved", "recorded"}

VARIABLES
  site,            \* the camera's row: enabled, which of its URLs, its sub track; or NoSite
  accepts,         \* the URLs the camera answers
  paths,           \* MediaMTX's paths: the URL it pulls, the URL its hop reads
  mtx,             \* MediaMTX runs
  redis,           \* the re-stamp flag, the failed probes, and what must lapse first
  mirror,          \* the flag's copy in the row
  party,           \* what each party has read and has still to do
  relayBudget
mtxVars == <<paths, mtx>>
relayVars == <<site, accepts, mtxVars, redis, mirror, party, relayBudget>>

Streams == {"main", "sub"}
Urls == 1 .. 2
NoUrl == 0
NoSite == [enabled |-> FALSE, url |-> NoUrl, sub |-> "none"]
NoPath == [pull |-> NoUrl, hop |-> NoUrl]
Parties == {"request", "check", "monitor", "sync"}
AtEase == [at |-> "idle", site |-> NoSite, todo |-> <<>>, shape |-> "unread"]
NothingNoted == [flag |-> FALSE, fails |-> 0, held |-> {}]

UseRelay(what) ==
  /\ relayBudget[what] > 0
  /\ relayBudget' = [relayBudget EXCEPT ![what] = @ - 1]

(* The camera's clock: MediaMTX cannot serve what it pulls from it itself. *)
Skewed == relayBudget.skewed

-----------------------------------------------------------------------------
(* What a camera may have in the relay.                                    *)

Registered(s) == s # NoSite
(* relay_tracks_for: the main, and a sub that is known, recorded or not.   *)
RecordingNames(s) == {t \in Streams : t = "main" \/ s.sub = "recorded"}
RelayNames(s) == {t \in Streams : t = "main" \/ s.sub # "none"}
Carried(s) == IF Registered(s) /\ s.enabled THEN RelayNames(s) ELSE {}

Present(t) == paths[t] # NoPath
Source(t) == IF paths[t].pull # NoUrl THEN paths[t].pull ELSE paths[t].hop
Connected(t) == mtx /\ Present(t) /\ Source(t) \in accepts
Watchable == Connected("main") /\ (Skewed => paths["main"].pull = NoUrl)

(* A call a party has still to make.                                       *)
Do(what, t, u) == [do |-> what, track |-> t, url |-> u]
Note(what) == Do(what, "main", NoUrl)
Cycle(u) == <<Do("remove", "main", u), Do("add", "main", u)>>
Ensure(u) == <<Do("add", "sub", u), Do("patch", "sub", u)>>
ForEach(what, names, u) ==
  (IF "main" \in names THEN <<Do(what, "main", u)>> ELSE <<>>)
  \o (IF "sub" \in names THEN <<Do(what, "sub", u)>> ELSE <<>>)
AddAll(names, u) == ForEach("add", names, u)
RemoveAll(names) == ForEach("remove", names, NoUrl)

RelayInit ==
  /\ relayBudget \in RelayBudgets
  /\ site = [enabled |-> TRUE, url |-> 1, sub |-> relayBudget.sub]
  /\ accepts = {1}
  /\ paths = [t \in Streams |-> IF t \in RelayNames(site) THEN [pull |-> 1, hop |-> NoUrl] ELSE NoPath]
  /\ mtx = TRUE /\ redis = NothingNoted /\ mirror = FALSE
  /\ party = [p \in Parties |-> AtEase]

-----------------------------------------------------------------------------
(* The calls of a party, one after the other.                              *)

Busy(p) == party[p].todo # <<>>
NextCall(p) == Head(party[p].todo)

(* _path_config awaits the flag before the call to MediaMTX is made.       *)
ReadFlag(p) ==
  /\ Busy(p) /\ NextCall(p).do \in {"add", "patch"} /\ party[p].shape = "unread"
  /\ party' = [party EXCEPT ![p].shape = IF redis.flag THEN "hop" ELSE "pull"]
  /\ UNCHANGED <<site, accepts, mtxVars, redis, mirror, relayBudget>>

Shaped(p) == [pull |-> IF party[p].shape = "pull" THEN NextCall(p).url ELSE NoUrl,
              hop |-> IF party[p].shape = "hop" THEN NextCall(p).url ELSE NoUrl]
(* PATCH merges: a direct pull leaves a hop that was there.                *)
Merged(old, new) == IF new.pull # NoUrl THEN [pull |-> new.pull, hop |-> old.hop] ELSE new
Refused(p) == ~mtx \/ (NextCall(p).do = "patch" /\ ~Present(NextCall(p).track))

AfterFlagKept(p, rest) == [party EXCEPT ![p].todo = rest]
After(p, rest) == [party EXCEPT ![p] = [at |-> @.at, site |-> @.site, todo |-> rest, shape |-> "unread"]]
CallRelay(p) ==
  LET c == NextCall(p) t == c.track IN
  /\ Busy(p) /\ c.do \in {"add", "patch", "remove"}
  /\ c.do = "remove" \/ party[p].shape # "unread"
  /\ ~Refused(p)
  /\ paths' = [paths EXCEPT ![t] =
       CASE c.do = "remove" -> NoPath
         [] c.do = "patch" -> Merged(@, Shaped(p))
         [] c.do = "add" -> IF Present(t) THEN @ ELSE Shaped(p)]
  /\ party' = After(p, Tail(party[p].todo))
  /\ UNCHANGED <<site, accepts, mtx, redis, mirror, relayBudget>>

(* A call that fails ends what its party was about; the reconcile loop     *)
(* goes on with the next path, and a re-stamp that failed takes its flag   *)
(* back (the copy in the row stays).                                       *)
Restamping(p) == \E i \in DOMAIN party[p].todo : party[p].todo[i].do = "unfail"
CallFails(p) ==
  /\ Busy(p) /\ NextCall(p).do \in {"add", "patch", "remove"}
  /\ NextCall(p).do = "remove" \/ party[p].shape # "unread"
  /\ Refused(p)
  /\ redis' = IF Restamping(p) THEN [redis EXCEPT !.flag = FALSE] ELSE redis
  /\ party' = After(p, IF p = "sync" THEN Tail(party[p].todo) ELSE <<>>)
  /\ UNCHANGED <<site, accepts, mtxVars, mirror, relayBudget>>

(* The calls to Redis and to the database.                                 *)
CallStore(p) ==
  LET c == NextCall(p) IN
  /\ Busy(p)
  /\ \/ c.do = "mirror" /\ mirror' = (mirror \/ Registered(site)) /\ UNCHANGED redis
     \/ c.do = "flag" /\ redis' = [redis EXCEPT !.flag = TRUE] /\ UNCHANGED mirror
     \/ c.do = "unfail" /\ redis' = [redis EXCEPT !.fails = 0] /\ UNCHANGED mirror
     \/ c.do = "forget" /\ redis' = [flag |-> FALSE, fails |-> 0, held |-> redis.held] /\ UNCHANGED mirror
  /\ party' = [party EXCEPT ![p].todo = Tail(@)]
  /\ UNCHANGED <<site, accepts, mtxVars, relayBudget>>

Calls(p) == ReadFlag(p) \/ CallRelay(p) \/ CallFails(p) \/ CallStore(p)

-----------------------------------------------------------------------------
(* Requests, one after the other: each commits its row, then calls.        *)

(* What a request calls once its row is committed.                         *)
CallsOf(kind, s) ==
  CASE kind = "create" -> AddAll({"main"}, s.url)
    [] kind = "disable" -> <<Do("remove", "main", NoUrl), Note("forget")>>
    [] kind = "enable" -> AddAll({"main"}, s.url)
    [] kind = "repoint" -> <<Do("patch", "main", s.url)>>
         \o (IF s.sub = "recorded" THEN <<Do("patch", "sub", s.url)>> ELSE <<>>)
    [] kind = "delete" -> RemoveAll(Streams) \o <<Note("forget")>>
    [] kind = "reconnect" -> Cycle(s.url)
    [] kind = "record" -> Ensure(s.url)
    [] kind = "unrecord" -> RemoveAll({"sub"})
    [] kind = "find" -> <<>>

(* The row a request leaves, where it may be made.                         *)
RowAfter(kind) ==
  CASE kind = "create" -> [enabled |-> TRUE, url |-> relayBudget.anew, sub |-> "none"]
    [] kind = "disable" -> [site EXCEPT !.enabled = FALSE]
    [] kind = "enable" -> [site EXCEPT !.enabled = TRUE]
    [] kind = "repoint" -> [site EXCEPT !.url = 2]
    [] kind = "delete" -> NoSite
    [] kind = "reconnect" -> site
    [] kind = "record" -> [site EXCEPT !.sub = "recorded"]
    [] kind = "unrecord" -> [site EXCEPT !.sub = "resolved"]
    [] kind = "find" -> [site EXCEPT !.sub = "resolved"]
Allowed(kind) ==
  CASE kind = "create" -> ~Registered(site)
    [] kind \in {"disable", "reconnect"} -> Registered(site) /\ site.enabled
    [] kind = "enable" -> Registered(site) /\ ~site.enabled
    [] kind = "repoint" -> Registered(site) /\ site.url = 1
    [] kind = "delete" -> Registered(site)
    [] kind = "record" -> site.sub = "resolved"
    [] kind = "unrecord" -> site.sub = "recorded"
    [] kind = "find" -> Registered(site) /\ site.sub = "none"

(* The check that follows begins with the calls still to come.  Its first  *)
(* look is the only one modelled; later ones are the monitor's over again. *)
Follows(kind) == relayBudget.quick /\ kind \in {"create", "enable", "repoint", "reconnect"}
Request(kind) ==
  /\ UseRelay(kind) /\ ~Busy("request") /\ Allowed(kind)
  /\ site' = RowAfter(kind)
  /\ mirror' = (mirror /\ kind # "delete")
  /\ LET calls == IF kind = "repoint" /\ ~site.enabled THEN <<>> ELSE CallsOf(kind, site') IN
     party' = [party EXCEPT !["request"].todo = calls,
       !["check"] = IF Follows(kind) /\ site'.enabled /\ @ = AtEase THEN [@ EXCEPT !.at = "row"] ELSE @]
  /\ UNCHANGED <<accepts, mtxVars, redis>>

-----------------------------------------------------------------------------
(* The check of a camera, by the monitor or after a request.               *)

(* _check_playable, and what a camera that is down calls for.              *)
Reconnect(u) == Cycle(u)
Probed(p) ==
  IF Watchable THEN redis' = [redis EXCEPT !.fails = 0] /\ party' = [party EXCEPT ![p] = AtEase]
  ELSE IF redis.flag THEN UNCHANGED redis /\ party' = [party EXCEPT ![p] = AtEase]
  ELSE LET n == IF redis.fails < Threshold THEN redis.fails + 1 ELSE redis.fails
           wins == n >= Threshold /\ "restamp" \notin redis.held IN
       /\ redis' = [flag |-> redis.flag, fails |-> n,
                    held |-> IF wins THEN redis.held \cup {"restamp"} ELSE redis.held]
       /\ party' = [party EXCEPT ![p] = [AtEase EXCEPT !.todo =
            IF wins THEN <<Note("mirror"), Note("flag")>> \o Cycle(party[p].site.url) \o <<Note("unfail")>>
            ELSE <<>>]]
Down(p) ==
  LET wins == "reconnect" \notin redis.held IN
  /\ redis' = IF wins THEN [redis EXCEPT !.held = @ \cup {"reconnect"}] ELSE redis
  /\ party' = [party EXCEPT ![p] = [AtEase EXCEPT !.todo =
       IF ~wins THEN <<>>
       ELSE IF mtx /\ Present("main") THEN Reconnect(party[p].site.url)
       ELSE AddAll({"main"}, party[p].site.url)]]
Check(p) ==
  /\ party[p].at = "check" /\ ~Busy(p)
  /\ IF Connected("main") THEN Probed(p) ELSE Down(p)
  /\ UNCHANGED <<site, accepts, mtxVars, mirror, relayBudget>>

(* check_camera_soon reads the row when its delay is over.                 *)
ReadRow ==
  /\ party["check"].at = "row"
  /\ party' = [party EXCEPT !["check"] =
       IF site.enabled THEN [at |-> "check", site |-> site, todo |-> @.todo, shape |-> @.shape] ELSE AtEase]
  /\ UNCHANGED <<site, accepts, mtxVars, redis, mirror, relayBudget>>

(* _poll_all: the rows, then the paths nobody's row accounts for, then the *)
(* check of an enabled camera.                                             *)
Poll ==
  /\ party["monitor"] = AtEase
  /\ party' = [party EXCEPT !["monitor"] = [at |-> "sweep", site |-> site, todo |-> <<>>, shape |-> "unread"]]
  /\ UNCHANGED <<site, accepts, mtxVars, redis, mirror, relayBudget>>
KnownNamesRecorded(s) == IF Registered(s) THEN RecordingNames(s) ELSE {}
KnownNames(s) == IF Registered(s) THEN RelayNames(s) ELSE {}
Sweep ==
  LET s == party["monitor"].site
      orphans == {t \in Streams : mtx /\ Present(t)} \ KnownNames(s) IN
  /\ party["monitor"].at = "sweep"
  /\ party' = [party EXCEPT !["monitor"] =
       [at |-> IF s.enabled THEN "check" ELSE "idle", site |-> s, todo |-> RemoveAll(orphans), shape |-> @.shape]]
  /\ UNCHANGED <<site, accepts, mtxVars, redis, mirror, relayBudget>>
EndPoll ==
  /\ party["monitor"].at = "idle" /\ ~Busy("monitor") /\ party["monitor"] # AtEase
  /\ party' = [party EXCEPT !["monitor"] = AtEase]
  /\ UNCHANGED <<site, accepts, mtxVars, redis, mirror, relayBudget>>

-----------------------------------------------------------------------------
(* reconcile_loop: presence only.                                          *)

ReadSites ==
  /\ party["sync"] = AtEase /\ mtx
  /\ party' = [party EXCEPT !["sync"] = [at |-> "compare", site |-> site, todo |-> <<>>, shape |-> "unread"]]
  /\ UNCHANGED <<site, accepts, mtxVars, redis, mirror, relayBudget>>
Absent(s) == IF Registered(s) THEN Streams \ Carried(s) ELSE {}
ComparePaths ==
  LET s == party["sync"].site
      current == {t \in Streams : mtx /\ Present(t)} IN
  /\ party["sync"].at = "compare"
  /\ party' = [party EXCEPT !["sync"] = [AtEase EXCEPT !.todo =
       AddAll(Carried(s) \ current, s.url) \o RemoveAll(Absent(s) \cap current)]]
  /\ UNCHANGED <<site, accepts, mtxVars, redis, mirror, relayBudget>>

-----------------------------------------------------------------------------
(* What else happens.                                                      *)

(* The lock's TTL, and the end of the backoff.                             *)
LockExpires ==
  /\ \E l \in redis.held : redis' = [redis EXCEPT !.held = @ \ {l}]
  /\ UNCHANGED <<site, accepts, mtxVars, mirror, party, relayBudget>>

(* Somebody changes the camera's password or profile; some cameras go on   *)
(* answering what they answered before.                                    *)
CameraMoves ==
  /\ UseRelay("move") /\ accepts' \in {{2}, Urls}
  /\ UNCHANGED <<site, mtxVars, redis, mirror, party>>

MtxStops ==
  /\ UseRelay("stop") /\ mtx /\ mtx' = FALSE /\ paths' = [t \in Streams |-> NoPath]
  /\ UNCHANGED <<site, accepts, redis, mirror, party>>
MtxStarts ==
  /\ ~mtx /\ mtx' = TRUE
  /\ UNCHANGED <<site, accepts, paths, redis, mirror, party, relayBudget>>

(* lifespan: the flags come back from the rows, then every enabled camera  *)
(* is registered; only then do the loops start.                            *)
ApiRestart ==
  /\ UseRelay("restart")
  /\ redis' = [redis EXCEPT !.flag = @ \/ mirror]
  /\ party' = [[p \in Parties |-> AtEase] EXCEPT !["sync"].todo = AddAll(Carried(site), site.url)]
  /\ UNCHANGED <<site, accepts, mtxVars, mirror>>
RedisForgets ==
  /\ UseRelay("flush") /\ redis' = NothingNoted
  /\ UNCHANGED <<site, accepts, mtxVars, mirror, party>>

RequestKinds == {"create", "disable", "enable", "repoint", "delete", "reconnect", "record", "unrecord", "find"}
Checking == ReadRow \/ Check("check") \/ Calls("check")
Monitoring == Poll \/ Sweep \/ Check("monitor") \/ Calls("monitor") \/ EndPoll
Syncing == ReadSites \/ ComparePaths \/ Calls("sync")
RelayNext ==
  \/ \E kind \in RequestKinds : Request(kind)
  \/ Calls("request") \/ Checking \/ Monitoring \/ Syncing
  \/ LockExpires \/ CameraMoves \/ MtxStops \/ MtxStarts \/ ApiRestart \/ RedisForgets

-----------------------------------------------------------------------------
(* Types; and the flag a party has read is the one of the call it is at:   *)
(* every path is given the shape that was right when that path was asked   *)
(* for.                                                                    *)
RelayTypeOK ==
  /\ site \in [enabled : BOOLEAN, url : Urls, sub : {"none", "resolved", "recorded"}] \cup {NoSite}
  /\ accepts \subseteq Urls /\ accepts # {}
  /\ paths \in [Streams -> [pull : Urls \cup {NoUrl}, hop : Urls \cup {NoUrl}]]
  /\ redis \in [flag : BOOLEAN, fails : 0 .. Threshold, held : SUBSET {"reconnect", "restamp"}]
  /\ \A p \in Parties : party[p].shape # "unread" => Busy(p) /\ NextCall(p).do \in {"add", "patch"}

(* Once nobody asks for anything, the relay carries what the row says: no  *)
(* path of a camera or sub track that is gone or switched off, and no path *)
(* of the registry swept away by somebody with an older view of it; and a  *)
(* camera that answers at its row's URL is connected, whatever an older    *)
(* view put back meanwhile, and can be watched, or its flag says that the  *)
(* hop is thought to be there (health.py:113).                             *)
RelaySettled ==
  /\ \A t \in Streams \ Carried(site) : ~Present(t)
  /\ site.enabled /\ site.url \in accepts =>
       /\ Connected("main") /\ \A t \in Carried(site) : Present(t)
       /\ Watchable \/ redis.flag
==============================================================================
