------------------------------- MODULE Startup -------------------------------
(***************************************************************************)
(* How one live channel or VOD comes up (startWorker, startVodWorker and   *)
(* waitForHLS in internal/video/orchestrator, Start and Wait in            *)
(* internal/video/worker).  The configured backends are tried in their     *)
(* order: each spawns its processes, and its playlist on the media server  *)
(* is probed until it has answered for a while or the time is up.          *)
(*                                                                         *)
(* A streamlink worker is two processes with a pipe between them in one    *)
(* process group, a direct_hls worker is an ffmpeg alone.  Relay has the   *)
(* sessions around this; here are the processes and the probes.            *)
(***************************************************************************)
EXTENDS Naturals, SequencesExt

CONSTANTS
  Configured,  (* the lists that STREAM_WORKER_BACKENDS may hold             *)
  Listings,    (* the lists of renditions that usher may answer              *)
  Qualities,   (* the qualities asked for, each a list of names              *)
  Full, Fast,  (* probes that fit in HLSProbeTimeout and the fast timeout    *)
  Window       (* probes a stable playlist has to answer after the first     *)

VARIABLES
  kind,      (* "stable" and "fast" are live latency modes                   *)
  backends,  (* what is left of the list                                     *)
  usable,    (* the selected rendition has a URL that the proxy allows       *)
  at,        (* where the start is                                           *)
  sl, ff,    (* the two processes of the worker                              *)
  writers,   (* who holds the writing end of the pipe between them           *)
  served,    (* what the media server has under the channel's path           *)
  left,      (* probes left                                                  *)
  since      (* probes since stableSince; 0 when that is zero                *)

vars == <<kind, backends, usable, at, sl, ff, writers, served, left, since>>

Known == {"streamlink", "direct_hls"}

TypeOK ==
  /\ kind \in {"stable", "fast", "vod"}
  /\ backends \in Seq(Known) /\ usable \in BOOLEAN
  /\ at \in {"spawn", "ffmpeg", "unwind", "probe", "kill", "up", "waited", "failed"}
  /\ sl \in {"none", "runs", "exited", "reaped"} /\ ff \in {"none", "runs", "exited", "reaped"}
  /\ writers \subseteq {"service", "streamlink"}
  /\ served \in {"nothing", "master", "all"}
  /\ left \in 0 .. Full /\ since \in Nat

\* normalizeBackends: known ones, once each; streamlink when there is none.
normalizeBackends(raw) ==
  LET Add(acc, b) == IF b \in Known /\ ~Contains(acc, b) THEN Append(acc, b) ELSE acc
      known == FoldLeft(Add, <<>>, raw) IN
    IF known = <<>> THEN <<"streamlink">> ELSE known

bestRendition(rends) ==
  rends[CHOOSE i \in DOMAIN rends : \A j \in DOMAIN rends :
          rends[j].score < rends[i].score \/ (rends[j].score = rends[i].score /\ i <= j)]

Sources(rends) == SelectSeq(rends, LAMBDA r : r.source)

\* The renditions that one name of the quality asked for stands for.
Named(rends, name) ==
  IF name \notin {"best", "source", "chunked"} THEN SelectSeq(rends, LAMBDA r : r.name = name)
  ELSE IF Sources(rends) # <<>> THEN Sources(rends) ELSE <<bestRendition(rends)>>

\* The first rendition that the first name known stands for, else the best.
selectRendition(rends, quality) ==
  Head(FlattenSeq([i \in DOMAIN quality |-> Named(rends, quality[i])])
       \o <<bestRendition(rends)>>)

\* usher may list no rendition that the proxy allows, and a VOD that usher does not know of is
\* tried without one.
Init ==
  /\ kind \in {"stable", "fast", "vod"}
  /\ \E raw \in Configured : backends = normalizeBackends(raw)
  /\ \E rends \in Listings, quality \in Qualities :
       usable = (rends # <<>> /\ selectRendition(rends, quality).allowed)
  /\ at = "spawn" /\ sl = "none" /\ ff = "none" /\ writers = {}
  /\ served = "nothing" /\ left = 0 /\ since = 0

\* A stable channel has to answer for a while, with the first variant of its playlist too
\* (hlsProbeTuning, and startVodWorker's own choice).
stabilityWindow == IF kind = "fast" THEN 0 ELSE Window
skipVariant == kind # "stable"

\* backendProbeTimeout: only a streamlink that something follows is given up early.
backendProbeTimeout ==
  IF kind = "vod" \/ Head(backends) = "direct_hls" \/ Len(backends) = 1 \/ Full <= Fast
  THEN Full ELSE Fast

\* The next backend, or the end of the list.
NextBackend ==
  /\ backends' = Tail(backends)
  /\ at' = IF Len(backends) > 1 THEN "spawn" ELSE "failed"

\* A process that ends: a killed one, or an ffmpeg that the end of its input stops.
Ended(p) == IF p = "runs" THEN "exited" ELSE p

ReapedWhen(p) == IF p \in {"runs", "exited"} THEN "reaped" ELSE p

-----------------------------------------------------------------------------

\* spawnBackend: direct_hls needs a rendition the proxy allows, and starts an ffmpeg.
SpawnDirect ==
  /\ at = "spawn" /\ Head(backends) = "direct_hls" /\ usable
  /\ at' = "probe" /\ sl' = "none" /\ ff' = "runs" /\ writers' = {}
  /\ left' = backendProbeTimeout /\ since' = 0
  /\ UNCHANGED <<kind, backends, usable, served>>

\* There is none, or a process does not start.
SpawnFails ==
  /\ at = "spawn"
  /\ NextBackend
  /\ UNCHANGED <<kind, usable, sl, ff, writers, served, left, since>>

\* Start, StartVod: first streamlink, with the writing end of the pipe ...
StartStreamlink ==
  /\ at = "spawn" /\ Head(backends) = "streamlink"
  /\ at' = "ffmpeg" /\ sl' = "runs" /\ ff' = "none" /\ writers' = {"service", "streamlink"}
  /\ UNCHANGED <<kind, backends, usable, served, left, since>>

\* Mutant: the service keeps its writing end.
StartFfmpegOpen ==
  /\ at = "ffmpeg"
  /\ at' = "probe" /\ ff' = "runs" /\ UNCHANGED writers
  /\ left' = backendProbeTimeout /\ since' = 0
  /\ UNCHANGED <<kind, backends, usable, sl, served>>

\* ... then ffmpeg, after which the service closes its own ends.
StartFfmpeg ==
  /\ at = "ffmpeg"
  /\ at' = "probe" /\ ff' = "runs" /\ writers' = writers \ {"service"}
  /\ left' = backendProbeTimeout /\ since' = 0
  /\ UNCHANGED <<kind, backends, usable, sl, served>>

\* Mutant: streamlink is left to itself.
FfmpegFailsAlone ==
  /\ at = "ffmpeg"
  /\ writers' = writers \ {"service"}
  /\ NextBackend
  /\ UNCHANGED <<kind, usable, sl, ff, served, left, since>>

\* When ffmpeg does not start, streamlink is killed and waited for.
FfmpegFails ==
  /\ at = "ffmpeg"
  /\ sl' = ReapedWhen(sl) /\ writers' = {}
  /\ NextBackend
  /\ UNCHANGED <<kind, usable, ff, served, left, since>>

-----------------------------------------------------------------------------

\* probePlaylistGraph.
Answers == served = "all" \/ (served = "master" /\ skipVariant)

\* One round of waitForHLS.
Probe ==
  /\ at = "probe"
  /\ since' = (IF Answers THEN since + 1 ELSE 0)
  /\ at' = IF since' > stabilityWindow THEN "up" ELSE IF left <= 1 THEN "kill" ELSE "probe"
  /\ left' = IF left = 0 THEN 0 ELSE left - 1
  /\ UNCHANGED <<kind, backends, usable, sl, ff, writers, served>>

\* The caller is gone: the wait ends at once, and so does that for every backend that follows.
Abandon ==
  /\ at = "probe"
  /\ at' = "kill"
  /\ UNCHANGED <<kind, backends, usable, sl, ff, writers, served, left, since>>

\* Kill takes the group; only the start of a VOD waits for what it has killed.
GiveUp ==
  /\ at = "kill"
  /\ IF kind = "vod" THEN sl' = ReapedWhen(sl) /\ ff' = ReapedWhen(ff)
     ELSE sl' = Ended(sl) /\ ff' = Ended(ff)
  /\ writers' = writers \ {"streamlink"}
  /\ NextBackend
  /\ UNCHANGED <<kind, usable, served, left, since>>

-----------------------------------------------------------------------------

\* Wait, in the session's supervisor: for ffmpeg, then the group is killed, then streamlink.
Wait ==
  /\ at = "up" /\ ff = "exited"
  /\ at' = "waited" /\ ff' = "reaped" /\ sl' = ReapedWhen(sl) /\ writers' = writers \ {"streamlink"}
  /\ UNCHANGED <<kind, backends, usable, served, left, since>>

\* The stream ends, or something goes wrong with a process.
StreamlinkEnds ==
  /\ sl = "runs" /\ sl' = "exited" /\ writers' = writers \ {"streamlink"}
  /\ UNCHANGED <<kind, backends, usable, at, ff, served, left, since>>

FfmpegEnds ==
  /\ ff = "runs" /\ ff' = "exited"
  /\ UNCHANGED <<kind, backends, usable, at, sl, writers, served, left, since>>

\* ffmpeg reads to the end of its input, which comes when nobody can write to the pipe.
EndOfInput ==
  /\ ff = "runs" /\ sl # "none" /\ writers = {}
  /\ ff' = "exited"
  /\ UNCHANGED <<kind, backends, usable, at, sl, writers, served, left, since>>

\* The media server shows what ffmpeg publishes, and for a while what it has published.
Publish ==
  /\ \E s \in {"nothing", "master", "all"} \ {served} :
       /\ s = "nothing" \/ ff = "runs"
       /\ served' = s
  /\ UNCHANGED <<kind, backends, usable, at, sl, ff, writers, left, since>>

Stopped == at \in {"failed", "waited"} /\ UNCHANGED vars

Next ==
  \/ SpawnDirect \/ SpawnFails \/ StartStreamlink \/ StartFfmpeg \/ FfmpegFails
  \/ Probe \/ Abandon \/ GiveUp \/ Wait
  \/ StreamlinkEnds \/ FfmpegEnds \/ EndOfInput \/ Publish
  \/ Stopped

\* The service goes on with a start, and ffmpeg and the supervisor see what has ended.
Fairness ==
  /\ WF_vars(SpawnDirect \/ SpawnFails \/ StartStreamlink)
  /\ WF_vars(StartFfmpeg \/ FfmpegFails) /\ WF_vars(Probe) /\ WF_vars(GiveUp)
  /\ WF_vars(EndOfInput) /\ WF_vars(Wait)

Spec == Init /\ [][Next]_vars

FairSpec == Spec /\ Fairness

-----------------------------------------------------------------------------

\* When a start has failed, by whatever way, none of the processes that it started still runs
\* (the Kill of startWorker and of Start).
NothingLeftRunning == at = "failed" => sl # "runs" /\ ff # "runs"

\* A worker whose streamlink has ended is noticed, whoever held the pipe, and no process of it
\* stays behind (Worker.Wait).
EndIsNoticed == (at = "up" /\ sl = "exited") ~> (at = "waited" /\ sl = "reaped" /\ ff = "reaped")
=============================================================================
