-------------------------- MODULE MCVideoProgress --------------------------
(***************************************************************************)
(* What must happen in the video service, for TLC: a small instance of the *)
(* relays (Relay) and, on its own, the start of one worker.                *)
(***************************************************************************)
EXTENDS Relay

\* Lists of backends: none, two, and one with a name unknown and a name twice.
MCConfigured == {<<>>, <<"direct_hls", "streamlink">>,
                 <<"streamlink", "other", "direct_hls", "streamlink">>}

\* Renditions that usher may answer, and qualities that ask for one of them, or not.
Rendition(name, source, score, allowed) ==
  [name |-> name, source |-> source, score |-> score, allowed |-> allowed]
MCListings ==
  {<<>>,
   <<Rendition("480p", FALSE, 1, TRUE), Rendition("720p", FALSE, 2, FALSE)>>,
   <<Rendition("480p", FALSE, 1, FALSE), Rendition("1080p60", TRUE, 3, TRUE)>>}
MCQualities == {<<"best">>, <<"360p", "480p">>, <<"360p">>}

VARIABLES
  turn,  (* the part that runs                                             *)
  st_kind, st_backends, st_usable, st_at, st_sl, st_ff, st_writers, st_served,
  st_left, st_since

stVars == <<st_kind, st_backends, st_usable, st_at, st_sl, st_ff, st_writers,
            st_served, st_left, st_since>>

Start == INSTANCE Startup WITH
  Configured <- MCConfigured, Listings <- MCListings, Qualities <- MCQualities,
  Full <- 5, Fast <- 3, Window <- 1, kind <- st_kind, backends <- st_backends,
  usable <- st_usable, at <- st_at, sl <- st_sl, ff <- st_ff,
  writers <- st_writers, served <- st_served, left <- st_left, since <- st_since

Parts == {"relay", "start"}

\* One part runs; the others stay as they are at first.
SumInit ==
  /\ turn \in Parts
  /\ Init
  /\ Start!Init
  /\ turn # "start" => st_kind = "vod" /\ st_backends = <<"streamlink">> /\ ~st_usable

SumNext ==
  \/ turn = "relay" /\ Next /\ UNCHANGED <<turn, stVars>>
  \/ turn = "start" /\ Start!Next /\ UNCHANGED <<turn, vars>>

sumVars == <<turn, vars, stVars>>

SumSpec == SumInit /\ [][SumNext]_sumVars

\* The fairness of each part, as long as it is the one that runs.
SumFairness ==
  /\ \A c \in Clients : WF_vars(turn = "relay" /\ Handler(c))
  /\ \A s \in Sessions : /\ WF_vars(turn = "relay" /\ Create(s))
                        /\ WF_vars(turn = "relay" /\ Supervise(s))
  /\ WF_vars(turn = "relay" /\ Reaper)
  /\ WF_stVars(turn = "start" /\ (Start!SpawnDirect \/ Start!SpawnFails \/ Start!StartStreamlink))
  /\ WF_stVars(turn = "start" /\ (Start!StartFfmpeg \/ Start!FfmpegFails))
  /\ WF_stVars(turn = "start" /\ Start!Probe)
  /\ WF_stVars(turn = "start" /\ Start!GiveUp)
  /\ WF_stVars(turn = "start" /\ Start!EndOfInput)
  /\ WF_stVars(turn = "start" /\ Start!Wait)

SumFairSpec == SumSpec /\ SumFairness

EndIsNoticed == Start!EndIsNoticed

=============================================================================
