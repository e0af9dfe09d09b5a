------------------------------ MODULE MCVideo ------------------------------
(***************************************************************************)
(* The video service for TLC: the relays (Relay) and, each on its own, the *)
(* proxied playlists, the tokens of playback and the start of one worker:  *)
(* they share no state with one another in the code either.                *)
(***************************************************************************)
EXTENDS Relay, VideoParts, TLC

\* URLs that pass the proxy's checks, and one that fails each of them.
Url(scheme, host, port, user) == [scheme |-> scheme, host |-> host, port |-> port, user |-> user]
MCUrls == {Url("http",  "usher.ttvnw.net",  "none",    FALSE),
           Url("https", "weaver.ttvnw.net", "443", FALSE),
           Url("https", "weaver.ttvnw.net", "80",  FALSE),
           Url("https", "weaver.ttvnw.net", "none",    TRUE),
           Url("https", "example.com",      "none",    FALSE),
           Url("file",  "usher.ttvnw.net",  "none",    FALSE)}

\* Lists of backends: none, two, and one with a name unknown and a name twice.
MCConfigured == {<<>>, <<"direct_hls", "streamlink">>,
                 <<"streamlink", "other", "direct_hls", "streamlink">>}

\* Renditions that usher may answer, and qualities that ask for one of them, or not.
Rendition(name, source, score, allowed) ==
  [name |-> name, source |-> source, score |-> score, allowed |-> allowed]
MCListings ==
  {<<>>,
   <<Rendition("480p", FALSE, 1, TRUE), Rendition("720p", FALSE, 2, FALSE)>>,
   <<Rendition("480p", FALSE, 1, FALSE), Rendition("1080p60", TRUE, 3, TRUE)>>}
MCQualities == {<<"best">>, <<"360p", "480p">>, <<"360p">>}

VARIABLE turn  (* the part that runs *)

plVars == <<pl_ads, pl_layout, pl_first, pl_at, pl_url, pl_hops, pl_dialled,
            pl_out>>
pbVars == <<pb_cache, pb_flight, pb_req, pb_failures, pb_open, pb_faults>>
stVars == <<st_kind, st_backends, st_usable, st_at, st_sl, st_ff, st_writers,
            st_served, st_left, st_since>>

Parts == {"relay", "lists", "play", "start"}

\* One part runs; the others stay as they are at first.
SumInit ==
  /\ turn \in Parts
  /\ Init
  /\ Lists!Init
  /\ Play!Init
  /\ Start!Init
  /\ turn # "lists" => pl_ads = 2 .. 2 /\ pl_layout = CHOOSE l \in Lists!Layouts : TRUE
  /\ turn # "start" => st_kind = "vod" /\ st_backends = <<"streamlink">> /\ ~st_usable

SumNext ==
  \/ turn = "relay" /\ Next /\ UNCHANGED <<turn, plVars, pbVars, stVars>>
  \/ turn = "lists" /\ Lists!Next /\ UNCHANGED <<turn, vars, pbVars, stVars>>
  \/ turn = "play" /\ Play!Next /\ UNCHANGED <<turn, vars, plVars, stVars>>
  \/ turn = "start" /\ Start!Next /\ UNCHANGED <<turn, vars, plVars, pbVars>>

sumVars == <<turn, vars, plVars, pbVars, stVars>>

SumSpec == SumInit /\ [][SumNext]_sumVars

\* Clients and callers are interchangeable.  (Sessions are not: Lead takes a fixed one.)
Symmetry == Permutations(Clients) \cup Permutations(pb_Callers)

=============================================================================
