----------------------------- MODULE VideoParts -----------------------------
(***************************************************************************)
(* The video service next to its relays: the proxied playlists, the tokens *)
(* of playback and the start of one worker.  They share no state in the    *)
(* code, so each has constants and variables of its own, with its prefix:  *)
(* pl_ for Playlists, pb_ for Playback, st_ for Startup.                   *)
(***************************************************************************)
EXTENDS Integers

CONSTANTS
  pl_Urls, pl_MaxRedirect, pl_Segments, pl_Window, pl_None,
  pb_Callers, pb_Viewers, pb_Entitled, pb_Threshold, pb_MaxFaults, pb_None,
  st_Configured, st_Listings, st_Qualities, st_Full, st_Fast, st_Window

VARIABLES
  pl_ads, pl_layout, pl_first, pl_at, pl_url, pl_hops, pl_dialled, pl_out,
  pb_cache, pb_flight, pb_req, pb_failures, pb_open, pb_faults,
  st_kind, st_backends, st_usable, st_at, st_sl, st_ff, st_writers, st_served,
  st_left, st_since

\* What names an absence is none of the things it stands for; counts are numbers.
ASSUME VideoPartsAssumption ==
  /\ pl_None \notin pl_Urls /\ pl_MaxRedirect \in Nat
  /\ pl_Segments \in Nat /\ pl_Window \in Nat
  /\ pb_None \notin pb_Viewers \cup {"anonymous"} \cup pb_Callers
  /\ "anonymous" \notin pb_Viewers
  /\ pb_Threshold \in Nat \ {0} /\ pb_MaxFaults \in Nat
  /\ st_Full \in Nat \ {0} /\ st_Fast \in Nat \ {0} /\ st_Window \in Nat

Lists == INSTANCE Playlists WITH
  Urls <- pl_Urls, MaxRedirect <- pl_MaxRedirect, Segments <- pl_Segments,
  Window <- pl_Window, None <- pl_None, ads <- pl_ads, layout <- pl_layout,
  first <- pl_first, at <- pl_at, url <- pl_url, hops <- pl_hops,
  dialled <- pl_dialled, out <- pl_out

Play == INSTANCE Playback WITH
  Callers <- pb_Callers, Viewers <- pb_Viewers, Entitled <- pb_Entitled,
  Threshold <- pb_Threshold, MaxFaults <- pb_MaxFaults, None <- pb_None,
  cache <- pb_cache, flight <- pb_flight, req <- pb_req, failures <- pb_failures,
  open <- pb_open, faults <- pb_faults

Start == INSTANCE Startup WITH
  Configured <- st_Configured, Listings <- st_Listings,
  Qualities <- st_Qualities, Full <- st_Full, Fast <- st_Fast,
  Window <- st_Window, kind <- st_kind, backends <- st_backends,
  usable <- st_usable, at <- st_at, sl <- st_sl, ff <- st_ff,
  writers <- st_writers, served <- st_served, left <- st_left, since <- st_since

\* What the proxy connects to is allowed (Playlists).
FollowsApproved == Lists!FollowsApproved

\* What it answers is the programme without the ads (Playlists).
Cleaned == Lists!Cleaned

\* Only who is signed in plays with a token that a viewer's OAuth token got, though perhaps
\* another viewer's (Playback).
AnonymousIsAnonymous == Play!AnonymousIsAnonymous

\* A start that failed leaves no process (Startup).
NothingLeftRunning == Start!NothingLeftRunning
=============================================================================
