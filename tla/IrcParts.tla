------------------------------ MODULE IrcParts ------------------------------
(***************************************************************************)
(* The connections to Twitch's chat next to the anonymous pool: those that *)
(* are signed in.  They share no state with the pool, so they have         *)
(* constants and variables of their own, with the prefix snd_ for Sender.  *)
(***************************************************************************)
EXTENDS FiniteSets, Naturals

CONSTANTS snd_Clients, snd_Conns, snd_None

VARIABLES
  snd_alive, snd_at, snd_using, snd_entry, snd_open, snd_closed, snd_reader,
  snd_owner, snd_stray

\* What names an absence is none of the connections.
ASSUME IrcPartsAssumption == snd_None \notin snd_Conns

Snd == INSTANCE Sender WITH
  Clients <- snd_Clients, Conns <- snd_Conns, None <- snd_None,
  alive <- snd_alive, at <- snd_at, using <- snd_using, entry <- snd_entry,
  open <- snd_open, closed <- snd_closed, reader <- snd_reader,
  owner <- snd_owner, stray <- snd_stray

\* A session speaks over one connection (Sender).
SingleConnection == Snd!SingleConnection

\* The connections of a session nobody uses are closed (Sender).
SocketsClose == Snd!SocketsClose
=============================================================================
