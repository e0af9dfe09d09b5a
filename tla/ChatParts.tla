----------------------------- MODULE ChatParts -----------------------------
(***************************************************************************)
(* The chat service next to its hub: what one client is sent, and the      *)
(* words of a message.  They share no state with the hub's tables but the  *)
(* client's membership, which is modelled on both sides, so each has       *)
(* constants and variables of its own, with its prefix: q_ for             *)
(* ClientQueue, w_ for Tokenize.                                           *)
(***************************************************************************)
EXTENDS Naturals, Sequences, FiniteSets

CONSTANTS
  q_Feeds, q_Size, q_MaxFrames,
  w_Letters, w_Names, w_Tags, w_MaxLen, w_None

VARIABLES
  q_at, q_made, q_wants, q_members, q_loop, q_queue, q_closed, q_writing,
  q_written, q_panicked,
  w_dict, w_text, w_spans, w_cursor, w_rest, w_pending, w_frags, w_out

Queue == INSTANCE ClientQueue WITH
  Feeds <- q_Feeds, Size <- q_Size, MaxFrames <- q_MaxFrames, at <- q_at,
  made <- q_made, wants <- q_wants, members <- q_members, loop <- q_loop,
  queue <- q_queue, closed <- q_closed, writing <- q_writing,
  written <- q_written, panicked <- q_panicked

Words == INSTANCE Tokenize WITH
  Letters <- w_Letters, Names <- w_Names, Tags <- w_Tags, MaxLen <- w_MaxLen,
  None <- w_None, dict <- w_dict, text <- w_text, spans <- w_spans,
  cursor <- w_cursor, rest <- w_rest, pending <- w_pending, frags <- w_frags,
  out <- w_out

\* A tag names finitely many spans by their first and last rune; texts are counted.
ASSUME ChatPartsAssumption ==
  /\ \A tag \in w_Tags : IsFiniteSet(tag) /\ tag \subseteq Nat \X Nat
  /\ w_MaxLen \in Nat

\* The frames of one sender are written in order (ClientQueue).
InOrder == Queue!InOrder

\* A queue that is closed is out of every channel (ClientQueue).
ClosedIsLeft == Queue!ClosedIsLeft

\* A message is cut into the emotes that are in it, and is still the message (Tokenize).
Tokenized == Words!Tokenized
=============================================================================
