----------------------------- MODULE EmoteParts -----------------------------
(***************************************************************************)
(* The emote service next to its dictionaries: the subscriber of 7TV's     *)
(* events, the object stores and the render hints.  They share no state in *)
(* the code, so each has constants and variables of its own, with its      *)
(* prefix: ev_ for EventApi, ob_ for ObjectStores, hi_ for RenderHints.    *)
(***************************************************************************)
EXTENDS Naturals

CONSTANTS
  ev_Logins, ev_WithSet, ev_Sets, ev_Handlers, ev_Conns, ev_MaxChanges, ev_None,
  ob_Handlers, ob_Slots, ob_MaxPuts,
  hi_Emotes, hi_Chats, hi_MaxLen, hi_Limit, hi_None

VARIABLES
  ev_subs, ev_idle, ev_conn, ev_up, ev_served, ev_inbox, ev_run, ev_todo, ev_out,
  ev_remote, ev_applied, ev_cut,
  ob_conf, ob_held, ob_call, ob_promo, ob_puts, ob_kept,
  hi_seen, hi_pub, hi_guard, hi_list, hi_taken, hi_spent, hi_pushed

\* What names an absence is none of the things it stands for; counts are numbers.
ASSUME EmotePartsAssumption ==
  /\ ev_None \notin ev_Sets \cup ev_Conns /\ ev_MaxChanges \in Nat
  /\ "reaper" \notin ev_Handlers
  /\ ob_MaxPuts \in Nat
  /\ hi_None \notin hi_Emotes /\ hi_MaxLen \in Nat \ {0} /\ hi_Limit \in Nat

Events == INSTANCE EventApi WITH
  Logins <- ev_Logins, WithSet <- ev_WithSet, Sets <- ev_Sets,
  Handlers <- ev_Handlers, Conns <- ev_Conns, MaxChanges <- ev_MaxChanges,
  None <- ev_None, subs <- ev_subs, idle <- ev_idle, conn <- ev_conn, up <- ev_up,
  served <- ev_served, inbox <- ev_inbox, run <- ev_run, todo <- ev_todo,
  out <- ev_out, remote <- ev_remote, applied <- ev_applied, cut <- ev_cut

Objects == INSTANCE ObjectStores WITH
  Handlers <- ob_Handlers, Slots <- ob_Slots, MaxPuts <- ob_MaxPuts,
  conf <- ob_conf, held <- ob_held, call <- ob_call, promo <- ob_promo,
  puts <- ob_puts, kept <- ob_kept

Hints == INSTANCE RenderHints WITH
  Emotes <- hi_Emotes, Chats <- hi_Chats, MaxLen <- hi_MaxLen, Limit <- hi_Limit,
  None <- hi_None, seen <- hi_seen, pub <- hi_pub, guard <- hi_guard,
  list <- hi_list, taken <- hi_taken, spent <- hi_spent, pushed <- hi_pushed

\* What registered channels use is subscribed to, or was taken off the connection (EventApi).
ActiveSubscribed == Events!ActiveSubscribed

\* What was put can be read while there are two stores and reads fall back (ObjectStores).
StaysReadable == Objects!StaysReadable

\* One hint is pushed while the guard is set (RenderHints).
OneHint == Hints!OneHint
=============================================================================
