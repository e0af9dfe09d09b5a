----------------------------- MODULE MCSeeding -----------------------------
(***************************************************************************)
(* Instances of Seeding for TLC: one channel, an emote of 7TV and one of   *)
(* Twitch.  Liveness is checked, so no symmetry.                           *)
(***************************************************************************)
EXTENDS Seeding

MCEmotes == {"x", "t"}
MCFrom   == [x |-> "7tv", t |-> "twitch"]
MCLists  == {{"7tv", "twitch"}}

=============================================================================
