------------------------------- MODULE MCChat -------------------------------
(***************************************************************************)
(* The chat service for TLC: the hub (ChatHub) and, each on its own, the   *)
(* queue of one client and the words of a message (ChatParts).             *)
(***************************************************************************)
EXTENDS ChatHub, ChatParts

\* Names of which one begins another, and spans of Twitch's emotes: none, one in the
\* middle, and three of which two overlap and one runs past the end.
MCNames == {<<"a">>, <<"a", "b">>, <<"b", "b">>}
MCTags  == {{}, {<<1, 1>>}, {<<0, 0>>, <<0, 1>>, <<2, 5>>}}

VARIABLES
  turn   (* the part that runs                                             *)

qVars == <<q_at, q_made, q_wants, q_members, q_loop, q_queue, q_closed, q_writing,
           q_written, q_panicked>>
wVars == <<w_dict, w_text, w_spans, w_cursor, w_rest, w_pending, w_frags, w_out>>

Parts == {"hub", "queue", "words"}

\* One part runs; the others stay as they are at first.
SumInit ==
  /\ turn \in Parts
  /\ Init
  /\ Queue!Init
  /\ Words!Init
  /\ turn # "words" => w_dict = w_None /\ w_text = <<>> /\ w_spans = <<>>

SumNext ==
  \/ turn = "hub" /\ Next /\ UNCHANGED <<turn, qVars, wVars>>
  \/ turn = "queue" /\ Queue!Next /\ UNCHANGED <<turn, vars, wVars>>
  \/ turn = "words" /\ Words!Next /\ UNCHANGED <<turn, vars, qVars>>

sumVars == <<turn, vars, qVars, wVars>>

SumSpec == SumInit /\ [][SumNext]_sumVars

=============================================================================
