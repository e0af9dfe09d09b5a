--------------------------- MODULE MCChatProgress ---------------------------
(***************************************************************************)
(* What must happen in the chat service, for TLC: the pool (Irc) and, each *)
(* on its own, a small instance of the hub and the authenticated senders   *)
(* (IrcParts).                                                             *)
(***************************************************************************)
EXTENDS Irc, IrcParts

VARIABLES
  turn,  (* the part that runs                                             *)
  hub_pc, hub_arg, hub_hold, hub_wants, hub_told, hub_members, hub_unsubs,
  hub_open, hub_joins, hub_sleeping, hub_parting, hub_clearing

hubVars == <<hub_pc, hub_arg, hub_hold, hub_wants, hub_told, hub_members,
             hub_unsubs, hub_open, hub_joins, hub_sleeping, hub_parting,
             hub_clearing>>
sndVars == <<snd_alive, snd_at, snd_using, snd_entry, snd_open, snd_closed,
             snd_reader, snd_owner, snd_stray>>

Hub == INSTANCE ChatHub WITH
  Channels <- {"x1"}, Clients <- {"c1", "c2"}, Feeds <- {"f1", "f2"},
  MaxGrace <- 1, MaxJoins <- 3, pc <- hub_pc, arg <- hub_arg, hold <- hub_hold,
  wants <- hub_wants, told <- hub_told, members <- hub_members,
  unsubs <- hub_unsubs, open <- hub_open, joins <- hub_joins,
  sleeping <- hub_sleeping, parting <- hub_parting, clearing <- hub_clearing

Parts == {"irc", "hub", "sender"}

\* One part runs; the others stay as they are at first.
SumInit ==
  /\ turn \in Parts
  /\ Init
  /\ Hub!Init
  /\ Snd!Init

SumNext ==
  \/ turn = "irc" /\ Next /\ UNCHANGED <<turn, hubVars, sndVars>>
  \/ turn = "hub" /\ Hub!Next /\ UNCHANGED <<turn, vars, sndVars>>
  \/ turn = "sender" /\ Snd!Next /\ UNCHANGED <<turn, vars, hubVars>>

sumVars == <<turn, vars, hubVars, sndVars>>

SumSpec == SumInit /\ [][SumNext]_sumVars

\* The fairness of each part, as long as it is the one that runs.
SumFairness ==
  /\ \A p \in Callers : WF_vars(turn = "irc" /\ Caller(p))
  /\ \A c \in Conns : /\ WF_vars(turn = "irc" /\ Reader(c))
                      /\ SF_vars(turn = "irc" /\ \E d \in Conns : Redial(c, d))
  /\ \A c \in {"c1", "c2"} : WF_hubVars(turn = "hub" /\ Hub!ReadLoop(c))
  /\ WF_hubVars(turn = "hub" /\ Hub!Grace("x1"))
  /\ \A c \in snd_Clients : WF_sndVars(turn = "sender" /\ Snd!Sending(c))
  /\ \A o \in snd_Conns : WF_sndVars(turn = "sender" /\ Snd!Reading(o))

SumFairSpec == SumSpec /\ SumFairness

IdleFeedsClose == Hub!IdleFeedsClose

=============================================================================
