------------------------------ MODULE MCEmotes ------------------------------
(***************************************************************************)
(* The emotes for TLC: the dictionaries (EmoteDict) and, each on its own,  *)
(* the subscriptions to 7TV's events, the object stores and the render     *)
(* hints.                                                                  *)
(***************************************************************************)
EXTENDS EmoteDict, EmoteParts, FiniteSets

VARIABLE turn  (* the part that runs *)

evVars == <<ev_subs, ev_idle, ev_conn, ev_up, ev_served, ev_inbox, ev_run, ev_todo,
            ev_out, ev_remote, ev_applied, ev_cut>>
obVars == <<ob_conf, ob_held, ob_call, ob_promo, ob_puts, ob_kept>>
hiVars == <<hi_seen, hi_pub, hi_guard, hi_list, hi_taken, hi_spent, hi_pushed>>

Parts == {"dict", "events", "objects", "hints"}

\* One part runs; the others stay as they are at first.  Bounds of the dictionary's part: at
\* first every emote is rendered or those without an alias are, and a dictionary left behind
\* without an expiry is empty or full; the other cases come in the states that follow.
SumInit ==
  /\ turn \in Parts
  /\ Init
  /\ Events!Init
  /\ Objects!Init
  /\ Hints!Init
  /\ turn = "dict" => ready \in {Emotes \ Aliased, Emotes} /\ (bounded \/ Cardinality(hash) # 1)
  /\ turn # "dict" => items = {} /\ ready = {} /\ hash = {} /\ ~bounded
  /\ turn # "objects" => ob_conf = [second |-> TRUE, flip |-> FALSE, dual |-> TRUE, through |-> TRUE]

SumNext ==
  \/ turn = "dict" /\ Next /\ UNCHANGED <<turn, evVars, obVars, hiVars>>
  \/ turn = "events" /\ Events!Next /\ UNCHANGED <<turn, vars, obVars, hiVars>>
  \/ turn = "objects" /\ Objects!Next /\ UNCHANGED <<turn, vars, evVars, hiVars>>
  \/ turn = "hints" /\ Hints!Next /\ UNCHANGED <<turn, vars, evVars, obVars>>

sumVars == <<turn, vars, evVars, obVars, hiVars>>

SumSpec == SumInit /\ [][SumNext]_sumVars

\* The fairness of EmoteDict, as long as it is the part that runs.
SumFairness ==
  LET Runs(A) == turn = "dict" /\ A IN
  /\ \A w \in Writers : WF_vars(Runs(Read(w) \/ Rebuild(w) \/ Publish(w)))
  /\ \A h \in Handlers : WF_vars(Runs(SetDone(h) \/ Patch(h) \/ PatchMissing(h)))
  /\ \A e \in Emotes : WF_vars(Runs(QueueAffected(e)))
  /\ WF_vars(Runs(TakeDirty)) /\ WF_vars(Runs(RebuildDirty))
  /\ WF_vars(Runs(Load \/ FirstSwap \/ Subscribe \/ Reload \/ ReloadMissing \/ Swap))
  /\ WF_vars(Runs(Receive)) /\ WF_vars(Runs(TimerFires))

SumFairSpec == SumSpec /\ SumFairness
=============================================================================
