----------------------------- MODULE MCServices -----------------------------
(***************************************************************************)
(* What is behind the requests of a browser, for TLC: the limit on         *)
(* requests (RateLimit) and, each on its own, the metadata cache, the      *)
(* search of Reddit, the accounts and the pages of the directory           *)
(* (ServiceParts).                                                         *)
(***************************************************************************)
EXTENDS RateLimit, ServiceParts

\* Reddit by every source, and by one that is named.
MCFirst    == [provider |-> "auto", low |-> FALSE, html |-> TRUE]
MCSettings == {MCFirst, [provider |-> "third_party", low |-> TRUE, html |-> FALSE]}

VARIABLES
  turn  (* the part that runs                                              *)

mdVars == <<md_now, md_redis, md_faults, md_fresh, md_stale, md_flight, md_pc,
            md_warm, md_kept>>
rdVars == <<rd_conf, rd_backoff, rd_token, rd_call>>
pgVars == <<pg_list, pg_moves, pg_faults, pg_helix, pg_token, pg_req, pg_shown>>
accVars == <<acc_req, acc_session, acc_claims, acc_latest, acc_device, acc_cookie,
             acc_drawn, acc_code, acc_granted, acc_aged, acc_ended, acc_revived>>

Parts == {"limit", "metadata", "reddit", "pages", "accounts"}

\* One part runs; the others stay as they are at first.
SumInit ==
  /\ turn \in Parts
  /\ Init
  /\ Meta!Init
  /\ Red!Init
  /\ Pages!Init
  /\ Acc!Init
  /\ turn # "reddit" => rd_conf = MCFirst
  /\ turn # "pages" => pg_list = <<1, 2, 3, 4>> /\ ~pg_helix /\ pg_req.limit = 1

SumNext ==
  \/ turn = "limit" /\ Next /\ UNCHANGED <<turn, mdVars, rdVars, pgVars, accVars>>
  \/ turn = "metadata" /\ Meta!Next /\ UNCHANGED <<turn, vars, rdVars, pgVars, accVars>>
  \/ turn = "reddit" /\ Red!Next /\ UNCHANGED <<turn, vars, mdVars, pgVars, accVars>>
  \/ turn = "pages" /\ Pages!Next /\ UNCHANGED <<turn, vars, mdVars, rdVars, accVars>>
  \/ turn = "accounts" /\ Acc!Next /\ UNCHANGED <<turn, vars, mdVars, rdVars, pgVars>>

sumVars == <<turn, vars, mdVars, rdVars, pgVars, accVars>>

SumSpec == SumInit /\ [][SumNext]_sumVars

=============================================================================
