---------------------------- MODULE ServiceParts ----------------------------
(***************************************************************************)
(* What is behind the requests of a browser next to the limit on them: the *)
(* metadata cache, the search of Reddit, the pages of the directory and    *)
(* the accounts.  They share no state in the code, so each has constants   *)
(* and variables of its own, with its prefix: md_ for Metadata, rd_ for    *)
(* Reddit, pg_ for Paging, acc_ for Accounts.                              *)
(***************************************************************************)
EXTENDS Integers, Sequences, FiniteSets

CONSTANTS
  md_Handlers, md_Views, md_MaxChanges, md_MaxFaults, md_None,
  rd_Callers, rd_Configured, rd_Settings, rd_Budgets,
  pg_Streams, pg_Limits, pg_PageSize, pg_HelixPage, pg_MaxMoves, pg_MaxFaults,
  acc_Browsers, acc_Local, acc_Handlers, acc_Sessions, acc_Devices, acc_MaxGen,
  acc_None

VARIABLES
  md_now, md_redis, md_faults, md_fresh, md_stale, md_flight, md_pc, md_warm,
  md_kept,
  rd_conf, rd_backoff, rd_token, rd_call,
  pg_list, pg_moves, pg_faults, pg_helix, pg_token, pg_req, pg_shown,
  acc_req, acc_session, acc_claims, acc_latest, acc_device, acc_cookie, acc_drawn,
  acc_code, acc_granted, acc_aged, acc_ended, acc_revived

Meta == INSTANCE Metadata WITH
  Handlers <- md_Handlers, Views <- md_Views, MaxChanges <- md_MaxChanges,
  MaxFaults <- md_MaxFaults, None <- md_None, now <- md_now, redis <- md_redis,
  faults <- md_faults, fresh <- md_fresh, stale <- md_stale, flight <- md_flight,
  pc <- md_pc, warm <- md_warm, kept <- md_kept

Red == INSTANCE Reddit WITH
  Callers <- rd_Callers, Configured <- rd_Configured, Settings <- rd_Settings,
  Budgets <- rd_Budgets, conf <- rd_conf, backoff <- rd_backoff,
  token <- rd_token, call <- rd_call

Pages == INSTANCE Paging WITH
  Streams <- pg_Streams, Limits <- pg_Limits, PageSize <- pg_PageSize,
  HelixPage <- pg_HelixPage, MaxMoves <- pg_MaxMoves, MaxFaults <- pg_MaxFaults,
  list <- pg_list, moves <- pg_moves, faults <- pg_faults, helix <- pg_helix,
  token <- pg_token, req <- pg_req, shown <- pg_shown

Acc == INSTANCE Accounts WITH
  Browsers <- acc_Browsers, Local <- acc_Local, Handlers <- acc_Handlers,
  Sessions <- acc_Sessions, Devices <- acc_Devices, MaxGen <- acc_MaxGen,
  None <- acc_None, req <- acc_req, session <- acc_session, claims <- acc_claims,
  latest <- acc_latest, device <- acc_device, cookie <- acc_cookie,
  drawn <- acc_drawn, code <- acc_code, granted <- acc_granted, aged <- acc_aged,
  ended <- acc_ended, revived <- acc_revived

\* The views are routes, and the posts of a channel are one of them; the warmer is no
\* request.  What names an absence is none of the things it stands for; counts are numbers,
\* there is something on every page; and an id drawn for a session is none drawn for a device
\* authorization.
ASSUME ServicePartsAssumption ==
  /\ md_Views \subseteq Meta!Routes /\ "lsf" \in md_Views
  /\ "warmer" \notin md_Handlers
  /\ md_None \notin Meta!Answers /\ md_None \notin md_Views /\ md_None \notin Meta!Runners
  /\ md_MaxChanges \in Nat /\ md_MaxFaults \in Nat
  /\ rd_Budgets \subseteq Int
  /\ IsFiniteSet(pg_Streams) /\ pg_Limits \subseteq Nat \ {0}
  /\ pg_PageSize \in Nat \ {0} /\ pg_HelixPage \in Nat \ {0}
  /\ acc_MaxGen \in Nat \ {0}
  /\ acc_None \notin acc_Sessions \cup acc_Devices \cup acc_Browsers
  /\ acc_None \notin Acc!Record
  /\ acc_Sessions \cap acc_Devices = {}

\* A copy is not replaced by an older one (Metadata).
NeverBack == Meta!NeverBack

\* Where there is a stale copy, no request whose browser waits fails (Metadata).
StaleStandsIn == Meta!StaleStandsIn

\* A search asks for the pages its budget has (Reddit).
BudgetKept == Red!BudgetKept

\* Who follows answers of Helix, or of single pages, to their end has seen every stream (Paging).
NothingSkipped == Pages!NothingSkipped

\* Two browsers do not share a session (Accounts).
SessionNotShared == Acc!SessionNotShared

\* A session that was logged out is gone, or a refresh has brought it back (Accounts).
LogoutRevokes == Acc!LogoutRevokes
=============================================================================
