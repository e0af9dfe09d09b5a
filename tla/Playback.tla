------------------------------ MODULE Playback ------------------------------
(***************************************************************************)
(* The tokens that Twitch wants for a playlist (internal/video/token), and *)
(* the circuit breaker around them (internal/resilience).  A token is      *)
(* kept for a while, and callers that miss it share one fetch, which runs  *)
(* under the context of the one that began it.  A viewer who is signed in  *)
(* has a VOD fetched with their own OAuth token first, outside the         *)
(* breaker; when that fails the VOD is fetched as for anybody else.        *)
(*                                                                         *)
(* A token is known by whose OAuth it was fetched with.  The key under     *)
(* which the tokens of viewers are kept and fetched names the VOD, not the *)
(* viewer: one for all who are signed in.                                  *)
(***************************************************************************)
EXTENDS Naturals

CONSTANTS
  Callers,    (* bound: starts at the same time                              *)
  Viewers,
  Entitled,   (* the viewers whose OAuth token Twitch takes for the VOD      *)
  Threshold,  (* failures in a row that open the breaker                     *)
  MaxFaults,  (* bound: fetches that fail, and browsers that leave           *)
  None

VARIABLES
  cache,     (* per key, the token kept                                      *)
  flight,    (* per key, whose fetch is under way                            *)
  req,       (* per caller, its start                                        *)
  failures,  (* Breaker.failures                                             *)
  open,      (* Breaker.openUntil is in the future                           *)
  faults     (* fetches failed and browsers gone so far                      *)

vars == <<cache, flight, req, failures, open, faults>>

CacheKeys == {"live", "vod", "vod:oauth"}

Owners == Viewers \cup {"anonymous"}

\* guarded: under the breaker.  oauth: the viewer's OAuth token is handed on with the token.
Idle == [at |-> "idle", kind |-> "live", viewer |-> None, guarded |-> TRUE, tries |-> 0,
         gone |-> FALSE, token |-> None, oauth |-> FALSE]

TypeOK ==
  /\ cache \in [CacheKeys -> Owners \cup {None}]
  /\ flight \in [CacheKeys -> Callers \cup {None}]
  /\ req \in [Callers -> [at : {"idle", "gate", "look", "join", "fetch", "wait", "retry",
                                "report", "end"},
                          kind : {"live", "vod"}, viewer : Viewers \cup {None},
                          guarded : BOOLEAN, tries : 0 .. 1, gone : BOOLEAN,
                          token : Owners \cup {None}, oauth : BOOLEAN]]
  /\ failures \in 0 .. Threshold - 1 /\ open \in BOOLEAN /\ faults \in 0 .. MaxFaults

Init ==
  /\ cache = [k \in CacheKeys |-> None]
  /\ flight = [k \in CacheKeys |-> None]
  /\ req = [c \in Callers |-> Idle]
  /\ failures = 0 /\ open = FALSE /\ faults = 0

Goto(c, where) == req' = [req EXCEPT ![c].at = where]

\* Mutant: what a VOD's token was fetched with is no part of its key.
KeyShared(r) == r.kind

\* vodCacheKey, with ":oauth" for the viewer's own.
Key(r) == IF r.guarded THEN r.kind ELSE "vod:oauth"

\* The token is there: the viewer's call is over, the other one is reported to the breaker.
Served(r, owner) ==
  [r EXCEPT !.at = IF r.guarded THEN "report" ELSE "end", !.token = owner, !.oauth = ~r.guarded]

\* After the viewer's call comes the anonymous one, which is tried twice (Retry).
Failed(r) ==
  IF ~r.guarded THEN [r EXCEPT !.guarded = TRUE, !.at = "gate"]
  ELSE IF r.tries = 0 THEN [r EXCEPT !.at = "retry", !.tries = 1]
  ELSE [r EXCEPT !.at = "report"]

\* The fetch of c ends, for those who wait for it too.
Land(c, result(_)) ==
  LET k == Key(req[c]) IN
    /\ flight' = [flight EXCEPT ![k] = None]
    /\ req' = [q \in Callers |->
                 IF q = c \/ (req[q].at = "wait" /\ Key(req[q]) = k) THEN result(req[q]) ELSE req[q]]

-----------------------------------------------------------------------------

\* A start of a live channel, or of a VOD (fetchVodPlaybackToken).
Begin(c) ==
  /\ req[c].at \in {"idle", "end"}
  /\ \E kind \in {"live", "vod"}, v \in Viewers \cup {None} :
       /\ kind = "live" => v = None
       /\ req' = [req EXCEPT ![c] = [Idle EXCEPT !.kind = kind, !.viewer = v, !.guarded = v = None,
                                                 !.at = IF v = None THEN "gate" ELSE "look"]]
  /\ UNCHANGED <<cache, flight, failures, open, faults>>

\* Breaker.Do lets no call through while it is open.
Gate(c) ==
  /\ req[c].at = "gate"
  /\ Goto(c, IF open THEN "end" ELSE "look")
  /\ UNCHANGED <<cache, flight, failures, open, faults>>

Look(c) ==
  LET r == req[c] IN
    /\ r.at = "look"
    /\ req' = [req EXCEPT ![c] = IF cache[Key(r)] # None THEN Served(r, cache[Key(r)])
                                 ELSE [r EXCEPT !.at = "join"]]
    /\ UNCHANGED <<cache, flight, failures, open, faults>>

\* sf.Do: who comes first looks once more and fetches; who comes later waits.
Join(c) ==
  LET r == req[c]  k == Key(r) IN
    /\ r.at = "join"
    /\ IF flight[k] # None THEN Goto(c, "wait") /\ UNCHANGED flight
       ELSE IF cache[k] # None
       THEN req' = [req EXCEPT ![c] = Served(r, cache[k])] /\ UNCHANGED flight
       ELSE flight' = [flight EXCEPT ![k] = c] /\ Goto(c, "fetch")
    /\ UNCHANGED <<cache, failures, open, faults>>

\* fetchLive, fetchVod.
Fetched(c) ==
  LET r == req[c]
      owner == IF r.guarded THEN "anonymous" ELSE r.viewer IN
    /\ r.at = "fetch" /\ ~r.gone
    /\ r.guarded \/ r.viewer \in Entitled
    /\ cache' = [cache EXCEPT ![Key(r)] = owner]
    /\ Land(c, LAMBDA q : Served(q, owner))
    /\ UNCHANGED <<failures, open, faults>>

\* It fails when Twitch refuses the viewer's OAuth token, when the caller is gone, or so.
FetchFails(c) ==
  LET r == req[c]  refused == ~r.guarded /\ ~(r.viewer \in Entitled) IN
    /\ r.at = "fetch"
    /\ IF r.gone \/ refused THEN UNCHANGED faults
       ELSE faults < MaxFaults /\ faults' = faults + 1
    /\ Land(c, Failed)
    /\ UNCHANGED <<cache, failures, open>>

\* The pause before the second try ends at once when the caller is gone, with an error.
Retry(c) ==
  /\ req[c].at = "retry"
  /\ Goto(c, IF req[c].gone THEN "report" ELSE "look")
  /\ UNCHANGED <<cache, flight, failures, open, faults>>

\* What Breaker.Do does after the call: a success does not close what others have opened.
Report(c) ==
  /\ req[c].at = "report"
  /\ IF req[c].token # None THEN failures' = 0 /\ UNCHANGED open
     ELSE IF failures + 1 >= Threshold THEN failures' = 0 /\ open' = TRUE
     ELSE failures' = failures + 1 /\ UNCHANGED open
  /\ Goto(c, "end")
  /\ UNCHANGED <<cache, flight, faults>>

-----------------------------------------------------------------------------

Leave(c) ==
  /\ ~(req[c].at \in {"idle", "end"}) /\ ~req[c].gone
  /\ faults < MaxFaults /\ faults' = faults + 1
  /\ req' = [req EXCEPT ![c].gone = TRUE]
  /\ UNCHANGED <<cache, flight, failures, open>>

CoolDown ==
  /\ open /\ open' = FALSE
  /\ UNCHANGED <<cache, flight, req, failures, faults>>

Expire(k) ==
  /\ cache[k] # None
  /\ cache' = [cache EXCEPT ![k] = None]
  /\ UNCHANGED <<flight, req, failures, open, faults>>

Next ==
  \/ \E c \in Callers : \/ Begin(c) \/ Gate(c) \/ Look(c) \/ Join(c) \/ Fetched(c)
                        \/ FetchFails(c) \/ Retry(c) \/ Report(c) \/ Leave(c)
  \/ CoolDown
  \/ \E k \in CacheKeys : Expire(k)

Spec == Init /\ [][Next]_vars

-----------------------------------------------------------------------------

\* A token that was fetched with the OAuth token of a viewer is played with only by starts
\* that are signed in and hand on an OAuth token of their own, and only if Twitch took the
\* OAuth token it was fetched with; every other start plays with the token of everybody.
\* The viewer need not be the one who starts: the key of such a token, "vod:<id>:oauth",
\* names no viewer (Vod), so whoever is signed in is handed what another one has fetched.
\* What fetchVodPlaybackToken says of the OAuth token handed on to streamlink ("non-empty
\* only when the viewer token worked") then need not hold of the one who starts.
AnonymousIsAnonymous ==
  \A c \in Callers :
    LET r == req[c] IN
      r.token # None => IF r.oauth THEN r.viewer # None /\ r.token \in Entitled
                                   ELSE r.token = "anonymous"
=============================================================================
