------------------------------ MODULE Accounts ------------------------------
(***************************************************************************)
(* Sign-in of the chat service (internal/chat/auth): sessions kept in      *)
(* Redis, the ways to obtain one (a token brought in, a prepared token     *)
(* claimed by link or by "latest", Twitch's device flow), their use with   *)
(* the refresh of a token that is about to expire, and logout.             *)
(*                                                                         *)
(* A step of a handler is one Redis transaction, one call to Twitch, or    *)
(* the response that sets or clears the browser's cookie.  A claim and the *)
(* session it stands for are made together, so the session names both.     *)
(* Twitch accepts a refresh token once and issues the next: a token is its *)
(* generation.  What a user or a token says is left out.                   *)
(***************************************************************************)
EXTENDS Naturals, FiniteSets

CONSTANTS
  Browsers,
  Local,     (* the browsers allowed to bring in tokens: import is switched  *)
             (* on and their host or origin is a loopback address            *)
  Handlers,  (* bound: requests under way at the same time                   *)
  Sessions,  (* bound: session ids ever drawn                                *)
  Devices,   (* bound: device authorizations ever started                    *)
  MaxGen,    (* bound: generations of the tokens of one session              *)
  None

VARIABLES
  req,       (* per handler: where it is, what it was asked and by whom, the  *)
             (* session and the record it holds                               *)
  session,   (* per session id: the stored record, or None                    *)
  claims,    (* the claims that wait                                          *)
  latest,    (* the claim that "latest" points to                             *)
  device,    (* the device authorizations that are stored                     *)
  cookie,    (* per browser: the session its cookie names                     *)
  drawn,     (* ids drawn so far                                              *)
  code,      (* Twitch: per device authorization, what became of its code     *)
  granted,   (* Twitch: per session, the generation it issued last            *)
  aged,      (* per session: the last generation that is about to expire      *)
  ended,     (* history: sessions deleted by a logout                         *)
  revived    (* history: sessions a refresh wrote after their logout          *)

storeVars  == <<session, claims, latest, device>>
twitchVars == <<code, granted, aged>>
history    == <<ended, revived>>
vars == <<req, storeVars, cookie, drawn, twitchVars, history>>

Steps == {"idle", "vouch", "name", "save", "point", "pick", "take", "unpoint", "load", "keep",
          "answer", "read", "renew", "store", "refuse", "destroy", "clear", "look", "exchange"}
Kinds == {"import", "prepare", "claim", "poll", "me", "send", "logout", "none"}

\* What Redis keeps of a session: the generation of its tokens, whether there is a refresh
\* token, and whether it was stored for thirty days or for the ten minutes of a claim.
Record == [gen : 1 .. MaxGen, renew : BOOLEAN, long : BOOLEAN]

Rest == [at |-> "idle", kind |-> "none", who |-> None, sid |-> None, hand |-> None]

TypeOK ==
  /\ req \in [Handlers -> [at : Steps, kind : Kinds, who : Browsers \cup {None},
                           sid : Sessions \cup Devices \cup {None},
                           hand : Record \cup {None}]]
  /\ session \in [Sessions -> Record \cup {None}]
  /\ claims \in SUBSET Sessions
  /\ latest \in Sessions \cup {None}
  /\ device \in SUBSET Devices
  /\ cookie \in [Browsers -> Sessions \cup {None}]
  /\ drawn \in SUBSET (Sessions \cup Devices)
  /\ code \in [Devices -> {"open", "granted", "denied", "spent"}]
  /\ granted \in [Sessions -> 1 .. MaxGen]
  /\ aged \in [Sessions -> 0 .. MaxGen]
  /\ ended \in SUBSET Sessions /\ revived \in SUBSET Sessions

Init ==
  /\ req = [h \in Handlers |-> Rest]
  /\ session = [s \in Sessions |-> None]
  /\ claims = {} /\ latest = None /\ device = {}
  /\ cookie = [b \in Browsers |-> None]
  /\ drawn = {}
  /\ code = [d \in Devices |-> "open"]
  /\ granted = [s \in Sessions |-> 1]
  /\ aged = [s \in Sessions |-> 0]
  /\ ended = {} /\ revived = {}

-----------------------------------------------------------------------------

At(h, where) == req[h].at = where

Goto(h, where) == req' = [req EXCEPT ![h].at = where]

\* The handler answers and is done; nothing it holds is kept.
Done(h) == req' = [req EXCEPT ![h] = Rest]

Ask(h, where, kind, b, s) ==
  /\ At(h, "idle")
  /\ req' = [req EXCEPT ![h] = [at |-> where, kind |-> kind, who |-> b, sid |-> s,
                                hand |-> None]]
  /\ UNCHANGED <<storeVars, cookie, drawn, twitchVars, history>>

Fails(h, where) ==
  /\ At(h, where)
  /\ Done(h)
  /\ UNCHANGED <<storeVars, cookie, drawn, twitchVars, history>>

-----------------------------------------------------------------------------
(* createImportedSession, for a token that is imported, prepared, or the    *)
(* result of a device authorization.                                        *)

Allowed(b) == b \in Local

Import(h, b)  == Allowed(b) /\ Ask(h, "vouch", "import", b, None)
Prepare(h, b) == Allowed(b) /\ Ask(h, "vouch", "prepare", b, None)

\* Twitch vouches for the token.
Vouched(h) ==
  /\ At(h, "vouch")
  /\ Goto(h, "name")
  /\ UNCHANGED <<storeVars, cookie, drawn, twitchVars, history>>

\* Twitch names its user; an id is drawn.
Named(h) ==
  /\ At(h, "name")
  /\ \E s \in Sessions \ drawn, renew \in BOOLEAN :
       /\ drawn' = drawn \cup {s}
       /\ req' = [req EXCEPT ![h].at = "save", ![h].sid = s,
                    ![h].hand = [gen |-> 1, renew |-> renew, long |-> req[h].kind # "prepare"]]
  /\ UNCHANGED <<storeVars, cookie, twitchVars, history>>

Saved(h) ==
  /\ At(h, "save")
  /\ session' = [session EXCEPT ![req[h].sid] = req[h].hand]
  /\ Goto(h, IF req[h].kind = "prepare" THEN "point" ELSE "answer")
  /\ UNCHANGED <<claims, latest, device, cookie, drawn, twitchVars, history>>

\* SetDevClaim: the claim and the pointer to it in one transaction.
Point(h) ==
  /\ At(h, "point")
  /\ claims' = claims \cup {req[h].sid}
  /\ latest' = req[h].sid
  /\ Done(h)
  /\ UNCHANGED <<session, device, cookie, drawn, twitchVars, history>>

\* The response that carries the cookie.
Answer(h) ==
  /\ At(h, "answer")
  /\ cookie' = [cookie EXCEPT ![req[h].who] = req[h].sid]
  /\ Done(h)
  /\ UNCHANGED <<storeVars, drawn, twitchVars, history>>

-----------------------------------------------------------------------------
(* Claiming a prepared token, by its link or the latest there is.           *)

ClaimLink(h, b) ==
  Allowed(b) /\ \E s \in drawn \cap Sessions : Ask(h, "take", "claim", b, s)

ClaimLatest(h, b) == Allowed(b) /\ Ask(h, "pick", "claim", b, None)

\* GETDEL of the pointer.
Pick(h) ==
  /\ At(h, "pick")
  /\ latest' = None
  /\ IF latest = None THEN Done(h)
     ELSE req' = [req EXCEPT ![h].at = "take", ![h].sid = latest]
  /\ UNCHANGED <<session, claims, device, cookie, drawn, twitchVars, history>>

\* Mutant: the claim is read and not deleted.
TakeLeaves(h) ==
  /\ At(h, "take")
  /\ IF req[h].sid \in claims
       THEN Goto(h, IF latest = req[h].sid THEN "unpoint" ELSE "load")
       ELSE Done(h)
  /\ UNCHANGED <<storeVars, cookie, drawn, twitchVars, history>>

\* TakeDevClaim: GET and DEL of the claim and GET of the pointer in one transaction.
Take(h) ==
  /\ At(h, "take")
  /\ claims' = claims \ {req[h].sid}
  /\ IF req[h].sid \in claims
       THEN Goto(h, IF latest = req[h].sid THEN "unpoint" ELSE "load")
       ELSE Done(h)
  /\ UNCHANGED <<session, latest, device, cookie, drawn, twitchVars, history>>

\* DEL of the pointer, wherever it points by now.
Unpoint(h) ==
  /\ At(h, "unpoint")
  /\ latest' = None
  /\ Goto(h, "load")
  /\ UNCHANGED <<session, claims, device, cookie, drawn, twitchVars, history>>

Load(h) ==
  /\ At(h, "load")
  /\ IF session[req[h].sid] = None THEN Done(h)
     ELSE req' = [req EXCEPT ![h].at = "keep", ![h].hand = session[req[h].sid]]
  /\ UNCHANGED <<storeVars, cookie, drawn, twitchVars, history>>

\* The session is written back as it was read, now for thirty days.
Keep(h) ==
  /\ At(h, "keep")
  /\ session' = [session EXCEPT ![req[h].sid] = [req[h].hand EXCEPT !.long = TRUE]]
  /\ Goto(h, "answer")
  /\ UNCHANGED <<claims, latest, device, cookie, drawn, twitchVars, history>>

-----------------------------------------------------------------------------
(* The device flow.                                                         *)

StartDevice(h, b) ==
  /\ Allowed(b) /\ At(h, "idle")
  /\ \E d \in Devices \ drawn :
       /\ drawn' = drawn \cup {d}
       /\ device' = device \cup {d}
  /\ UNCHANGED <<req, session, claims, latest, cookie, twitchVars, history>>

PollDevice(h, b) ==
  Allowed(b) /\ \E d \in Devices \cap drawn : Ask(h, "look", "poll", b, d)

Look(h) ==
  /\ At(h, "look")
  /\ IF req[h].sid \in device THEN Goto(h, "exchange") ELSE Done(h)
  /\ UNCHANGED <<storeVars, cookie, drawn, twitchVars, history>>

\* Twitch's answer: not yet; denied or no longer valid, which ends the authorization; or the
\* token, which ends it before the session is made.
Exchange(h) ==
  LET d == req[h].sid IN
  /\ At(h, "exchange")
  /\ CASE code[d] = "open"    -> Done(h) /\ UNCHANGED <<device, code>>
       [] code[d] = "granted" -> /\ device' = device \ {d}
                                 /\ code' = [code EXCEPT ![d] = "spent"]
                                 /\ req' = [req EXCEPT ![h].at = "vouch", ![h].sid = None]
       [] OTHER               -> Done(h) /\ device' = device \ {d} /\ UNCHANGED code
  /\ UNCHANGED <<session, claims, latest, cookie, drawn, granted, aged, history>>

\* The answer that carried the token does not arrive.
ExchangeLost(h) ==
  /\ At(h, "exchange") /\ code[req[h].sid] = "granted"
  /\ code' = [code EXCEPT ![req[h].sid] = "spent"]
  /\ Done(h)
  /\ UNCHANGED <<storeVars, cookie, drawn, granted, aged, history>>

\* The user answers Twitch.
Decide(d) ==
  /\ d \in drawn /\ code[d] = "open"
  /\ \E answer \in {"granted", "denied"} : code' = [code EXCEPT ![d] = answer]
  /\ UNCHANGED <<req, storeVars, cookie, drawn, granted, aged, history>>

-----------------------------------------------------------------------------
(* Session: the use of a signed-in session, by /v1/me and /v1/me/followed   *)
(* ("me") or by a caller that leaves the cookie alone ("send").             *)

Use(h, b) ==
  \E kind \in {"me", "send"} :
    cookie[b] # None /\ Ask(h, "read", kind, b, cookie[b])

Due(rec, s) == rec.gen <= aged[s]

Read(h) ==
  LET s == req[h].sid
      rec == session[s] IN
  /\ At(h, "read")
  /\ CASE rec = None                -> Goto(h, "refuse")
       [] rec # None /\ ~Due(rec, s) -> Done(h)
       [] rec # None /\ Due(rec, s) /\ ~rec.renew -> Goto(h, "refuse")
       [] OTHER -> req' = [req EXCEPT ![h].at = "renew", ![h].hand = rec]
  /\ UNCHANGED <<storeVars, cookie, drawn, twitchVars, history>>

\* Twitch takes the refresh token and issues the next generation; a token it has taken before
\* it refuses.
Renewed(h) ==
  LET s == req[h].sid IN
  /\ At(h, "renew")
  /\ IF req[h].hand.gen = granted[s]
       THEN /\ granted[s] < MaxGen
            /\ granted' = [granted EXCEPT ![s] = @ + 1]
            /\ req' = [req EXCEPT ![h].at = "store",
                         ![h].hand = [gen |-> granted[s] + 1, renew |-> TRUE, long |-> TRUE]]
       ELSE Goto(h, "refuse") /\ UNCHANGED granted
  /\ UNCHANGED <<storeVars, cookie, drawn, code, aged, history>>

\* The call fails: before it reached Twitch, or with the answer lost.
RenewFails(h) ==
  LET s == req[h].sid IN
  /\ At(h, "renew")
  /\ \/ UNCHANGED granted
     \/ /\ req[h].hand.gen = granted[s] /\ granted[s] < MaxGen
        /\ granted' = [granted EXCEPT ![s] = @ + 1]
  /\ Goto(h, "refuse")
  /\ UNCHANGED <<storeVars, cookie, drawn, code, aged, ended, revived>>

Store(h) ==
  LET s == req[h].sid IN
  /\ At(h, "store")
  /\ session' = [session EXCEPT ![s] = req[h].hand]
  /\ revived' = IF s \in ended THEN revived \cup {s} ELSE revived
  /\ Done(h)
  /\ UNCHANGED <<claims, latest, device, cookie, drawn, twitchVars, ended>>

StoreFails(h) ==
  /\ At(h, "store")
  /\ Goto(h, "refuse")
  /\ UNCHANGED <<storeVars, cookie, drawn, twitchVars, ended, revived>>

\* "me" clears the cookie, whichever the browser holds by now.
Refuse(h) ==
  /\ At(h, "refuse")
  /\ cookie' = IF req[h].kind = "me" THEN [cookie EXCEPT ![req[h].who] = None] ELSE cookie
  /\ Done(h)
  /\ UNCHANGED <<storeVars, drawn, twitchVars, history>>

-----------------------------------------------------------------------------
(* logout.                                                                  *)

Logout(h, b) ==
  Ask(h, IF cookie[b] = None THEN "clear" ELSE "destroy", "logout", b, cookie[b])

\* Mutant: the cookie goes, the session stays.
DestroyNothing(h) ==
  /\ At(h, "destroy")
  /\ ended' = ended \cup {req[h].sid}
  /\ Goto(h, "clear")
  /\ UNCHANGED <<storeVars, cookie, drawn, twitchVars, revived>>

\* A deletion that fails is ignored.
Destroy(h) ==
  /\ At(h, "destroy")
  /\ \/ /\ session' = [session EXCEPT ![req[h].sid] = None]
        /\ ended' = ended \cup {req[h].sid}
     \/ UNCHANGED <<session, ended>>
  /\ Goto(h, "clear")
  /\ UNCHANGED <<claims, latest, device, cookie, drawn, twitchVars, revived>>

Clear(h) ==
  /\ At(h, "clear")
  /\ cookie' = [cookie EXCEPT ![req[h].who] = None]
  /\ Done(h)
  /\ UNCHANGED <<storeVars, drawn, twitchVars, history>>

-----------------------------------------------------------------------------
(* Time.                                                                    *)

Expire ==
  /\ \/ /\ \E s \in Sessions : session[s] # None /\ session' = [session EXCEPT ![s] = None]
        /\ UNCHANGED <<claims, latest, device>>
     \/ /\ \E s \in claims : claims' = claims \ {s}
        /\ UNCHANGED <<session, latest, device>>
     \/ /\ latest # None /\ latest' = None
        /\ UNCHANGED <<session, claims, device>>
     \/ /\ \E d \in device : device' = device \ {d}
        /\ UNCHANGED <<session, claims, latest>>
  /\ UNCHANGED <<req, cookie, drawn, twitchVars, history>>

Age(s) ==
  /\ aged[s] < granted[s]
  /\ aged' = [aged EXCEPT ![s] = granted[s]]
  /\ UNCHANGED <<req, storeVars, cookie, drawn, code, granted, history>>

-----------------------------------------------------------------------------

\* The requests of a browser; several may be under way.
Request(h, b) ==
  \/ Import(h, b) \/ Prepare(h, b) \/ ClaimLink(h, b) \/ ClaimLatest(h, b)
  \/ StartDevice(h, b) \/ PollDevice(h, b) \/ Use(h, b) \/ Logout(h, b)

Step(h) ==
  \/ Vouched(h) \/ Named(h) \/ Saved(h) \/ Point(h) \/ Answer(h)
  \/ Pick(h) \/ Take(h) \/ Unpoint(h) \/ Load(h) \/ Keep(h)
  \/ Look(h) \/ Exchange(h) \/ ExchangeLost(h)
  \/ Read(h) \/ Renewed(h) \/ RenewFails(h) \/ Store(h) \/ StoreFails(h) \/ Refuse(h)
  \/ Destroy(h) \/ Clear(h)
  \/ \E where \in {"vouch", "name", "save", "point", "pick", "take", "load", "keep", "look", "exchange"} :
       Fails(h, where)

Next ==
  \/ \E h \in Handlers : Step(h) \/ \E b \in Browsers : Request(h, b)
  \/ \E s \in Sessions : Age(s)
  \/ \E d \in Devices : Decide(d)
  \/ Expire

Spec == Init /\ [][Next]_vars

-----------------------------------------------------------------------------

(***************************************************************************)
(* No two browsers hold the same session: a prepared token is claimed once *)
(* although link and "latest" lead to it and both may be opened at the     *)
(* same time (TakeDevClaim and TakeLatestDevClaim, store.go:62-91).        *)
(***************************************************************************)
SessionNotShared ==
  \A b1, b2 \in Browsers : cookie[b1] = cookie[b2] /\ cookie[b1] # None => b1 = b2

(***************************************************************************)
(* A session that was logged out is gone from the store, unless a refresh  *)
(* that had read it before has written it back (logout, handler.go:585;    *)
(* Session, handler.go:216).                                               *)
(***************************************************************************)
LogoutRevokes == \A s \in ended : session[s] # None => s \in revived

=============================================================================
