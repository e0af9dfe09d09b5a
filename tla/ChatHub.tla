------------------------------ MODULE ChatHub ------------------------------
(***************************************************************************)
(* The chat hub (internal/chat/hub/hub.go): websocket clients subscribe to *)
(* channels and unsubscribe from them; the first subscriber of a channel   *)
(* joins it upstream and opens a Redis feed for it; the last one to leave  *)
(* starts a goroutine that, after a grace period, parts the channel and    *)
(* closes the feed.                                                        *)
(*                                                                         *)
(* A step is what runs under one hold of the hub's lock, or one call made  *)
(* without it.  Upstream is the pool of IRC connections: Join counts up,   *)
(* Part counts down and never below zero (ircconn.go:45-51, 80-87).  The   *)
(* subscriber of the service never returns an error (pubsub.go:34-43), so  *)
(* the branch for one is left out, as are the frames, what they carry and  *)
(* the queue each client has for them.                                     *)
(***************************************************************************)
EXTENDS Naturals, FiniteSets

CONSTANTS
  Channels,
  Clients,   (* websocket connections, each served by a read loop           *)
  Feeds,     (* bound: Redis subscriptions that exist at the same time      *)
  MaxGrace,  (* bound: grace goroutines of one channel                      *)
  MaxJoins,  (* bound: joins of one channel counted upstream                *)
  None       (* no channel, no feed                                         *)

ASSUME ChatHubAssumption ==
  /\ IsFiniteSet(Feeds)
  /\ MaxGrace \in Nat \ {0}
  /\ MaxJoins \in Nat \ {0}
  /\ None \notin Channels \cup Feeds

VARIABLES
  pc, arg, hold,     (* per client: its read loop's program counter, the      *)
                     (* channel it is subscribing to, the feed it has opened  *)
  wants,             (* per client: the channels of its connection            *)
  told,              (* per client: channels whose last status it was sent    *)
                     (* is "subscribed"                                       *)
  members,           (* per channel: the subscribers (chanClients)            *)
  unsubs,            (* per channel: the feed whose unsubscribe is kept       *)
  open,              (* the feeds that are open                               *)
  joins,             (* per channel: joins counted upstream                   *)
  sleeping, parting, (* per channel: grace goroutines that sleep, that have   *)
  clearing           (* seen no subscriber, and that have parted upstream     *)

clientVars == <<pc, arg, hold, wants, told>>
hubVars    == <<members, unsubs>>
worldVars  == <<open, joins>>
graceVars  == <<sleeping, parting, clearing>>
vars == <<clientVars, hubVars, worldVars, graceVars>>

Counts == [Channels -> 0 .. MaxGrace]

TypeOK ==
  /\ pc \in [Clients -> {"off", "idle", "join", "listen", "wire", "tell", "leave"}]
  /\ arg \in [Clients -> Channels \cup {None}]
  /\ hold \in [Clients -> Feeds \cup {None}]
  /\ wants \in [Clients -> SUBSET Channels]
  /\ told \in [Clients -> SUBSET Channels]
  /\ members \in [Channels -> SUBSET Clients]
  /\ unsubs \in [Channels -> Feeds \cup {None}]
  /\ open \in SUBSET Feeds
  /\ joins \in [Channels -> 0 .. MaxJoins]
  /\ sleeping \in Counts /\ parting \in Counts /\ clearing \in Counts

Init ==
  /\ pc = [c \in Clients |-> "off"]
  /\ arg = [c \in Clients |-> None]
  /\ hold = [c \in Clients |-> None]
  /\ wants = [c \in Clients |-> {}]
  /\ told = [c \in Clients |-> {}]
  /\ members = [ch \in Channels |-> {}]
  /\ unsubs = [ch \in Channels |-> None]
  /\ open = {}
  /\ joins = [ch \in Channels |-> 0]
  /\ sleeping = [ch \in Channels |-> 0]
  /\ parting = [ch \in Channels |-> 0]
  /\ clearing = [ch \in Channels |-> 0]

-----------------------------------------------------------------------------

Goto(c, at, ch, f) ==
  /\ pc' = [pc EXCEPT ![c] = at]
  /\ arg' = [arg EXCEPT ![c] = ch]
  /\ hold' = [hold EXCEPT ![c] = f]

Connect(c) ==
  /\ pc[c] = "off"
  /\ Goto(c, "idle", None, None)
  /\ UNCHANGED <<wants, told, hubVars, worldVars, graceVars>>

-----------------------------------------------------------------------------
(* subscribe.                                                              *)

Subscribe(c, ch) ==
  /\ pc[c] = "idle"
  /\ wants' = [wants EXCEPT ![c] = @ \cup {ch}]
  /\ members' = [members EXCEPT ![ch] = @ \cup {c}]
  /\ Goto(c, IF members[ch] = {} THEN "join" ELSE "tell", ch, None)
  /\ UNCHANGED <<told, unsubs, worldVars, graceVars>>

\* Bound: joins counted upstream.
JoinUpstream(c) ==
  /\ pc[c] = "join"
  /\ joins[arg[c]] < MaxJoins
  /\ joins' = [joins EXCEPT ![arg[c]] = @ + 1]
  /\ Goto(c, "listen", arg[c], None)
  /\ UNCHANGED <<wants, told, hubVars, open, graceVars>>

Listen(c) ==
  /\ pc[c] = "listen"
  /\ \E f \in Feeds \ open :
       /\ open' = open \cup {f}
       /\ Goto(c, "wire", arg[c], f)
  /\ UNCHANGED <<wants, told, hubVars, joins, graceVars>>

\* Mutant: the feed that is replaced stays open.
WireOver(c) ==
  /\ pc[c] = "wire"
  /\ unsubs' = [unsubs EXCEPT ![arg[c]] = hold[c]]
  /\ Goto(c, "tell", arg[c], None)
  /\ UNCHANGED <<wants, told, members, worldVars, graceVars>>

\* Keep the new feed's unsubscribe; close the one it replaces.
Wire(c) ==
  /\ pc[c] = "wire"
  /\ open' = open \ {unsubs[arg[c]]}
  /\ unsubs' = [unsubs EXCEPT ![arg[c]] = hold[c]]
  /\ Goto(c, "tell", arg[c], None)
  /\ UNCHANGED <<wants, told, members, joins, graceVars>>

Tell(c) ==
  /\ pc[c] = "tell"
  /\ told' = [told EXCEPT ![c] = @ \cup {arg[c]}]
  /\ Goto(c, "idle", None, None)
  /\ UNCHANGED <<wants, hubVars, worldVars, graceVars>>

-----------------------------------------------------------------------------
(* unsubscribe, and removeClient once the socket has failed.               *)

Drop(c, ch) ==
  /\ wants' = [wants EXCEPT ![c] = @ \ {ch}]
  /\ told' = [told EXCEPT ![c] = @ \ {ch}]
  /\ members' = [members EXCEPT ![ch] = @ \ {c}]
  /\ IF members[ch] \ {c} = {}
       THEN sleeping[ch] < MaxGrace /\ sleeping' = [sleeping EXCEPT ![ch] = @ + 1]
       ELSE UNCHANGED sleeping
  /\ UNCHANGED <<unsubs, worldVars, parting, clearing>>

\* The client need not be subscribed.
Unsubscribe(c, ch) ==
  /\ pc[c] = "idle"
  /\ Drop(c, ch)
  /\ UNCHANGED <<pc, arg, hold>>

Leave(c) ==
  /\ pc[c] = "idle"
  /\ Goto(c, "leave", None, None)
  /\ UNCHANGED <<wants, told, hubVars, worldVars, graceVars>>

\* Mutant: a client that goes is not unsubscribed.
RemoveForgets(c) ==
  /\ pc[c] = "leave"
  /\ Goto(c, "off", None, None)
  /\ wants' = [wants EXCEPT ![c] = {}]
  /\ told' = [told EXCEPT ![c] = {}]
  /\ UNCHANGED <<hubVars, worldVars, graceVars>>

Remove(c) ==
  /\ pc[c] = "leave"
  /\ \/ \E ch \in wants[c] :
          /\ Drop(c, ch)
          /\ UNCHANGED <<pc, arg, hold>>
     \/ /\ wants[c] = {}
        /\ Goto(c, "off", None, None)
        /\ UNCHANGED <<wants, told, hubVars, worldVars, graceVars>>

-----------------------------------------------------------------------------
(* The grace goroutine.                                                    *)

Fewer(n, ch) == [n EXCEPT ![ch] = @ - 1]
More(n, ch)  == [n EXCEPT ![ch] = @ + 1]

\* Somebody has subscribed meanwhile.
GraceSkip(ch) ==
  /\ sleeping[ch] > 0
  /\ members[ch] # {}
  /\ sleeping' = Fewer(sleeping, ch)
  /\ UNCHANGED <<clientVars, hubVars, worldVars, parting, clearing>>

GraceCheck(ch) ==
  /\ sleeping[ch] > 0
  /\ parting[ch] < MaxGrace
  /\ members[ch] = {}
  /\ sleeping' = Fewer(sleeping, ch)
  /\ parting' = More(parting, ch)
  /\ UNCHANGED <<clientVars, hubVars, worldVars, clearing>>

\* From here on the answer is not looked at again.
GracePart(ch) ==
  /\ parting[ch] > 0
  /\ clearing[ch] < MaxGrace
  /\ parting' = Fewer(parting, ch)
  /\ clearing' = More(clearing, ch)
  /\ joins' = [joins EXCEPT ![ch] = IF @ = 0 THEN 0 ELSE @ - 1]
  /\ UNCHANGED <<clientVars, hubVars, open, sleeping>>

\* Mutant: the subscribers' entry is left alone.
GraceKeeps(ch) ==
  /\ clearing[ch] > 0
  /\ clearing' = Fewer(clearing, ch)
  /\ open' = open \ {unsubs[ch]}
  /\ unsubs' = [unsubs EXCEPT ![ch] = None]
  /\ UNCHANGED <<clientVars, members, joins, sleeping, parting>>

\* Close the feed and delete the channel's entry, whoever is in it by now.
GraceClear(ch) ==
  /\ clearing[ch] > 0
  /\ clearing' = Fewer(clearing, ch)
  /\ open' = open \ {unsubs[ch]}
  /\ unsubs' = [unsubs EXCEPT ![ch] = None]
  /\ members' = [members EXCEPT ![ch] = {}]
  /\ UNCHANGED <<clientVars, joins, sleeping, parting>>

-----------------------------------------------------------------------------

ReadLoop(c) ==
  \/ JoinUpstream(c) \/ Listen(c) \/ Wire(c) \/ Tell(c) \/ Remove(c)

Frames(c) ==
  \/ Connect(c) \/ Leave(c)
  \/ \E ch \in Channels : Subscribe(c, ch) \/ Unsubscribe(c, ch)

Grace(ch) ==
  \/ GraceSkip(ch) \/ GraceCheck(ch) \/ GracePart(ch) \/ GraceClear(ch)

Next ==
  \/ \E c \in Clients : Frames(c) \/ ReadLoop(c)
  \/ \E ch \in Channels : Grace(ch)

Spec == Init /\ [][Next]_vars

\* Read loops in the middle of a frame and grace goroutines run on; clients need
\* not send anything.
Fairness ==
  /\ \A c \in Clients : WF_vars(ReadLoop(c))
  /\ \A ch \in Channels : WF_vars(Grace(ch))

FairSpec == Spec /\ Fairness

-----------------------------------------------------------------------------

\* A subscribe of the channel by its first subscriber, or a teardown, is under way.
Busy(ch) ==
  \/ parting[ch] + clearing[ch] > 0
  \/ \E c \in Clients : arg[c] = ch /\ pc[c] \in {"join", "listen", "wire"}

(***************************************************************************)
(* Every open Redis feed is the one whose unsubscribe the hub keeps for a  *)
(* channel, or is in the hands of the subscribe that has just opened it:   *)
(* none leaks, however subscribes and teardowns overlap (hub.go:184-189,   *)
(* 219-225).                                                               *)
(***************************************************************************)
NoFeedLeaks ==
  open = ({unsubs[ch] : ch \in Channels} \cup {hold[c] : c \in Clients}) \ {None}

(***************************************************************************)
(* Once no subscribe and no teardown of a channel is under way, a channel  *)
(* with subscribers is joined upstream and has a feed, although a late     *)
(* teardown may have parted and closed it under a new subscriber           *)
(* (hub.go:172-190, 209-228).                                              *)
(***************************************************************************)
SubscribersServed ==
  \A ch \in Channels : members[ch] # {} /\ ~Busy(ch) => joins[ch] > 0 /\ unsubs[ch] # None

\* When nobody wants a channel any more its feed is closed, unless somebody
\* subscribes again (the grace goroutine of hub.go:209-228).
IdleFeedsClose ==
  \A ch \in Channels :
    (\A c \in Clients : ch \notin wants[c])
      ~> (unsubs[ch] = None \/ \E c \in Clients : ch \in wants[c])

(***************************************************************************)
(* A client whose last status for a channel is "subscribed" is one of the  *)
(* channel's subscribers (TestSubscribeEmitsStatus, hub_test.go:77-84,     *)
(* expects the status of every successful subscribe).                      *)
(***************************************************************************)
SubscribedIsServed ==
  \A c \in Clients : \A ch \in told[c] : c \in members[ch]

=============================================================================
