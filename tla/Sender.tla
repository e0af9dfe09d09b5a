------------------------------- MODULE Sender -------------------------------
(***************************************************************************)
(* The authenticated IRC connection of one signed-in session               *)
(* (internal/chat/ircconn/sender.go), used by the websocket clients of     *)
(* that session (hub.go:233-265): one is kept in a map, dialed when there  *)
(* is none, replaced when two are dialed at once, and dropped when a send  *)
(* fails or its reader ends.                                               *)
(*                                                                         *)
(* A step is what runs under one lock or one call without one.  The dial   *)
(* and the reader run under the context of the client whose message made   *)
(* them.  The flag `closed` is read without its lock at sender.go:79; it   *)
(* only ever becomes true, so a late read is an earlier step of the model. *)
(***************************************************************************)
EXTENDS Naturals, FiniteSets

CONSTANTS
  Clients,   (* websocket connections of the session                         *)
  Conns,     (* bound: IRC connections that exist at the same time           *)
  None

VARIABLES
  alive,     (* the clients that are connected                                *)
  at, using, (* per client: its Send's program counter and connection         *)
  entry,     (* the connection in the map                                     *)
  open,      (* the connections whose socket is open                          *)
  closed,    (* the connections marked closed                                 *)
  reader,    (* per connection: its reader                                    *)
  owner,     (* per connection: the client under whose context it runs        *)
  stray      (* history: a drop took out a connection it was not meant for    *)

callers == <<at, using>>
conns   == <<open, closed, reader, owner>>
vars == <<alive, callers, entry, conns, stray>>

TypeOK ==
  /\ alive \in SUBSET Clients
  /\ at \in [Clients -> {"idle", "lookup", "dial", "hello", "register", "say", "drop"}]
  /\ using \in [Clients -> Conns \cup {None}]
  /\ entry \in Conns \cup {None}
  /\ open \in SUBSET Conns /\ closed \in SUBSET Conns
  /\ reader \in [Conns -> {"none", "reading", "ending"}]
  /\ owner \in [Conns -> Clients \cup {None}]
  /\ stray \in BOOLEAN

Init ==
  /\ alive = {}
  /\ at = [c \in Clients |-> "idle"]
  /\ using = [c \in Clients |-> None]
  /\ entry = None
  /\ open = {} /\ closed = {}
  /\ reader = [o \in Conns |-> "none"]
  /\ owner = [o \in Conns |-> None]
  /\ stray = FALSE

-----------------------------------------------------------------------------

Goto(c, where, o) ==
  /\ at' = [at EXCEPT ![c] = where]
  /\ using' = [using EXCEPT ![c] = o]

\* drop: the map's entry goes, whichever connection it is by now.
Drop(o) ==
  /\ entry' = None
  /\ stray' = (stray \/ (entry \notin {None, o} /\ entry \notin closed))

Connect(c) ==
  /\ c \notin alive
  /\ alive' = alive \cup {c}
  /\ UNCHANGED <<callers, entry, conns, stray>>

\* The client's context ends with the handler of its websocket, which is not within a Send.
Leave(c) ==
  /\ c \in alive /\ at[c] = "idle"
  /\ alive' = alive \ {c}
  /\ UNCHANGED <<callers, entry, conns, stray>>

\* A message of the client whose session resolves; otherwise it is refused at once.
Send(c) ==
  /\ c \in alive /\ at[c] = "idle"
  /\ Goto(c, "lookup", None)
  /\ UNCHANGED <<alive, entry, conns, stray>>

Lookup(c) ==
  /\ at[c] = "lookup"
  /\ IF entry # None /\ entry \notin closed
       THEN Goto(c, "say", entry)
       ELSE Goto(c, "dial", None)
  /\ UNCHANGED <<alive, entry, conns, stray>>

\* A connection that nobody refers to any more stands for the new one.
Unused(o) ==
  /\ o \notin open /\ o # entry /\ reader[o] = "none"
  /\ \A c \in Clients : using[c] # o

Dial(c) ==
  /\ at[c] = "dial"
  /\ \E o \in Conns :
       /\ Unused(o)
       /\ open' = open \cup {o}
       /\ closed' = closed \ {o}
       /\ owner' = [owner EXCEPT ![o] = c]
       /\ Goto(c, "hello", o)
  /\ UNCHANGED <<alive, entry, reader, stray>>

DialFails(c) ==
  /\ at[c] = "dial"
  /\ Goto(c, "idle", None)
  /\ UNCHANGED <<alive, entry, conns, stray>>

\* newAuthSender: PASS, NICK and CAP are written, or the socket is closed.
Hello(c) ==
  /\ at[c] = "hello" /\ using[c] \in open
  /\ Goto(c, "register", using[c])
  /\ UNCHANGED <<alive, entry, conns, stray>>

HelloFails(c) ==
  /\ at[c] = "hello"
  /\ open' = open \ {using[c]}
  /\ owner' = [owner EXCEPT ![using[c]] = None]
  /\ Goto(c, "idle", None)
  /\ UNCHANGED <<alive, entry, closed, reader, stray>>

\* Mutant: the connection that is replaced stays open.
RegisterOver(c) ==
  /\ at[c] = "register"
  /\ entry' = using[c]
  /\ reader' = [reader EXCEPT ![using[c]] = "reading"]
  /\ Goto(c, "say", using[c])
  /\ UNCHANGED <<alive, open, closed, owner, stray>>

\* The connection takes its place in the map; the one it replaces is closed.
Register(c) ==
  /\ at[c] = "register"
  /\ closed' = closed \cup ({entry} \ {None})
  /\ open' = open \ {entry}
  /\ entry' = using[c]
  /\ reader' = [reader EXCEPT ![using[c]] = "reading"]
  /\ Goto(c, "say", using[c])
  /\ UNCHANGED <<alive, owner, stray>>

\* JOIN, if the channel is new to the connection, and the message.
Say(c) ==
  /\ at[c] = "say" /\ using[c] \notin closed /\ using[c] \in open
  /\ Goto(c, "idle", None)
  /\ UNCHANGED <<alive, entry, conns, stray>>

\* It is marked closed, or its socket is.
SayFails(c) ==
  /\ at[c] = "say" /\ (using[c] \in closed \/ using[c] \notin open)
  /\ Goto(c, "drop", using[c])
  /\ UNCHANGED <<alive, entry, conns, stray>>

DropFailed(c) ==
  /\ at[c] = "drop"
  /\ Drop(using[c])
  /\ Goto(c, "idle", None)
  /\ UNCHANGED <<alive, conns>>

-----------------------------------------------------------------------------
(* The reader, and the socket.                                              *)

\* Mutant: the reader does not notice that its client has left.
ReaderBlind(o) ==
  /\ reader[o] = "reading" /\ o \notin open
  /\ reader' = [reader EXCEPT ![o] = "ending"]
  /\ closed' = closed \cup {o}
  /\ UNCHANGED <<alive, callers, entry, open, owner, stray>>

\* The socket is closed, or the context is done, which closes it.
ReaderEnds(o) ==
  /\ reader[o] = "reading"
  /\ o \notin open \/ owner[o] \notin alive
  /\ open' = open \ {o}
  /\ closed' = closed \cup {o}
  /\ reader' = [reader EXCEPT ![o] = "ending"]
  /\ UNCHANGED <<alive, callers, entry, owner, stray>>

ReaderDrops(o) ==
  /\ reader[o] = "ending"
  /\ Drop(o)
  /\ reader' = [reader EXCEPT ![o] = "none"]
  /\ owner' = [owner EXCEPT ![o] = None]
  /\ UNCHANGED <<alive, callers, open, closed>>

\* Twitch or the network ends the connection.
Break(o) ==
  /\ o \in open
  /\ open' = open \ {o}
  /\ UNCHANGED <<alive, callers, entry, closed, reader, owner, stray>>

-----------------------------------------------------------------------------

Sending(c) ==
  \/ Lookup(c) \/ Dial(c) \/ DialFails(c) \/ Hello(c) \/ HelloFails(c)
  \/ Register(c) \/ Say(c) \/ SayFails(c) \/ DropFailed(c)

Reading(o) == ReaderEnds(o) \/ ReaderDrops(o)

Next ==
  \/ \E c \in Clients : Connect(c) \/ Leave(c) \/ Send(c) \/ Sending(c)
  \/ \E o \in Conns : Reading(o) \/ Break(o)

Spec == Init /\ [][Next]_vars

\* A Send runs to its end, its calls have time limits; a reader runs on.
Fairness ==
  /\ \A c \in Clients : WF_vars(Sending(c))
  /\ \A o \in Conns : WF_vars(Reading(o))

FairSpec == Spec /\ Fairness

-----------------------------------------------------------------------------

(***************************************************************************)
(* A session speaks over one connection: as long as no drop has taken out  *)
(* a connection it was not meant for, at most one connection is open and   *)
(* being read, however many sends dial at the same time (sender.go:77-105; *)
(* drop goes by the session, sender.go:107-111).                           *)
(***************************************************************************)
SingleConnection ==
  ~stray => Cardinality({o \in open : reader[o] = "reading"}) <= 1

\* Once the session's last client has left, every connection is closed, also one that is no
\* longer in the map, unless a client comes (readLoop, sender.go:167-189).
SocketsClose == (alive = {}) ~> (open = {} \/ alive # {})

=============================================================================
