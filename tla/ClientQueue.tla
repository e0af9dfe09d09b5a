---------------------------- MODULE ClientQueue ----------------------------
(***************************************************************************)
(* What one websocket client of the chat hub is sent                       *)
(* (internal/chat/hub/hub.go).  Every channel's feed has a goroutine that  *)
(* broadcasts its frames one after the other; the client's own read loop   *)
(* answers its frames and sends its messages.  All of them deliver to the  *)
(* client's queue, without the hub's lock: a queue that is full gives up   *)
(* its oldest frame, and the new one is put in if there is still room.  A  *)
(* write loop empties the queue into the socket.  When the socket fails    *)
(* the client is taken out of its channels and the queue is closed; to     *)
(* send to it then is a panic, which ends the process.                     *)
(*                                                                         *)
(* The hub's other tables are in ChatHub.  A frame is the one who          *)
(* delivers it and its number.                                             *)
(***************************************************************************)
EXTENDS Naturals, Sequences

CONSTANTS
  Feeds,     (* the channels' feeds                                          *)
  Size,      (* queueSize                                                    *)
  MaxFrames  (* bound: frames of a feed, and of the read loop                *)

VARIABLES
  at,       (* per sender: where it is in deliver                            *)
  made,     (* per sender: the frames it has delivered, or is delivering     *)
  wants,    (* the feeds of the client's channels                            *)
  members,  (* the feeds whose channel has the client among its subscribers  *)
  loop,     (* the read loop: reading, with a message to send, or leaving    *)
  queue,    (* the client's queue                                            *)
  closed,   (* the queue is closed                                           *)
  writing,  (* the write loop runs                                           *)
  written,  (* per sender: its last frame that went into the socket          *)
  panicked  (* the process has ended                                         *)

vars == <<at, made, wants, members, loop, queue, closed, writing, written, panicked>>

Senders == Feeds \cup {"loop"}

Frames == Senders \X Nat

TypeOK ==
  /\ at \in [Senders -> {"idle", "send", "full", "again"}]
  /\ made \in [Senders -> Nat]
  /\ wants \subseteq Feeds /\ members \subseteq Feeds
  /\ loop \in {"reading", "sending", "leaving", "gone"}
  /\ queue \in Seq(Frames)
  /\ closed \in BOOLEAN /\ writing \in BOOLEAN /\ panicked \in BOOLEAN
  /\ written \in [Senders -> Nat]

Init ==
  /\ at = [s \in Senders |-> "idle"]
  /\ made = [s \in Senders |-> 0]
  /\ wants = {} /\ members = {}
  /\ loop = "reading"
  /\ queue = <<>> /\ closed = FALSE
  /\ writing = TRUE
  /\ written = [s \in Senders |-> 0]
  /\ panicked = FALSE

-----------------------------------------------------------------------------
(* deliver: three looks at the queue, each on its own.                     *)

Goto(s, where) == at' = [at EXCEPT ![s] = where]

\* A sender turns to its next frame.
Deliver(s) ==
  /\ ~panicked /\ at[s] = "idle" /\ made[s] < MaxFrames
  /\ made' = [made EXCEPT ![s] = @ + 1]
  /\ Goto(s, "send")

\* A send that does not wait; on a closed queue it panics.
Send(s, otherwise) ==
  /\ ~panicked
  /\ IF closed
     THEN panicked' = TRUE /\ UNCHANGED <<at, queue>>
     ELSE /\ IF Len(queue) < Size
             THEN queue' = Append(queue, <<s, made[s]>>) /\ Goto(s, "idle")
             ELSE Goto(s, otherwise) /\ UNCHANGED queue
          /\ UNCHANGED panicked
  /\ UNCHANGED <<made, wants, members, loop, closed, writing, written>>

SendFirst(s) == at[s] = "send" /\ Send(s, "full")

\* Mutant: the oldest frame goes to the end of the queue.
DropOldestBehind(s) ==
  /\ ~panicked /\ at[s] = "full"
  /\ queue' = IF queue = <<>> THEN queue ELSE Append(Tail(queue), Head(queue))
  /\ Goto(s, "again")
  /\ UNCHANGED <<made, wants, members, loop, closed, writing, written, panicked>>

DropOldest(s) ==
  /\ ~panicked /\ at[s] = "full"
  /\ queue' = IF queue = <<>> THEN queue ELSE Tail(queue)
  /\ Goto(s, "again")
  /\ UNCHANGED <<made, wants, members, loop, closed, writing, written, panicked>>

\* If others have filled the queue meanwhile the frame is lost.
SendAgain(s) == at[s] = "again" /\ Send(s, "idle")

-----------------------------------------------------------------------------
(* The feeds (broadcast).                                                  *)

\* The goroutine copies the subscribers, the client among them.
Broadcast(f) ==
  /\ f \in members
  /\ Deliver(f)
  /\ UNCHANGED <<wants, members, loop, queue, closed, writing, written, panicked>>

\* A late teardown of the channel clears its subscribers, whoever they are (ChatHub).
GraceClear(f) ==
  /\ ~panicked /\ f \in members
  /\ members' = members \ {f}
  /\ UNCHANGED <<at, made, wants, loop, queue, closed, writing, written, panicked>>

-----------------------------------------------------------------------------
(* The read loop, and the write loop.                                      *)

\* subscribe and unsubscribe, answered with a status; frames that ask for nothing
\* valid are answered with an error.
Subscribe(f) ==
  /\ loop = "reading"
  /\ wants' = wants \cup {f} /\ members' = members \cup {f}
  /\ Deliver("loop")
  /\ UNCHANGED <<loop, queue, closed, writing, written, panicked>>

Unsubscribe(f) ==
  /\ loop = "reading"
  /\ wants' = wants \ {f} /\ members' = members \ {f}
  /\ Deliver("loop")
  /\ UNCHANGED <<loop, queue, closed, writing, written, panicked>>

Refuse ==
  /\ loop = "reading"
  /\ Deliver("loop")
  /\ UNCHANGED <<wants, members, loop, queue, closed, writing, written, panicked>>

\* sendMessage: "queued", and after the call upstream "sent" or "send_failed".
Acknowledge ==
  /\ loop = "reading"
  /\ Deliver("loop")
  /\ loop' = "sending"
  /\ UNCHANGED <<wants, members, queue, closed, writing, written, panicked>>

Sent ==
  /\ loop = "sending"
  /\ Deliver("loop")
  /\ loop' = "reading"
  /\ UNCHANGED <<wants, members, queue, closed, writing, written, panicked>>

\* The socket fails: the read loop returns.
SocketFails ==
  /\ ~panicked /\ loop = "reading" /\ at["loop"] = "idle"
  /\ loop' = "leaving"
  /\ UNCHANGED <<at, made, wants, members, queue, closed, writing, written, panicked>>

\* removeClient: the client leaves a channel; its status goes to the queue as well.
LeaveChannel(f) ==
  /\ loop = "leaving" /\ f \in wants
  /\ wants' = wants \ {f} /\ members' = members \ {f}
  /\ Deliver("loop")
  /\ UNCHANGED <<loop, queue, closed, writing, written, panicked>>

\* Mutant: the queue is closed while the client is still in its channels.
CloseFirst ==
  /\ ~panicked /\ loop = "leaving" /\ ~closed /\ at["loop"] = "idle"
  /\ closed' = TRUE
  /\ UNCHANGED <<at, made, wants, members, loop, queue, writing, written, panicked>>

Close ==
  /\ ~panicked /\ loop = "leaving" /\ wants = {} /\ at["loop"] = "idle"
  /\ closed' = TRUE /\ loop' = "gone"
  /\ UNCHANGED <<at, made, wants, members, queue, writing, written, panicked>>

Write ==
  /\ ~panicked /\ writing /\ queue # <<>>
  /\ LET f == Head(queue) IN written' = [written EXCEPT ![f[1]] = f[2]]
  /\ queue' = Tail(queue)
  /\ UNCHANGED <<at, made, wants, members, loop, closed, writing, panicked>>

\* A write fails, or the loop's context ends, or the queue is closed and empty.
WriterEnds ==
  /\ ~panicked /\ writing
  /\ writing' = FALSE
  /\ UNCHANGED <<at, made, wants, members, loop, queue, closed, written, panicked>>

Next ==
  \/ \E s \in Senders : SendFirst(s) \/ DropOldest(s) \/ SendAgain(s)
  \/ \E f \in Feeds :
       Broadcast(f) \/ GraceClear(f) \/ Subscribe(f) \/ Unsubscribe(f) \/ LeaveChannel(f)
  \/ Refuse \/ Acknowledge \/ Sent \/ SocketFails \/ Close \/ Write \/ WriterEnds

Spec == Init /\ [][Next]_vars

-----------------------------------------------------------------------------

\* The frames of one sender reach the browser in the order they were made, and none
\* twice, although any of them may be dropped and several senders make room for one
\* another without a lock (deliver): a channel's messages do not overtake each other, and
\* "sent" does not come before "queued".
InOrder == [][\A s \in Senders : written'[s] # written[s] => written'[s] > written[s]]_vars

\* A queue is closed only when no channel has the client any more and its read loop
\* delivers nothing (removeClient): only a broadcast that copied the subscribers before
\* the client left can still send to it, and panic.
ClosedIsLeft == closed => members = {} /\ at["loop"] = "idle"
=============================================================================
