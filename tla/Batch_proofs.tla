---------------------------- MODULE Batch_proofs ----------------------------
(***************************************************************************)
(* Proofs about Batch, for every number of channels, readers and messages. *)
(* Batch implements Delivery as far as safety goes: no message is handed   *)
(* on twice or made up.  That every message is handed on at last needs     *)
(* fairness and is checked on the instance only.                           *)
(***************************************************************************)
EXTENDS Batch, TLAPS

\* Every message with the batcher, or emitted, has been added.
Numbered ==
  \A ch \in Channels :
    /\ pending[ch] \subseteq 1 .. count[ch]
    /\ sent[ch] \subseteq 1 .. count[ch]
    /\ \A f \in InFlight : f.channel = ch => f.messages \subseteq 1 .. count[ch]

Apart(f, g) == f.channel = g.channel => f.messages \cap g.messages = {}

\* No message is in two frames on their way out.
Disjoint ==
  /\ \A r \in Readers : \A f, g \in hold[r] : f = g
  /\ \A r, s \in Readers : r # s => \A f \in hold[r], g \in hold[s] : Apart(f, g)
  /\ \A r \in Readers : \A f \in hold[r], g \in flushing : Apart(f, g)
  /\ \A f, g \in flushing : f # g => Apart(f, g)

IInv == TypeOK /\ Numbered /\ WaitsForTimer /\ NotOvertaken /\ Disjoint

-----------------------------------------------------------------------------

LEMMA InvInit == Init => IInv
  BY BatchAssumption
     DEF Init, IInv, TypeOK, Messages, Frames, Numbered, WaitsForTimer, NotOvertaken,
         Disjoint, InFlight

LEMMA OfFrames ==
  ASSUME NEW f \in Frames
  PROVE  f.channel \in Channels /\ f.messages \subseteq Messages /\ f.messages # {}
  BY DEF Frames

LEMMA MakesFrame ==
  ASSUME NEW ch \in Channels, NEW m, m \subseteq Messages, m # {}
  PROVE  /\ Frame(ch, m) \in Frames
         /\ Frame(ch, m).channel = ch /\ Frame(ch, m).messages = m
<1>1. m \in (SUBSET Messages) \ {{}}
  OBVIOUS
<1>2. QED
  BY <1>1 DEF Frame, Frames

\* The frame of a message that has just arrived.
LEMMA FirstFrame ==
  ASSUME TypeOK, NEW r \in Readers, NEW ch \in Channels, Arrive(r, ch)
  PROVE  /\ count[ch] \in Nat /\ count[ch] + 1 \in Messages
         /\ Frame(ch, {count[ch] + 1}) \in Frames
<1>1. count[ch] \in Nat /\ count[ch] + 1 \in Messages
  <2>1. count[ch] \in 0 .. Total /\ count[ch] < Total
    BY DEF TypeOK, Arrive
  <2>2. QED
    BY <2>1, BatchAssumption DEF Messages
<1>2. {count[ch] + 1} \in SUBSET Messages
  BY <1>1
<1>3. QED
  BY <1>1, <1>2, MakesFrame

LEMMA TypeStep == TypeOK /\ [Next]_vars => TypeOK'
<1> SUFFICES ASSUME TypeOK, [Next]_vars PROVE TypeOK'
  OBVIOUS
<1> USE BatchAssumption
<1>1. ASSUME NEW r \in Readers, NEW ch \in Channels, AddFirst(r, ch) PROVE TypeOK'
  <2>1. Arrive(r, ch)
    BY <1>1 DEF AddFirst
  <2>2. /\ count[ch] \in Nat /\ count[ch] + 1 \in Messages
        /\ {Frame(ch, {count[ch] + 1})} \subseteq Frames
    BY <2>1, FirstFrame
  <2>3. QED
    BY <1>1, <2>2 DEF AddFirst, Arrive, TypeOK
<1>2. ASSUME NEW r \in Readers, NEW ch \in Channels, AddMore(r, ch) PROVE TypeOK'
  BY <1>2 DEF AddMore, Arrive, TypeOK, Messages
<1>3. ASSUME NEW ch \in Channels, Flush(ch) PROVE TypeOK'
  <2>1. pending[ch] # {} => Frame(ch, pending[ch]) \in Frames
    BY MakesFrame DEF TypeOK
  <2>2. QED
    BY <1>3, <2>1 DEF Flush, TypeOK
<1>4. ASSUME NEW r \in Readers, EmitFirst(r) PROVE TypeOK'
  BY <1>4 DEF EmitFirst, Emit, TypeOK, Frames
<1>5. ASSUME NEW f \in Frames, EmitFlushed(f) PROVE TypeOK'
  BY <1>5 DEF EmitFlushed, Emit, TypeOK, Frames
<1>6. CASE UNCHANGED vars
  BY <1>6 DEF vars, TypeOK
<1>7. QED
  BY <1>1, <1>2, <1>3, <1>4, <1>5, <1>6 DEF Next

\* Every variable has its type.
THEOREM TypeCorrect == Spec => []TypeOK
<1>1. Init => TypeOK
  BY InvInit DEF IInv
<1>2. QED
  BY <1>1, TypeStep, PTL DEF Spec

-----------------------------------------------------------------------------
(* What each action does to the messages.                                  *)

LEMMA AfterFirst ==
  ASSUME TypeOK, NEW r \in Readers, NEW ch \in Channels, AddFirst(r, ch)
  PROVE  /\ ch \notin timers /\ pending' = pending /\ sent' = sent /\ count[ch] \in Nat
         /\ \A x \in Channels : count'[x] = IF x = ch THEN count[x] + 1 ELSE count[x]
         /\ InFlight' = InFlight \cup {Frame(ch, {count[ch] + 1})}
<1>1. Arrive(r, ch)
  BY DEF AddFirst
<1>2. count[ch] \in Nat
  BY <1>1, FirstFrame
<1>3. \A x \in Channels : count'[x] = IF x = ch THEN count[x] + 1 ELSE count[x]
  BY <1>1 DEF Arrive, TypeOK
<1>4. InFlight' = InFlight \cup {Frame(ch, {count[ch] + 1})}
  BY <1>1 DEF AddFirst, Arrive, TypeOK, InFlight
<1>5. QED
  BY <1>2, <1>3, <1>4 DEF AddFirst

LEMMA AfterMore ==
  ASSUME TypeOK, NEW r \in Readers, NEW ch \in Channels, AddMore(r, ch)
  PROVE  /\ sent' = sent /\ count[ch] \in Nat
         /\ \A x \in Channels :
              /\ count'[x] = IF x = ch THEN count[x] + 1 ELSE count[x]
              /\ pending'[x] = IF x = ch THEN pending[x] \cup {count[x] + 1}
                                         ELSE pending[x]
         /\ InFlight' = InFlight
<1>1. Arrive(r, ch)
  BY DEF AddMore
<1>2. count[ch] \in Nat
  BY <1>1, FirstFrame
<1>3. QED
  BY <1>1, <1>2 DEF AddMore, Arrive, TypeOK, InFlight

LEMMA AfterFlush ==
  ASSUME TypeOK, NEW ch \in Channels, Flush(ch)
  PROVE  /\ count' = count /\ sent' = sent
         /\ \A x \in Channels : pending'[x] = IF x = ch THEN {} ELSE pending[x]
         /\ InFlight' = IF pending[ch] = {} THEN InFlight
                                            ELSE InFlight \cup {Frame(ch, pending[ch])}
  BY DEF Flush, TypeOK, InFlight

Emission == (\E r \in Readers : EmitFirst(r)) \/ (\E f \in Frames : EmitFlushed(f))

LEMMA AfterEmit ==
  ASSUME TypeOK, Emission
  PROVE  /\ count' = count /\ pending' = pending
         /\ \E f \in InFlight :
              /\ f \in Frames
              /\ \A x \in Channels :
                   sent'[x] = IF x = f.channel THEN sent[x] \cup f.messages ELSE sent[x]
              /\ InFlight' \subseteq InFlight
              /\ Disjoint => /\ InFlight \ {f} \subseteq InFlight'
                             /\ \A g \in InFlight' : Apart(f, g)
<1>1. ASSUME NEW f \in Frames, Emit(f), NEW x \in Channels
      PROVE  sent'[x] = IF x = f.channel THEN sent[x] \cup f.messages ELSE sent[x]
  BY <1>1 DEF TypeOK, Emit, Frames
<1>2. CASE \E r \in Readers : EmitFirst(r)
  <2>1. PICK r \in Readers : EmitFirst(r)
    BY <1>2
  <2>2. PICK f \in hold[r] : Emit(f)
    BY <2>1 DEF EmitFirst
  <2>3. /\ f \in InFlight /\ f \in Frames /\ count' = count /\ pending' = pending
    BY <2>1 DEF EmitFirst, TypeOK, InFlight
  <2>4. /\ flushing' = flushing
        /\ \A s \in Readers : hold'[s] = IF s = r THEN {} ELSE hold[s]
    BY <2>1 DEF EmitFirst, TypeOK
  <2>5. InFlight' \subseteq InFlight
    BY <2>4 DEF InFlight
  <2>6. ASSUME Disjoint
        PROVE  InFlight \ {f} \subseteq InFlight' /\ \A g \in InFlight' : Apart(f, g)
    BY <2>4, <2>6 DEF InFlight, Disjoint
  <2>7. QED
    BY <1>1, <2>2, <2>3, <2>5, <2>6
<1>3. CASE \E f \in Frames : EmitFlushed(f)
  <2>1. PICK f \in Frames : EmitFlushed(f)
    BY <1>3
  <2>2. /\ f \in InFlight /\ Emit(f) /\ count' = count /\ pending' = pending
        /\ hold' = hold /\ flushing' = flushing \ {f} /\ f \in flushing
    BY <2>1 DEF EmitFlushed, InFlight
  <2>3. InFlight' \subseteq InFlight
    BY <2>2 DEF InFlight
  <2>4. ASSUME Disjoint
        PROVE  InFlight \ {f} \subseteq InFlight' /\ \A g \in InFlight' : Apart(f, g)
    BY <2>2, <2>4 DEF InFlight, Disjoint, Apart
  <2>5. QED
    BY <1>1, <2>2, <2>3, <2>4
<1>4. QED
  BY <1>2, <1>3 DEF Emission

LEMMA NumberedStep == IInv /\ [Next]_vars => Numbered'
<1> SUFFICES ASSUME IInv, [Next]_vars PROVE Numbered'
  OBVIOUS
<1>0. TypeOK /\ Numbered
  BY DEF IInv
<1>1. ASSUME NEW r \in Readers, NEW ch \in Channels, AddFirst(r, ch) PROVE Numbered'
  <2>1. (1 .. count[ch]) \cup {count[ch] + 1} \subseteq 1 .. (count[ch] + 1)
    <3>1. count[ch] \in Nat
      BY <1>0, <1>1, AfterFirst
    <3>2. QED
      BY <3>1
  <2>2. QED
    BY <1>0, <1>1, <2>1, AfterFirst DEF Numbered, Frame
<1>2. ASSUME NEW r \in Readers, NEW ch \in Channels, AddMore(r, ch) PROVE Numbered'
  <2>1. (1 .. count[ch]) \cup {count[ch] + 1} \subseteq 1 .. (count[ch] + 1)
    BY <1>0, <1>2, AfterMore
  <2>2. QED
    BY <1>0, <1>2, <2>1, AfterMore DEF Numbered
<1>3. ASSUME NEW ch \in Channels, Flush(ch) PROVE Numbered'
  BY <1>0, <1>3, AfterFlush DEF Numbered, Frame
<1>4. CASE Emission
  BY <1>0, <1>4, AfterEmit DEF Numbered
<1>5. CASE UNCHANGED vars
  BY <1>0, <1>5 DEF vars, Numbered, InFlight
<1>6. QED
  BY <1>1, <1>2, <1>3, <1>4, <1>5 DEF Next, Emission

LEMMA TimerStep == IInv /\ [Next]_vars => WaitsForTimer'
<1> SUFFICES ASSUME IInv, [Next]_vars PROVE WaitsForTimer'
  OBVIOUS
<1> USE DEF IInv
<1>1. ASSUME NEW r \in Readers, NEW ch \in Channels, AddFirst(r, ch) \/ AddMore(r, ch)
      PROVE  WaitsForTimer'
  BY <1>1 DEF AddFirst, AddMore, TypeOK, WaitsForTimer
<1>2. ASSUME NEW ch \in Channels, Flush(ch) PROVE WaitsForTimer'
  BY <1>2 DEF Flush, TypeOK, WaitsForTimer
<1>3. CASE UNCHANGED <<pending, timers>>
  BY <1>3 DEF WaitsForTimer
<1>4. QED
  BY <1>1, <1>2, <1>3 DEF Next, EmitFirst, EmitFlushed, vars

LEMMA OvertakenStep == IInv /\ [Next]_vars => NotOvertaken'
<1> SUFFICES ASSUME IInv, [Next]_vars PROVE NotOvertaken'
  OBVIOUS
<1>0. TypeOK /\ Numbered /\ WaitsForTimer /\ NotOvertaken
  BY DEF IInv
\* The channel of the new frame has nothing pending.
<1>1. ASSUME NEW r \in Readers, NEW ch \in Channels, AddFirst(r, ch) PROVE NotOvertaken'
  <2>1. pending[ch] = {}
    BY <1>0, <1>1, AfterFirst DEF WaitsForTimer
  <2>2. QED
    BY <1>0, <1>1, <2>1, AfterFirst DEF Frame, NotOvertaken
\* The new message has the highest number.
<1>2. ASSUME NEW r \in Readers, NEW ch \in Channels, AddMore(r, ch) PROVE NotOvertaken'
  <2>1. \A n \in 1 .. count[ch] : n < count[ch] + 1
    BY <1>0, <1>2, AfterMore
  <2>2. /\ \A n \in sent[ch] : n < count[ch] + 1
        /\ \A f \in InFlight : f.channel = ch => \A n \in f.messages : n < count[ch] + 1
    BY <1>0, <2>1 DEF Numbered
  <2>3. \A x \in Channels : \A m \in pending'[x] :
          m \in pending[x] \/ (x = ch /\ m = count[ch] + 1)
    <3>1. \A x \in Channels :
            pending'[x] = IF x = ch THEN pending[x] \cup {count[x] + 1} ELSE pending[x]
      BY <1>0, <1>2, AfterMore
    <3>2. QED
      BY <3>1
  <2>4. sent' = sent /\ InFlight' = InFlight
    BY <1>0, <1>2, AfterMore
  <2>5. QED
    <3>1. ASSUME NEW x \in Channels, NEW m \in pending'[x]
          PROVE  /\ \A n \in sent[x] : n < m
                 /\ \A f \in InFlight : f.channel = x => \A n \in f.messages : n < m
      BY <1>0, <2>2, <2>3 DEF NotOvertaken
    <3>2. QED
      BY <2>4, <3>1 DEF NotOvertaken
\* The channel of the new frame has nothing pending any more.
<1>3. ASSUME NEW ch \in Channels, Flush(ch) PROVE NotOvertaken'
  BY <1>0, <1>3, AfterFlush DEF Frame, NotOvertaken
<1>4. CASE Emission
  BY <1>0, <1>4, AfterEmit DEF NotOvertaken
<1>5. CASE UNCHANGED vars
  BY <1>0, <1>5 DEF vars, NotOvertaken, InFlight
<1>6. QED
  BY <1>1, <1>2, <1>3, <1>4, <1>5 DEF Next, Emission

\* A frame on its way out has none of the messages that arrive or wait.
LEMMA FramesApart ==
  ASSUME IInv, NEW f \in InFlight
  PROVE  /\ f.channel \in Channels
         /\ f.messages \cap pending[f.channel] = {}
         /\ count[f.channel] + 1 \notin f.messages
<1>1. f \in Frames
  BY DEF IInv, TypeOK, InFlight
<1>2. f.channel \in Channels /\ count[f.channel] \in Nat
  BY <1>1, BatchAssumption DEF Frames, IInv, TypeOK
<1>3. f.messages \subseteq 1 .. count[f.channel]
  BY <1>2 DEF IInv, Numbered
<1>4. \A m \in pending[f.channel], n \in f.messages : m \in Nat /\ n \in Nat /\ n < m
  BY <1>2, <1>3 DEF IInv, Numbered, NotOvertaken
<1>5. QED
  BY <1>2, <1>3, <1>4

LEMMA DisjointStep == IInv /\ [Next]_vars => Disjoint'
<1> SUFFICES ASSUME IInv, [Next]_vars PROVE Disjoint'
  OBVIOUS
<1>0. /\ hold \in [Readers -> SUBSET Frames]
      /\ flushing \subseteq InFlight /\ \A r \in Readers : hold[r] \subseteq InFlight
  BY DEF IInv, TypeOK, InFlight
<1>1. ASSUME NEW r \in Readers, NEW ch \in Channels, AddFirst(r, ch) PROVE Disjoint'
  <2> DEFINE new == Frame(ch, {count[ch] + 1})
  <2>1. new.channel = ch /\ new.messages = {count[ch] + 1}
    BY DEF Frame
  <2>2. \A f \in InFlight : Apart(f, new) /\ Apart(new, f)
    BY <2>1, FramesApart DEF Apart
  <2>3. /\ hold' = [hold EXCEPT ![r] = {new}] /\ flushing' = flushing
    BY <1>1 DEF AddFirst
  <2> HIDE DEF new
  <2>4. QED
    BY <1>0, <2>2, <2>3 DEF IInv, Disjoint
<1>2. ASSUME NEW ch \in Channels, Flush(ch) PROVE Disjoint'
  <2> DEFINE new == Frame(ch, pending[ch])
  <2>1. new.channel = ch /\ new.messages = pending[ch]
    BY DEF Frame
  <2>2. \A f \in InFlight : Apart(f, new) /\ Apart(new, f)
    BY <2>1, FramesApart DEF Apart
  <2>3. hold' = hold /\ (flushing' = flushing \/ flushing' = flushing \cup {new})
    BY <1>2 DEF Flush
  <2> HIDE DEF new
  <2>4. QED
    BY <1>0, <2>2, <2>3 DEF IInv, Disjoint
<1>3. ASSUME NEW r \in Readers, EmitFirst(r) PROVE Disjoint'
  BY <1>0, <1>3 DEF EmitFirst, IInv, Disjoint
<1>4. ASSUME NEW f \in Frames, EmitFlushed(f) PROVE Disjoint'
  BY <1>0, <1>4 DEF EmitFlushed, IInv, Disjoint
<1>5. CASE UNCHANGED <<hold, flushing>>
  BY <1>5 DEF IInv, Disjoint
<1>6. QED
  BY <1>1, <1>2, <1>3, <1>4, <1>5 DEF Next, AddMore, vars

-----------------------------------------------------------------------------

\* The conjunction is inductive.
THEOREM Inductive == Spec => []IInv
<1>1. IInv /\ [Next]_vars => IInv'
  BY TypeStep, NumberedStep, TimerStep, OvertakenStep, DisjointStep DEF IInv
<1>2. QED
  BY <1>1, InvInit, PTL DEF Spec

\* Messages wait only while a window runs that ends their wait.
THEOREM TimersRun == Spec => []WaitsForTimer
<1>1. IInv => WaitsForTimer
  BY DEF IInv
<1>2. QED
  BY <1>1, Inductive, PTL

\* A message that waits is not overtaken.
THEOREM OrderKept == Spec => []NotOvertaken
<1>1. IInv => NotOvertaken
  BY DEF IInv
<1>2. QED
  BY <1>1, Inductive, PTL

-----------------------------------------------------------------------------
(* Batch implements Delivery.                                              *)

LEMMA Taken ==
  ASSUME IInv, NEW r \in Readers, NEW ch \in Channels, AddFirst(r, ch) \/ AddMore(r, ch)
  PROVE  D!Take(ch, count[ch] + 1)
<1>1. TypeOK /\ Numbered
  BY DEF IInv
<1>2. count[ch] \in Nat /\ count[ch] + 1 \in 1 .. Total /\ sent' = sent
  <2>1. Arrive(r, ch)
    BY DEF AddFirst, AddMore
  <2>2. QED
    BY <1>1, <2>1, FirstFrame DEF Messages, AddFirst, AddMore
<1>3. count[ch] + 1 \notin Owed(ch) \cup sent[ch]
  <2>1. \A f \in InFlight : f.channel = ch => count[ch] + 1 \notin f.messages
    BY FramesApart
  <2>2. count[ch] + 1 \notin pending[ch] \cup sent[ch]
    BY <1>1, <1>2 DEF Numbered
  <2>3. QED
    BY <2>1, <2>2 DEF Owed
<1>4. ASSUME NEW x \in Channels
      PROVE  Owed(x)' = IF x = ch THEN Owed(x) \cup {count[ch] + 1} ELSE Owed(x)
  <2>1. CASE AddFirst(r, ch)
    <3> DEFINE new == Frame(ch, {count[ch] + 1})
    <3>1. new.channel = ch /\ new.messages = {count[ch] + 1}
      BY DEF Frame
    <3>2. InFlight' = InFlight \cup {new} /\ pending' = pending
      BY <1>1, <2>1, AfterFirst
    <3> HIDE DEF new
    <3>3. {g \in InFlight' : g.channel = x}
            = {g \in InFlight : g.channel = x} \cup (IF x = ch THEN {new} ELSE {})
      BY <3>1, <3>2
    <3>4. QED
      BY <3>1, <3>2, <3>3 DEF Owed
  <2>2. CASE AddMore(r, ch)
    BY <1>1, <2>2, AfterMore DEF Owed
  <2>3. QED
    BY <2>1, <2>2
<1>5. [x \in Channels |-> Owed(x)]'
        = [[x \in Channels |-> Owed(x)] EXCEPT ![ch] = @ \cup {count[ch] + 1}]
  BY <1>4
<1>6. QED
  BY <1>2, <1>3, <1>5 DEF D!Take

LEMMA Flushed ==
  ASSUME IInv, NEW ch \in Channels, Flush(ch)
  PROVE  UNCHANGED D!vars
<1>1. TypeOK
  BY DEF IInv
<1>2. ASSUME NEW x \in Channels PROVE Owed(x)' = Owed(x)
  <2> DEFINE new == Frame(ch, pending[ch])
  <2>1. new.channel = ch /\ new.messages = pending[ch]
    BY DEF Frame
  <2>2. /\ pending'[x] = IF x = ch THEN {} ELSE pending[x]
        /\ InFlight' = IF pending[ch] = {} THEN InFlight ELSE InFlight \cup {new}
    BY <1>1, AfterFlush
  <2> HIDE DEF new
  <2>3. {g \in InFlight' : g.channel = x}
          = {g \in InFlight : g.channel = x}
              \cup (IF x = ch /\ pending[ch] # {} THEN {new} ELSE {})
    BY <2>1, <2>2
  <2>4. QED
    BY <2>1, <2>2, <2>3 DEF Owed
<1>3. QED
  BY <1>1, <1>2, AfterFlush DEF D!vars

LEMMA HandedOn ==
  ASSUME IInv, Emission
  PROVE  \E ch \in Channels : \E frame \in SUBSET (1 .. Total) : D!HandOn(ch, frame)
<1>1. TypeOK /\ Disjoint
  BY DEF IInv
<1>2. PICK f \in InFlight :
        /\ f \in Frames
        /\ \A x \in Channels :
             sent'[x] = IF x = f.channel THEN sent[x] \cup f.messages ELSE sent[x]
        /\ InFlight' \subseteq InFlight
        /\ InFlight \ {f} \subseteq InFlight'
        /\ \A g \in InFlight' : Apart(f, g)
  BY <1>1, AfterEmit
<1>3. /\ f.channel \in Channels /\ f.messages \in SUBSET (1 .. Total) /\ f.messages # {}
  BY <1>2, OfFrames DEF Messages
<1>4. f.messages \subseteq Owed(f.channel)
  BY DEF Owed
<1>5. pending' = pending /\ f.messages \cap pending[f.channel] = {}
  BY <1>1, AfterEmit, FramesApart
<1>6. ASSUME NEW x \in Channels
      PROVE  Owed(x)' = IF x = f.channel THEN Owed(x) \ f.messages ELSE Owed(x)
  BY <1>2, <1>5 DEF Owed, Apart
<1>7. [x \in Channels |-> Owed(x)]'
        = [[x \in Channels |-> Owed(x)] EXCEPT ![f.channel] = @ \ f.messages]
  BY <1>6
<1>8. sent' = [sent EXCEPT ![f.channel] = @ \cup f.messages]
  <2>1. sent' = [x \in Channels |-> sent'[x]] /\ DOMAIN sent = Channels
    BY <1>1, TypeStep DEF TypeOK, Emission, Next
  <2>2. QED
    BY <1>1, <1>2, <2>1 DEF TypeOK
<1>9. D!HandOn(f.channel, f.messages)
  BY <1>3, <1>4, <1>7, <1>8 DEF D!HandOn
<1>10. QED
  BY <1>3, <1>9

\* Every step of the batcher takes a message, hands a frame on, or neither: nothing is
\* handed on twice or made up.
THEOREM Implements == Spec => D!Spec
<1>1. Init => D!Init
  <2> SUFFICES ASSUME Init PROVE D!Init
    OBVIOUS
  <2>1. \A x \in Channels : Owed(x) = {}
    BY DEF Init, Owed, InFlight
  <2>2. QED
    BY <2>1 DEF Init, D!Init
<1>2. IInv /\ [Next]_vars => [D!Next]_(D!vars)
  <2> SUFFICES ASSUME IInv, [Next]_vars PROVE D!Next \/ UNCHANGED D!vars
    OBVIOUS
  <2>1. ASSUME NEW r \in Readers, NEW ch \in Channels, AddFirst(r, ch) \/ AddMore(r, ch)
        PROVE  D!Next
    <3>1. count[ch] + 1 \in 1 .. Total
      BY <2>1, Taken DEF D!Take
    <3>2. QED
      BY <2>1, <3>1, Taken DEF D!Next
  <2>2. CASE Emission
    BY <2>2, HandedOn DEF D!Next
  <2>3. CASE \E ch \in Channels : Flush(ch)
    BY <2>3, Flushed
  <2>4. CASE UNCHANGED vars
    BY <2>4 DEF vars, D!vars, Owed, InFlight
  <2>5. QED
    BY <2>1, <2>2, <2>3, <2>4 DEF Next, Emission
<1>3. QED
  BY <1>1, <1>2, Inductive, PTL DEF Spec, D!Spec

=============================================================================
