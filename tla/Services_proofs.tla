--------------------------- MODULE Services_proofs ---------------------------
(***************************************************************************)
(* Proofs about what is behind the requests of a browser, for any of their *)
(* constants: the limit on requests (RateLimit), the accounts (Accounts),  *)
(* the cached views (Metadata), the search of Reddit (Reddit) and the list *)
(* of live streams (Paging).                                               *)
(*                                                                         *)
(* None of their properties is inductive as it stands.  Accounts needs to  *)
(* know who bears a session on its way to a browser (Alone, Gone), the     *)
(* views that a fetch has one leader and nothing newer is kept (Led), the  *)
(* search what was paid for each page (Priced), the list what the answer   *)
(* under way holds (Read).                                                 *)
(***************************************************************************)
EXTENDS RateLimit, ServiceParts, FiniteSetTheorems, SequenceTheorems, TLAPS

-----------------------------------------------------------------------------
(* The limit on requests (RateLimit).                                      *)

\* PaidFor makes Bounded inductive: it also counts what the bucket holds.
IInv == TypeOK /\ PaidFor

-----------------------------------------------------------------------------
(* Arithmetic: the provers need these products taken apart.                *)

LEMMA OneMore ==
  ASSUME NEW a \in Nat, NEW n \in Nat
  PROVE  a * (n + 1) = a * n + a
  OBVIOUS

LEMMA Product ==
  ASSUME NEW a \in Nat, NEW n \in Nat
  PROVE  a * n \in Nat
  OBVIOUS

LEMMA LeastOf ==
  ASSUME NEW a \in Nat, NEW b \in Nat
  PROVE  /\ Least(a, b) \in Nat
         /\ Least(a, b) <= a /\ Least(a, b) <= b
         /\ a <= b => Least(a, b) = a
         /\ b <= a => Least(a, b) = b
  BY DEF Least

\* A bucket never holds more than it has room for.
LEMMA FilledType ==
  ASSUME TypeOK, NEW k \in Clients
  PROVE  Filled(k) \in 0 .. Capacity
<1> USE RateLimitAssumption
<1>1. CASE ~buckets[k].known
  BY <1>1 DEF Filled
<1>2. CASE buckets[k].known
  <2> DEFINE gain == Rate * (now - buckets[k].last)
  <2>1. buckets[k].tokens \in Nat /\ now - buckets[k].last \in Nat
    BY DEF TypeOK
  <2>2. gain \in Nat
    BY <2>1, Product
  <2>3. buckets[k].tokens + gain \in Nat
    BY <2>1, <2>2
  <2> HIDE DEF gain
  <2>4. Least(Capacity, buckets[k].tokens + gain) \in 0 .. Capacity
    BY <2>3, LeastOf
  <2>5. QED
    BY <1>2, <2>4 DEF Filled, gain
<1>3. QED
  BY <1>1, <1>2

\* Right after a request a bucket holds what it was left with.
LEMMA FilledNow ==
  ASSUME NEW t \in 0 .. Capacity, NEW n \in Nat
  PROVE  Least(Capacity, t + Rate * (n - n)) = t
<1>1. Rate * (n - n) = 0
  BY RateLimitAssumption
<1>2. Least(Capacity, t) = t
  BY RateLimitAssumption DEF Least
<1>3. QED
  BY <1>1, <1>2

-----------------------------------------------------------------------------

LEMMA InvInit == Init => IInv
<1> SUFFICES ASSUME Init PROVE IInv
  OBVIOUS
<1> USE RateLimitAssumption
<1>1. TypeOK
  BY DEF Init, TypeOK, NoBucket
<1>2. ASSUME NEW k \in Clients
      PROVE  Cost * passed[k] + Filled(k) <= Capacity + Rate * (now - since)
  <2>1. Filled(k) = Capacity /\ passed[k] = 0 /\ now - since = 0
    BY DEF Init, Filled, NoBucket
  <2>2. Cost * 0 = 0 /\ Rate * 0 = 0
    OBVIOUS
  <2>3. QED
    BY <2>1, <2>2
<1>3. QED
  BY <1>1, <1>2 DEF IInv, PaidFor

LEMMA TypeStep == TypeOK /\ [Next]_vars => TypeOK'
<1> SUFFICES ASSUME TypeOK, [Next]_vars PROVE TypeOK'
  OBVIOUS
<1> USE RateLimitAssumption
<1>1. ASSUME NEW k \in Clients, Refuse(k) PROVE TypeOK'
  <2>1. Filled(k) \in 0 .. Capacity
    BY FilledType
  <2>2. QED
    BY <1>1, <2>1 DEF Refuse, TypeOK
<1>2. ASSUME NEW k \in Clients, Allow(k) PROVE TypeOK'
  <2>1. Filled(k) - Cost \in 0 .. Capacity
    BY <1>2, FilledType DEF Allow
  <2>2. QED
    BY <1>2, <2>1 DEF Allow, TypeOK
<1>3. CASE Tick
  BY <1>3 DEF Tick, TypeOK
<1>4. CASE Count
  BY <1>4 DEF Count, TypeOK
<1>5. CASE UNCHANGED vars
  BY <1>5 DEF vars, TypeOK
<1>6. QED
  BY <1>1, <1>2, <1>3, <1>4, <1>5 DEF Next

\* A bucket that is not touched, at the same time, holds the same.
LEMMA Untouched ==
  ASSUME NEW k \in Clients, buckets'[k] = buckets[k], now' = now
  PROVE  Filled(k)' = Filled(k)
  BY DEF Filled

LEMMA PaidForStep == IInv /\ [Next]_vars => PaidFor'
<1> SUFFICES ASSUME IInv, [Next]_vars, NEW c \in Clients
             PROVE  Cost * passed'[c] + Filled(c)' <= Capacity + Rate * (now' - since')
  BY DEF PaidFor
<1> USE RateLimitAssumption
<1> DEFINE paid == Cost * passed[c]
           brought == Rate * (now - since)
<1>1. TypeOK /\ paid + Filled(c) <= Capacity + brought
  BY DEF IInv, PaidFor
<1>2. /\ passed[c] \in Nat /\ now - since \in Nat /\ now \in Nat /\ since \in Nat
      /\ Filled(c) \in 0 .. Capacity
  BY <1>1, FilledType DEF TypeOK
<1>3. paid \in Nat /\ brought \in Nat
  BY <1>2, Product
<1>4. ASSUME NEW k \in Clients, Refuse(k)
      PROVE  Cost * passed'[c] + Filled(c)' <= Capacity + Rate * (now' - since')
  <2>1. Filled(c)' = Filled(c)
    <3>1. CASE c = k
      \* A bucket nobody knows yet is full, which is enough for a request.
      <4>1. buckets[k].known
        BY <1>4 DEF Refuse, Filled
      <4>2. buckets'[k].known /\ buckets'[k].tokens = Filled(k) /\ buckets'[k].last = now
        BY <1>1, <1>4, <4>1 DEF Refuse, TypeOK
      <4>3. Filled(k)' = Least(Capacity, Filled(k) + Rate * (now - now))
        BY <1>4, <4>2 DEF Filled, Refuse
      <4>4. QED
        BY <1>2, <3>1, <4>3, FilledNow
    <3>2. CASE c # k
      BY <1>1, <1>4, <3>2, Untouched DEF Refuse, TypeOK
    <3>3. QED
      BY <3>1, <3>2
  <2>2. QED
    BY <1>1, <1>4, <2>1 DEF Refuse
<1>5. ASSUME NEW k \in Clients, Allow(k)
      PROVE  Cost * passed'[c] + Filled(c)' <= Capacity + Rate * (now' - since')
  <2>1. CASE c = k
    <3>1. passed'[c] = passed[c] + 1 /\ now' - since' = now - since
      BY <1>1, <1>5, <2>1 DEF Allow, TypeOK
    <3>2. Cost * passed'[c] = paid + Cost
      BY <1>2, <3>1, OneMore
    <3>3. buckets'[c] = [known |-> TRUE, tokens |-> Filled(c) - Cost, last |-> now]
      BY <1>1, <1>5, <2>1 DEF Allow, TypeOK
    <3>4. Filled(c)' = Least(Capacity, (Filled(c) - Cost) + Rate * (now - now))
      BY <1>5, <3>3 DEF Filled, Allow
    <3>5. Filled(c) - Cost \in 0 .. Capacity
      BY <1>2, <1>5, <2>1 DEF Allow
    <3>6. Filled(c)' = Filled(c) - Cost
      BY <1>2, <3>4, <3>5, FilledNow
    <3>7. paid + Cost + (Filled(c) - Cost) <= Capacity + brought
      BY <1>1, <1>2, <1>3
    <3>8. QED
      BY <3>1, <3>2, <3>6, <3>7
  <2>2. CASE c # k
    <3>1. Filled(c)' = Filled(c) /\ passed'[c] = passed[c]
      BY <1>1, <1>5, <2>2, Untouched DEF Allow, TypeOK
    <3>2. QED
      BY <1>1, <1>5, <3>1 DEF Allow
  <2>3. QED
    BY <2>1, <2>2
<1>6. ASSUME Tick
      PROVE  Cost * passed'[c] + Filled(c)' <= Capacity + Rate * (now' - since')
  <2>1. passed'[c] = passed[c] /\ now' - since' = (now - since) + 1
    BY <1>2, <1>6 DEF Tick
  <2>2. Rate * (now' - since') = brought + Rate
    BY <1>2, <2>1, OneMore
  <2>3. Filled(c)' \in Nat /\ Filled(c)' <= Filled(c) + Rate
    <3>1. CASE ~buckets[c].known
      BY <1>6, <3>1 DEF Filled, Tick
    <3>2. CASE buckets[c].known
      <4> DEFINE tokens == buckets[c].tokens
                 old == Rate * (now - buckets[c].last)
      <4>1. tokens \in Nat /\ now - buckets[c].last \in Nat
        BY <1>1 DEF TypeOK
      <4>2. (now + 1) - buckets[c].last = (now - buckets[c].last) + 1
        BY <1>1 DEF TypeOK
      <4>3. Rate * ((now + 1) - buckets[c].last) = old + Rate
        BY <4>1, <4>2, OneMore
      <4>4. Filled(c)' = Least(Capacity, tokens + (old + Rate))
        BY <1>6, <3>2, <4>3 DEF Filled, Tick
      <4>5. Filled(c) = Least(Capacity, tokens + old)
        BY <3>2 DEF Filled
      <4>6. old \in Nat
        BY <4>1, Product
      <4> HIDE DEF tokens, old
      <4>7. QED
        BY <4>1, <4>4, <4>5, <4>6 DEF Least
    <3>3. QED
      BY <3>1, <3>2
  <2>4. paid + Filled(c)' <= Capacity + (brought + Rate)
    BY <1>1, <1>2, <1>3, <2>3
  <2>5. QED
    BY <2>1, <2>2, <2>4
<1>7. ASSUME Count
      PROVE  Cost * passed'[c] + Filled(c)' <= Capacity + Rate * (now' - since')
  <2>1. passed'[c] = 0 /\ now' - since' = 0 /\ Filled(c)' = Filled(c)
    BY <1>2, <1>7, Untouched DEF Count
  <2>2. Cost * 0 = 0 /\ Rate * 0 = 0
    OBVIOUS
  <2>3. QED
    BY <1>2, <2>1, <2>2
<1>8. CASE UNCHANGED vars
  BY <1>1, <1>8, Untouched DEF vars
<1>9. QED
  BY <1>4, <1>5, <1>6, <1>7, <1>8 DEF Next

-----------------------------------------------------------------------------

(***************************************************************************)
(* Types and PaidFor hold throughout: whatever requests come, what has     *)
(* passed and what the bucket holds are together paid for.                 *)
(***************************************************************************)
THEOREM Inductive == Spec => []IInv
<1>1. IInv /\ [Next]_vars => IInv'
  BY TypeStep, PaidForStep DEF IInv
<1>2. QED
  BY InvInit, <1>1, PTL DEF Spec

\* Every variable of the limiter has its type: no bucket holds less than nothing or
\* more than it has room for (ratelimit.go:29-50).
THEOREM TypeCorrect == Spec => []TypeOK
<1>1. IInv => TypeOK
  BY DEF IInv
<1>2. QED
  BY Inductive, <1>1, PTL

(***************************************************************************)
(* In any stretch of time no client has more requests let through than a   *)
(* full bucket and the stretch pay for (rateLimiter.allow).                *)
(***************************************************************************)
THEOREM NeverMoreThanPaid == Spec => []Bounded
<1>1. IInv => Bounded
  <2> SUFFICES ASSUME IInv, NEW k \in Clients
               PROVE  Cost * passed[k] <= Capacity + Rate * (now - since)
    BY DEF Bounded
  <2> USE RateLimitAssumption
  <2>1. TypeOK /\ Cost * passed[k] + Filled(k) <= Capacity + Rate * (now - since)
    BY DEF IInv, PaidFor
  <2>2. Filled(k) \in Nat /\ passed[k] \in Nat /\ now - since \in Nat
    BY <2>1, FilledType DEF TypeOK
  <2>3. Cost * passed[k] \in Nat /\ Rate * (now - since) \in Nat
    BY <2>2, Product
  <2>4. QED
    BY <2>1, <2>2, <2>3
<1>2. QED
  BY Inductive, <1>1, PTL

-----------------------------------------------------------------------------
(* The accounts.                                                            *)

\* A request that holds a session nobody else has: it has made it, or taken its claim.
Bearing == {"save", "point", "unpoint", "load", "keep", "answer"}

Bears(h, s) == acc_req[h].at \in Bearing /\ acc_req[h].sid = s

\* A session that went out to a browser: there is no claim for it and nobody makes one.
Out(s) ==
  /\ s \in acc_drawn /\ s \notin acc_claims
  /\ \A h \in acc_Handlers : ~Bears(h, s)

\* What a request holds fits what it is about to do.
Shapes ==
  \A h \in acc_Handlers :
    LET r == acc_req[h] IN
      /\ r.at \in Bearing \cup {"take", "read", "renew", "store", "destroy"} =>
           r.sid \in acc_Sessions
      /\ r.at \in {"look", "exchange"} => r.sid \in acc_Devices
      /\ r.at \in {"save", "keep", "renew", "store"} => r.hand \in Acc!Record

\* Whoever bears a session is alone with it.
Alone ==
  \A h \in acc_Handlers, s \in acc_Sessions :
    Bears(h, s) => /\ s \in acc_drawn /\ s \notin acc_claims
                   /\ \A g \in acc_Handlers : Bears(g, s) => g = h

\* A session that waits to be claimed has been drawn; one that a browser has, that a request
\* uses or ends, or that was ended, went out.
Gone ==
  /\ acc_claims \subseteq acc_drawn
  /\ \A b \in acc_Browsers : acc_cookie[b] # acc_None => Out(acc_cookie[b])
  /\ \A h \in acc_Handlers :
       acc_req[h].at \in {"read", "renew", "store", "destroy"} => Out(acc_req[h].sid)
  /\ \A s \in acc_ended : Out(s)

\* A request under way, and the types of TypeOK, taken apart.
Asked ==
  [at : Acc!Steps, kind : Acc!Kinds, who : acc_Browsers \cup {acc_None},
   sid : acc_Sessions \cup acc_Devices \cup {acc_None},
   hand : Acc!Record \cup {acc_None}]

ReqTyped == acc_req \in [acc_Handlers -> Asked]

StoreTyped ==
  /\ acc_session \in [acc_Sessions -> Acc!Record \cup {acc_None}]
  /\ acc_claims \in SUBSET acc_Sessions
  /\ acc_latest \in acc_Sessions \cup {acc_None}
  /\ acc_device \in SUBSET acc_Devices
  /\ acc_cookie \in [acc_Browsers -> acc_Sessions \cup {acc_None}]
  /\ acc_drawn \in SUBSET (acc_Sessions \cup acc_Devices)
  /\ acc_code \in [acc_Devices -> {"open", "granted", "denied", "spent"}]
  /\ acc_granted \in [acc_Sessions -> 1 .. acc_MaxGen]
  /\ acc_aged \in [acc_Sessions -> 0 .. acc_MaxGen]
  /\ acc_ended \in SUBSET acc_Sessions /\ acc_revived \in SUBSET acc_Sessions

\* Who has which session.
Exclusive == Alone /\ Gone /\ SessionNotShared

AccInv == ReqTyped /\ StoreTyped /\ Shapes /\ Exclusive /\ LogoutRevokes

LEMMA AccTypes == Acc!TypeOK <=> ReqTyped /\ StoreTyped
BY DEF Acc!TypeOK, ReqTyped, StoreTyped, Asked

LEMMA AccInit == Acc!Init => AccInv
<1> SUFFICES ASSUME Acc!Init PROVE AccInv
  OBVIOUS
<1> USE ServicePartsAssumption DEF Acc!Init
<1>1. ReqTyped
  BY DEF ReqTyped, Asked, Acc!Rest, Acc!Steps, Acc!Kinds
<1>2. StoreTyped
  BY DEF StoreTyped
<1>3. \A h \in acc_Handlers : acc_req[h].at = "idle"
  BY DEF Acc!Rest
<1>4. Shapes
  BY <1>3 DEF Shapes, Bearing
<1>5. \A h \in acc_Handlers : \A s : ~Bears(h, s)
  BY <1>3 DEF Bears, Bearing
<1>6. Alone
  BY <1>5 DEF Alone
<1>7. Gone
  BY <1>3 DEF Gone
<1>8. SessionNotShared /\ LogoutRevokes
  BY DEF SessionNotShared, Acc!SessionNotShared, LogoutRevokes, Acc!LogoutRevokes
<1>9. QED
  BY <1>1, <1>2, <1>4, <1>6, <1>7, <1>8 DEF AccInv, Exclusive

\* A record of the store, as it is put together, renewed or kept.
LEMMA RecordOf ==
  ASSUME NEW g \in 1 .. acc_MaxGen, NEW r \in BOOLEAN, NEW l \in BOOLEAN
  PROVE  [gen |-> g, renew |-> r, long |-> l] \in Acc!Record
BY DEF Acc!Record

LEMMA RecordLong ==
  ASSUME NEW r \in Acc!Record
  PROVE  [r EXCEPT !.long = TRUE] \in Acc!Record /\ r.gen \in 1 .. acc_MaxGen
BY DEF Acc!Record

Ids == acc_Sessions \cup acc_Devices \cup {acc_None}

\* After a step: the request of h is at a with the session or device s and the record d,
\* and the other requests are where they were.
Now(h, a, s, d) ==
  /\ acc_req' \in [acc_Handlers -> Asked]
  /\ acc_req'[h].at = a /\ acc_req'[h].sid = s /\ acc_req'[h].hand = d
  /\ \A g \in acc_Handlers : g # h => acc_req'[g] = acc_req[g]

LEMMA Fields ==
  ASSUME NEW r \in Asked
  PROVE  r.at \in Acc!Steps /\ r.sid \in Ids /\ r.hand \in Acc!Record \cup {acc_None}
BY DEF Asked, Ids

LEMMA Put ==
  ASSUME ReqTyped, NEW h \in acc_Handlers, NEW t \in Asked,
         acc_req' = [acc_req EXCEPT ![h] = t]
  PROVE  Now(h, t.at, t.sid, t.hand)
BY DEF Now, ReqTyped

LEMMA GotoNow ==
  ASSUME ReqTyped, NEW h \in acc_Handlers, NEW a \in Acc!Steps,
         acc_req' = [acc_req EXCEPT ![h].at = a]
  PROVE  Now(h, a, acc_req[h].sid, acc_req[h].hand)
<1> DEFINE t == [acc_req[h] EXCEPT !.at = a]
<1>1. acc_req[h] \in Asked
  BY DEF ReqTyped
<1>2. t \in Asked /\ t.at = a /\ t.sid = acc_req[h].sid /\ t.hand = acc_req[h].hand
  BY <1>1 DEF Asked, Ids
<1>3. acc_req' = [acc_req EXCEPT ![h] = t]
  BY DEF ReqTyped
<1> HIDE DEF t
<1>4. Now(h, t.at, t.sid, t.hand)
  BY <1>2, <1>3, Put
<1>5. QED
  BY <1>2, <1>4

LEMMA SidNow ==
  ASSUME ReqTyped, NEW h \in acc_Handlers, NEW a \in Acc!Steps, NEW s \in Ids,
         acc_req' = [acc_req EXCEPT ![h].at = a, ![h].sid = s]
  PROVE  Now(h, a, s, acc_req[h].hand)
<1> DEFINE t == [acc_req[h] EXCEPT !.at = a, !.sid = s]
<1>1. acc_req[h] \in Asked
  BY DEF ReqTyped
<1>2. t \in Asked /\ t.at = a /\ t.sid = s /\ t.hand = acc_req[h].hand
  BY <1>1 DEF Asked, Ids
<1>3. acc_req' = [acc_req EXCEPT ![h] = t]
  BY DEF ReqTyped
<1> HIDE DEF t
<1>4. Now(h, t.at, t.sid, t.hand)
  BY <1>2, <1>3, Put
<1>5. QED
  BY <1>2, <1>4

LEMMA HandNow ==
  ASSUME ReqTyped, NEW h \in acc_Handlers, NEW a \in Acc!Steps,
         NEW d \in Acc!Record \cup {acc_None},
         acc_req' = [acc_req EXCEPT ![h].at = a, ![h].hand = d]
  PROVE  Now(h, a, acc_req[h].sid, d)
<1> DEFINE t == [acc_req[h] EXCEPT !.at = a, !.hand = d]
<1>1. acc_req[h] \in Asked
  BY DEF ReqTyped
<1>2. t \in Asked /\ t.at = a /\ t.sid = acc_req[h].sid /\ t.hand = d
  BY <1>1 DEF Asked, Ids
<1>3. acc_req' = [acc_req EXCEPT ![h] = t]
  BY DEF ReqTyped
<1> HIDE DEF t
<1>4. Now(h, t.at, t.sid, t.hand)
  BY <1>2, <1>3, Put
<1>5. QED
  BY <1>2, <1>4

LEMMA AllNow ==
  ASSUME ReqTyped, NEW h \in acc_Handlers, NEW a \in Acc!Steps, NEW s \in Ids,
         NEW d \in Acc!Record \cup {acc_None},
         acc_req' = [acc_req EXCEPT ![h].at = a, ![h].sid = s, ![h].hand = d]
  PROVE  Now(h, a, s, d)
<1> DEFINE t == [acc_req[h] EXCEPT !.at = a, !.sid = s, !.hand = d]
<1>1. acc_req[h] \in Asked
  BY DEF ReqTyped
<1>2. t \in Asked /\ t.at = a /\ t.sid = s /\ t.hand = d
  BY <1>1 DEF Asked, Ids
<1>3. acc_req' = [acc_req EXCEPT ![h] = t]
  BY DEF ReqTyped
<1> HIDE DEF t
<1>4. Now(h, t.at, t.sid, t.hand)
  BY <1>2, <1>3, Put
<1>5. QED
  BY <1>2, <1>4

LEMMA DoneNow ==
  ASSUME ReqTyped, NEW h \in acc_Handlers, Acc!Done(h)
  PROVE  Now(h, "idle", acc_None, acc_None)
<1> DEFINE t == Acc!Rest
<1>1. t \in Asked /\ t.at = "idle" /\ t.sid = acc_None /\ t.hand = acc_None
  BY DEF Asked, Acc!Rest, Acc!Steps, Acc!Kinds
<1>2. acc_req' = [acc_req EXCEPT ![h] = t]
  BY DEF Acc!Done
<1> HIDE DEF t
<1>3. Now(h, t.at, t.sid, t.hand)
  BY <1>1, <1>2, Put
<1>4. QED
  BY <1>1, <1>3

LEMMA AskNow ==
  ASSUME ReqTyped, NEW h \in acc_Handlers, NEW a \in Acc!Steps, NEW k \in Acc!Kinds,
         NEW b \in acc_Browsers, NEW s \in Ids, Acc!Ask(h, a, k, b, s)
  PROVE  Now(h, a, s, acc_None)
<1> DEFINE t == [at |-> a, kind |-> k, who |-> b, sid |-> s, hand |-> acc_None]
<1>1. t \in Asked /\ t.at = a /\ t.sid = s /\ t.hand = acc_None
  BY DEF Asked, Ids
<1>2. acc_req' = [acc_req EXCEPT ![h] = t]
  BY DEF Acc!Ask
<1> HIDE DEF t
<1>3. Now(h, t.at, t.sid, t.hand)
  BY <1>1, <1>2, Put
<1>4. QED
  BY <1>1, <1>3

LEMMA ShapesNow ==
  ASSUME Shapes, NEW h \in acc_Handlers, NEW a, NEW s, NEW d, Now(h, a, s, d),
         a \in Bearing \cup {"take", "read", "renew", "store", "destroy"}
           => s \in acc_Sessions,
         a \in {"look", "exchange"} => s \in acc_Devices,
         a \in {"save", "keep", "renew", "store"} => d \in Acc!Record
  PROVE  Shapes'
BY DEF Shapes, Now

Using == {"read", "renew", "store", "destroy"}

\* A step that makes no session, no claim, and gives no browser a cookie: a request may
\* go on with the session it bears, or with one that is out.
LEMMA Quiet ==
  ASSUME Exclusive, NEW h \in acc_Handlers, NEW a, NEW s, NEW d, Now(h, a, s, d),
         a \in Bearing => acc_req[h].at \in Bearing /\ s = acc_req[h].sid,
         a \in Using => Out(s),
         acc_drawn \subseteq acc_drawn', acc_claims' \subseteq acc_claims,
         \A b \in acc_Browsers : acc_cookie'[b] \in {acc_None, acc_cookie[b]},
         \A e \in acc_ended' : Out(e)
  PROVE  Exclusive'
<1>1. \A g \in acc_Handlers : \A t : Bears(g, t)' => Bears(g, t)
  BY DEF Bears, Now
<1>2. \A t : Out(t) => Out(t)'
  BY <1>1 DEF Out
<1>3. Alone'
  BY <1>1 DEF Exclusive, Alone
<1>4. Gone'
  <2>1. acc_claims' \subseteq acc_drawn'
    BY DEF Exclusive, Gone
  <2>2. \A b \in acc_Browsers : acc_cookie'[b] # acc_None => Out(acc_cookie'[b])
    BY DEF Exclusive, Gone
  <2>3. \A g \in acc_Handlers : acc_req'[g].at \in Using => Out(acc_req'[g].sid)
    BY DEF Exclusive, Gone, Now, Using
  <2>4. QED
    BY <1>2, <2>1, <2>2, <2>3 DEF Gone, Using
<1>5. SessionNotShared'
  BY DEF Exclusive, SessionNotShared, Acc!SessionNotShared
<1>6. QED
  BY <1>3, <1>4, <1>5 DEF Exclusive

\* A step of a request that makes no session, no claim and gives no browser a cookie.
LEMMA Onward ==
  ASSUME AccInv, NEW h \in acc_Handlers, NEW a, NEW s, NEW d, Now(h, a, s, d),
         a \in Bearing => acc_req[h].at \in Bearing /\ s = acc_req[h].sid,
         a \in Using => Out(s) /\ s \in acc_Sessions,
         a = "take" => s \in acc_Sessions, a \in {"look", "exchange"} => s \in acc_Devices,
         a \in {"save", "keep", "renew", "store"} => d \in Acc!Record,
         acc_drawn \subseteq acc_drawn', acc_claims' \subseteq acc_claims,
         \A b \in acc_Browsers : acc_cookie'[b] \in {acc_None, acc_cookie[b]},
         \A e \in acc_ended' : Out(e)
  PROVE  ReqTyped' /\ Shapes' /\ Exclusive'
<1>1. ReqTyped'
  BY DEF ReqTyped, Now
<1>2. a \in Bearing => s \in acc_Sessions
  BY DEF AccInv, Shapes
<1>3. Shapes'
  BY <1>2, ShapesNow DEF AccInv, Using
<1>4. Exclusive'
  BY Quiet DEF AccInv
<1>5. QED
  BY <1>1, <1>3, <1>4

\* ... and leaves the stored sessions alone.
LEMMA Simple ==
  ASSUME AccInv, NEW h \in acc_Handlers, NEW a, NEW s, NEW d, Now(h, a, s, d),
         a \in Bearing => acc_req[h].at \in Bearing /\ s = acc_req[h].sid,
         a \in Using => Out(s) /\ s \in acc_Sessions,
         a = "take" => s \in acc_Sessions, a \in {"look", "exchange"} => s \in acc_Devices,
         a \in {"save", "keep", "renew", "store"} => d \in Acc!Record,
         UNCHANGED <<acc_drawn, acc_claims, acc_session, acc_ended, acc_revived>>,
         \A b \in acc_Browsers : acc_cookie'[b] \in {acc_None, acc_cookie[b]},
         StoreTyped'
  PROVE  AccInv'
<1>1. \A e \in acc_ended' : Out(e)
  BY DEF AccInv, Exclusive, Gone
<1>2. ReqTyped' /\ Shapes' /\ Exclusive'
  BY <1>1, Onward
<1>3. LogoutRevokes'
  BY DEF AccInv, LogoutRevokes, Acc!LogoutRevokes
<1>4. QED
  BY <1>2, <1>3 DEF AccInv

\* The world goes on; sessions, claims and authorizations expire.
LEMMA Beside ==
  ASSUME AccInv, UNCHANGED <<acc_req, acc_cookie, acc_ended, acc_revived>>, StoreTyped',
         acc_drawn \subseteq acc_drawn', acc_claims' \subseteq acc_claims,
         \A s \in acc_Sessions : acc_session'[s] \in {acc_None, acc_session[s]}
  PROVE  AccInv'
<1>1. ReqTyped' /\ Shapes'
  BY DEF AccInv, ReqTyped, Shapes
<1>2. \A g \in acc_Handlers : \A t : Bears(g, t)' => Bears(g, t)
  BY DEF Bears
<1>3. \A t : Out(t) => Out(t)'
  BY <1>2 DEF Out
<1>4. Alone'
  BY <1>2 DEF AccInv, Exclusive, Alone
<1>5. Gone'
  BY <1>3 DEF AccInv, Exclusive, Gone
<1>6. SessionNotShared'
  BY DEF AccInv, Exclusive, SessionNotShared, Acc!SessionNotShared
<1>7. LogoutRevokes'
  BY DEF AccInv, StoreTyped, LogoutRevokes, Acc!LogoutRevokes
<1>8. QED
  BY <1>1, <1>4, <1>5, <1>6, <1>7 DEF AccInv, Exclusive

-----------------------------------------------------------------------------
(* The requests.                                                            *)

LEMMA Asks ==
  ASSUME AccInv, NEW h \in acc_Handlers, NEW a \in Acc!Steps, NEW k \in Acc!Kinds,
         NEW b \in acc_Browsers, NEW s \in Ids, Acc!Ask(h, a, k, b, s),
         a \notin Bearing \cup {"exchange", "renew", "store"},
         a \in {"read", "destroy"} => Out(s) /\ s \in acc_Sessions,
         a = "take" => s \in acc_Sessions, a = "look" => s \in acc_Devices
  PROVE  AccInv'
<1>1. Now(h, a, s, acc_None)
  BY AskNow DEF AccInv
<1>2. UNCHANGED <<acc_drawn, acc_claims, acc_session, acc_ended, acc_revived, acc_cookie>>
      /\ StoreTyped'
  BY DEF AccInv, StoreTyped, Acc!Ask, Acc!storeVars, Acc!twitchVars, Acc!history
<1>3. a \notin {"save", "keep", "renew", "store"} /\ a \notin Bearing
  BY DEF Bearing
<1>4. a \in Using => a \in {"read", "destroy"}
  BY DEF Using
<1>5. QED
  BY <1>1, <1>2, <1>3, <1>4, Simple

LEMMA RequestStep ==
  ASSUME AccInv, NEW h \in acc_Handlers, NEW b \in acc_Browsers, Acc!Request(h, b)
  PROVE  AccInv'
<1> USE DEF Acc!Steps, Acc!Kinds, Bearing, Ids
<1>1. CASE Acc!Import(h, b) \/ Acc!Prepare(h, b)
  BY <1>1, Asks DEF Acc!Import, Acc!Prepare
<1>2. CASE Acc!ClaimLink(h, b) \/ Acc!ClaimLatest(h, b)
  BY <1>2, Asks DEF Acc!ClaimLink, Acc!ClaimLatest
<1>3. CASE Acc!PollDevice(h, b)
  BY <1>3, Asks DEF Acc!PollDevice
<1>4. acc_cookie[b] # acc_None => Out(acc_cookie[b]) /\ acc_cookie[b] \in acc_Sessions
  BY DEF AccInv, Exclusive, Gone, StoreTyped
<1>5. CASE Acc!Use(h, b)
  BY <1>4, <1>5, Asks DEF Acc!Use
<1>6. CASE Acc!Logout(h, b)
  BY <1>4, <1>6, Asks DEF Acc!Logout
<1>7. CASE Acc!StartDevice(h, b)
  <2>1. UNCHANGED <<acc_req, acc_session, acc_claims, acc_latest, acc_cookie, acc_code,
                    acc_granted, acc_aged, acc_ended, acc_revived>>
        /\ acc_drawn \subseteq acc_drawn'
    BY <1>7 DEF Acc!StartDevice, Acc!twitchVars, Acc!history
  <2>2. StoreTyped'
    BY <1>7, <2>1 DEF Acc!StartDevice, AccInv, StoreTyped
  <2>3. QED
    BY <2>1, <2>2, Beside
<1>8. QED
  BY <1>1, <1>2, <1>3, <1>5, <1>6, <1>7 DEF Acc!Request

-----------------------------------------------------------------------------
(* The steps that change where a request is, and little else.               *)

LEMMA SimpleSteps ==
  ASSUME AccInv, NEW h \in acc_Handlers,
         \/ Acc!Vouched(h) \/ Acc!Look(h) \/ Acc!StoreFails(h)
         \/ \E w \in Acc!Steps : Acc!Fails(h, w)
         \/ Acc!Unpoint(h) \/ Acc!Refuse(h) \/ Acc!Clear(h) \/ Acc!RenewFails(h)
  PROVE  AccInv'
<1> DEFINE same == UNCHANGED <<acc_drawn, acc_claims, acc_session, acc_ended, acc_revived>>
<1> USE DEF Bearing, Using, Acc!Steps, Acc!Goto, Acc!At, Acc!storeVars, Acc!twitchVars,
            Acc!history
<1>0. ReqTyped /\ StoreTyped
  BY DEF AccInv
<1>1. CASE Acc!Vouched(h) \/ Acc!StoreFails(h)
  <2>1. \E a \in {"name", "refuse"} : Now(h, a, acc_req[h].sid, acc_req[h].hand)
    BY <1>0, <1>1, GotoNow DEF Acc!Vouched, Acc!StoreFails
  <2>2. same /\ UNCHANGED acc_cookie /\ StoreTyped'
    BY <1>0, <1>1 DEF Acc!Vouched, Acc!StoreFails, StoreTyped
  <2>3. QED
    BY <2>1, <2>2, Simple
<1>2. CASE Acc!Look(h)
  <2>1. \/ Now(h, "exchange", acc_req[h].sid, acc_req[h].hand)
        \/ Now(h, "idle", acc_None, acc_None)
    BY <1>0, <1>2, GotoNow, DoneNow DEF Acc!Look
  <2>2. same /\ UNCHANGED acc_cookie /\ StoreTyped'
    BY <1>0, <1>2 DEF Acc!Look, StoreTyped
  <2>3. acc_req[h].sid \in acc_Devices
    BY <1>2 DEF AccInv, Shapes, Acc!Look
  <2>4. QED
    BY <2>1, <2>2, <2>3, Simple
<1>3. CASE \E w \in Acc!Steps : Acc!Fails(h, w)
  <2>1. Now(h, "idle", acc_None, acc_None)
    BY <1>0, <1>3, DoneNow DEF Acc!Fails
  <2>2. same /\ UNCHANGED acc_cookie /\ StoreTyped'
    BY <1>0, <1>3 DEF Acc!Fails, StoreTyped
  <2>3. QED
    BY <2>1, <2>2, Simple
<1>4. CASE Acc!Unpoint(h)
  <2>1. Now(h, "load", acc_req[h].sid, acc_req[h].hand) /\ acc_req[h].at = "unpoint"
    BY <1>0, <1>4, GotoNow DEF Acc!Unpoint
  <2>2. same /\ UNCHANGED acc_cookie /\ StoreTyped'
    BY <1>0, <1>4 DEF Acc!Unpoint, StoreTyped
  <2>3. QED
    BY <2>1, <2>2, Simple
<1>5. CASE Acc!Refuse(h) \/ Acc!Clear(h)
  <2>1. Now(h, "idle", acc_None, acc_None)
    BY <1>0, <1>5, DoneNow DEF Acc!Refuse, Acc!Clear
  <2>2. same /\ StoreTyped'
        /\ \A b \in acc_Browsers : acc_cookie'[b] \in {acc_None, acc_cookie[b]}
    BY <1>0, <1>5 DEF Acc!Refuse, Acc!Clear, StoreTyped
  <2>3. QED
    BY <2>1, <2>2, Simple
<1>6. CASE Acc!RenewFails(h)
  <2>1. Now(h, "refuse", acc_req[h].sid, acc_req[h].hand)
    BY <1>0, <1>6, GotoNow DEF Acc!RenewFails
  <2>2. same /\ UNCHANGED acc_cookie
    BY <1>6 DEF Acc!RenewFails
  <2>3. acc_granted' \in [acc_Sessions -> 1 .. acc_MaxGen]
    BY <1>0, <1>6, ServicePartsAssumption DEF Acc!RenewFails, StoreTyped
  <2>4. StoreTyped'
    BY <1>0, <1>6, <2>3 DEF Acc!RenewFails, StoreTyped
  <2>5. QED
    BY <2>1, <2>2, <2>4, Simple
<1>7. QED
  BY <1>1, <1>2, <1>3, <1>4, <1>5, <1>6

LEMMA PickStep ==
  ASSUME AccInv, NEW h \in acc_Handlers, Acc!Pick(h)
  PROVE  AccInv'
<1>0. ReqTyped /\ StoreTyped
  BY DEF AccInv
<1>1. \/ acc_latest # acc_None /\ Now(h, "take", acc_latest, acc_req[h].hand)
      \/ Now(h, "idle", acc_None, acc_None)
  <2>1. CASE acc_latest = acc_None
    BY <1>0, <2>1, DoneNow DEF Acc!Pick
  <2>2. CASE acc_latest # acc_None
    <3>1. acc_latest \in Ids /\ "take" \in Acc!Steps
      BY <1>0 DEF StoreTyped, Ids, Acc!Steps
    <3>2. acc_req' = [acc_req EXCEPT ![h].at = "take", ![h].sid = acc_latest]
      BY <2>2 DEF Acc!Pick
    <3>3. QED
      BY <1>0, <2>2, <3>1, <3>2, SidNow
  <2>3. QED
    BY <2>1, <2>2
<1>2. UNCHANGED <<acc_drawn, acc_claims, acc_session, acc_ended, acc_revived, acc_cookie>>
      /\ StoreTyped'
  BY <1>0 DEF Acc!Pick, StoreTyped, Acc!twitchVars, Acc!history
<1>3. acc_latest # acc_None => acc_latest \in acc_Sessions
  BY <1>0 DEF StoreTyped
<1>4. QED
  BY <1>1, <1>2, <1>3, Simple DEF Bearing, Using

LEMMA LoadStep ==
  ASSUME AccInv, NEW h \in acc_Handlers, Acc!Load(h)
  PROVE  AccInv'
<1> DEFINE s == acc_req[h].sid
<1>0. ReqTyped /\ StoreTyped /\ acc_req[h].at = "load" /\ s \in acc_Sessions
  BY DEF AccInv, Shapes, Bearing, Acc!Load, Acc!At
<1>1. \/ acc_session[s] \in Acc!Record /\ Now(h, "keep", s, acc_session[s])
      \/ Now(h, "idle", acc_None, acc_None)
  <2>1. CASE acc_session[s] = acc_None
    BY <1>0, <2>1, DoneNow DEF Acc!Load
  <2>2. CASE acc_session[s] # acc_None
    <3>1. acc_session[s] \in Acc!Record /\ "keep" \in Acc!Steps
      BY <1>0, <2>2 DEF StoreTyped, Acc!Steps
    <3>2. acc_req' = [acc_req EXCEPT ![h].at = "keep", ![h].hand = acc_session[s]]
      BY <2>2 DEF Acc!Load
    <3>3. QED
      BY <1>0, <3>1, <3>2, HandNow
  <2>3. QED
    BY <2>1, <2>2
<1>2. UNCHANGED <<acc_drawn, acc_claims, acc_session, acc_ended, acc_revived, acc_cookie>>
      /\ StoreTyped'
  BY <1>0 DEF Acc!Load, StoreTyped, Acc!storeVars, Acc!twitchVars, Acc!history
<1>3. QED
  BY <1>0, <1>1, <1>2, Simple DEF Bearing, Using

LEMMA ExchangeStep ==
  ASSUME AccInv, NEW h \in acc_Handlers, Acc!Exchange(h) \/ Acc!ExchangeLost(h)
  PROVE  AccInv'
<1> USE DEF Acc!twitchVars, Acc!storeVars, Acc!history, Acc!Steps
<1>0. ReqTyped /\ StoreTyped
  BY DEF AccInv
<1>1. \/ Now(h, "vouch", acc_None, acc_req[h].hand)
      \/ Now(h, "idle", acc_None, acc_None)
  <2>1. CASE Acc!Exchange(h) /\ acc_code[acc_req[h].sid] = "granted"
    <3>1. acc_req' = [acc_req EXCEPT ![h].at = "vouch", ![h].sid = acc_None]
      BY <2>1 DEF Acc!Exchange
    <3>2. acc_None \in Ids /\ "vouch" \in Acc!Steps
      BY DEF Ids
    <3>3. QED
      BY <1>0, <3>1, <3>2, SidNow
  <2>2. CASE Acc!Exchange(h) /\ acc_code[acc_req[h].sid] # "granted"
    <3>1. Acc!Done(h)
      BY <2>2 DEF Acc!Exchange
    <3>2. QED
      BY <1>0, <3>1, DoneNow
  <2>3. CASE Acc!ExchangeLost(h)
    BY <1>0, <2>3, DoneNow DEF Acc!ExchangeLost
  <2>4. QED
    BY <2>1, <2>2, <2>3
<1>2. UNCHANGED <<acc_session, acc_claims, acc_latest, acc_cookie, acc_drawn, acc_granted,
                  acc_aged, acc_ended, acc_revived>>
  BY DEF Acc!Exchange, Acc!ExchangeLost
<1>3. acc_device' \subseteq acc_device
      /\ acc_code' \in [acc_Devices -> {"open", "granted", "denied", "spent"}]
  BY <1>0 DEF Acc!Exchange, Acc!ExchangeLost, StoreTyped
<1>4. StoreTyped'
  BY <1>0, <1>2, <1>3 DEF StoreTyped
<1>5. QED
  BY <1>1, <1>2, <1>4, Simple DEF Bearing, Using

LEMMA ReadStep ==
  ASSUME AccInv, NEW h \in acc_Handlers, Acc!Read(h)
  PROVE  AccInv'
<1> DEFINE s == acc_req[h].sid
           rec == acc_session[s]
<1>0. ReqTyped /\ StoreTyped /\ acc_req[h].at = "read" /\ s \in acc_Sessions /\ Out(s)
  BY DEF AccInv, Shapes, Exclusive, Gone, Acc!Read, Acc!At
<1>1. \/ rec \in Acc!Record /\ Now(h, "renew", s, rec)
      \/ Now(h, "refuse", s, acc_req[h].hand)
      \/ Now(h, "idle", acc_None, acc_None)
  <2>1. \/ Acc!Goto(h, "refuse")
        \/ Acc!Done(h)
        \/ rec # acc_None /\ acc_req' = [acc_req EXCEPT ![h].at = "renew", ![h].hand = rec]
    <3>1. CASE rec = acc_None
      BY <3>1 DEF Acc!Read
    <3>2. CASE rec # acc_None /\ ~Acc!Due(rec, s)
      BY <3>2 DEF Acc!Read
    <3>3. CASE rec # acc_None /\ Acc!Due(rec, s) /\ ~rec.renew
      BY <3>3 DEF Acc!Read
    <3>4. CASE rec # acc_None /\ Acc!Due(rec, s) /\ rec.renew
      BY <3>4 DEF Acc!Read
    <3>5. QED
      BY <3>1, <3>2, <3>3, <3>4
  <2>2. rec # acc_None => rec \in Acc!Record
    BY <1>0 DEF StoreTyped
  <2>3. "refuse" \in Acc!Steps /\ "renew" \in Acc!Steps
    BY DEF Acc!Steps
  <2>4. QED
    BY <1>0, <2>1, <2>2, <2>3, GotoNow, DoneNow, HandNow DEF Acc!Goto
<1>2. UNCHANGED <<acc_drawn, acc_claims, acc_session, acc_ended, acc_revived, acc_cookie>>
      /\ StoreTyped'
  BY <1>0 DEF Acc!Read, StoreTyped, Acc!storeVars, Acc!twitchVars, Acc!history
<1>3. QED
  BY <1>0, <1>1, <1>2, Simple DEF Bearing, Using

LEMMA RenewedStep ==
  ASSUME AccInv, NEW h \in acc_Handlers, Acc!Renewed(h)
  PROVE  AccInv'
<1> DEFINE s == acc_req[h].sid
           new == [gen |-> acc_granted[s] + 1, renew |-> TRUE, long |-> TRUE]
<1>0. ReqTyped /\ StoreTyped /\ acc_req[h].at = "renew" /\ s \in acc_Sessions /\ Out(s)
  BY DEF AccInv, Shapes, Exclusive, Gone, Acc!Renewed, Acc!At
<1>1. acc_granted[s] \in 1 .. acc_MaxGen
  BY <1>0 DEF StoreTyped
<1>2. \/ /\ Now(h, "store", s, new) /\ new \in Acc!Record
         /\ acc_granted' = [acc_granted EXCEPT ![s] = acc_granted[s] + 1]
         /\ acc_granted[s] < acc_MaxGen
      \/ Now(h, "refuse", s, acc_req[h].hand) /\ UNCHANGED acc_granted
  <2>1. CASE acc_req[h].hand.gen = acc_granted[s]
    <3>1. /\ acc_granted[s] < acc_MaxGen
          /\ acc_granted' = [acc_granted EXCEPT ![s] = acc_granted[s] + 1]
          /\ acc_req' = [acc_req EXCEPT ![h].at = "store", ![h].hand = new]
      BY <2>1 DEF Acc!Renewed
    <3>2. acc_granted[s] + 1 \in 1 .. acc_MaxGen
      BY <1>1, <3>1, ServicePartsAssumption
    <3>3. new \in Acc!Record
      BY <3>2, RecordOf
    <3>4. "store" \in Acc!Steps
      BY DEF Acc!Steps
    <3> HIDE DEF new
    <3>5. Now(h, "store", s, new)
      BY <1>0, <3>1, <3>3, <3>4, HandNow
    <3>6. QED
      BY <3>1, <3>3, <3>5
  <2>2. CASE acc_req[h].hand.gen # acc_granted[s]
    <3>1. Acc!Goto(h, "refuse") /\ UNCHANGED acc_granted
      BY <2>2 DEF Acc!Renewed
    <3>2. "refuse" \in Acc!Steps
      BY DEF Acc!Steps
    <3>3. QED
      BY <1>0, <3>1, <3>2, GotoNow DEF Acc!Goto
  <2>3. QED
    BY <2>1, <2>2
<1>3. acc_granted' \in [acc_Sessions -> 1 .. acc_MaxGen]
  BY <1>0, <1>1, <1>2, ServicePartsAssumption DEF StoreTyped
<1>4. UNCHANGED <<acc_session, acc_claims, acc_latest, acc_device, acc_cookie, acc_drawn,
                  acc_code, acc_aged, acc_ended, acc_revived>>
  BY DEF Acc!Renewed, Acc!storeVars, Acc!history
<1>5. StoreTyped'
  BY <1>0, <1>3, <1>4 DEF StoreTyped
<1> HIDE DEF new
<1>6. QED
  BY <1>0, <1>2, <1>4, <1>5, Simple DEF Bearing, Using

-----------------------------------------------------------------------------
(* The steps that write a session.                                          *)

LEMMA SavedStep ==
  ASSUME AccInv, NEW h \in acc_Handlers, Acc!Saved(h)
  PROVE  AccInv'
<1> DEFINE s == acc_req[h].sid
<1>0. /\ ReqTyped /\ StoreTyped /\ LogoutRevokes /\ acc_req[h].at = "save"
      /\ s \in acc_Sessions /\ acc_req[h].hand \in Acc!Record
  BY DEF AccInv, Shapes, Bearing, Acc!Saved, Acc!At
<1>1. \E a \in {"point", "answer"} : Now(h, a, s, acc_req[h].hand)
  BY <1>0, GotoNow DEF Acc!Saved, Acc!Goto, Acc!Steps
<1>2. /\ acc_session' = [acc_session EXCEPT ![s] = acc_req[h].hand]
      /\ UNCHANGED <<acc_claims, acc_latest, acc_device, acc_cookie, acc_drawn, acc_code,
                     acc_granted, acc_aged, acc_ended, acc_revived>>
  BY DEF Acc!Saved, Acc!twitchVars, Acc!history
<1>3. StoreTyped'
  BY <1>0, <1>2 DEF StoreTyped
<1>4. \A e \in acc_ended' : Out(e)
  BY <1>2 DEF AccInv, Exclusive, Gone
<1>5. ReqTyped' /\ Shapes' /\ Exclusive'
  BY <1>0, <1>1, <1>2, <1>4, Onward DEF Bearing, Using
<1>6. s \notin acc_ended
  BY <1>0 DEF AccInv, Exclusive, Gone, Out, Bears, Bearing
<1>7. LogoutRevokes'
  BY <1>0, <1>2, <1>6 DEF LogoutRevokes, Acc!LogoutRevokes, StoreTyped
<1>8. QED
  BY <1>3, <1>5, <1>7 DEF AccInv

LEMMA KeepStep ==
  ASSUME AccInv, NEW h \in acc_Handlers, Acc!Keep(h)
  PROVE  AccInv'
<1> DEFINE s == acc_req[h].sid
           r == [acc_req[h].hand EXCEPT !.long = TRUE]
<1>0. /\ ReqTyped /\ StoreTyped /\ LogoutRevokes /\ acc_req[h].at = "keep"
      /\ s \in acc_Sessions /\ r \in Acc!Record
  BY RecordLong DEF AccInv, Shapes, Bearing, Acc!Keep, Acc!At
<1>1. Now(h, "answer", s, acc_req[h].hand)
  BY <1>0, GotoNow DEF Acc!Keep, Acc!Goto, Acc!Steps
<1>2. /\ acc_session' = [acc_session EXCEPT ![s] = r]
      /\ UNCHANGED <<acc_claims, acc_latest, acc_device, acc_cookie, acc_drawn, acc_code,
                     acc_granted, acc_aged, acc_ended, acc_revived>>
  BY DEF Acc!Keep, Acc!twitchVars, Acc!history
<1> HIDE DEF r
<1>3. StoreTyped'
  BY <1>0, <1>2 DEF StoreTyped
<1>4. \A e \in acc_ended' : Out(e)
  BY <1>2 DEF AccInv, Exclusive, Gone
<1>5. ReqTyped' /\ Shapes' /\ Exclusive'
  BY <1>0, <1>1, <1>2, <1>4, Onward DEF Bearing, Using
<1>6. s \notin acc_ended
  BY <1>0 DEF AccInv, Exclusive, Gone, Out, Bears, Bearing
<1>7. LogoutRevokes'
  BY <1>0, <1>2, <1>6 DEF LogoutRevokes, Acc!LogoutRevokes, StoreTyped
<1>8. QED
  BY <1>3, <1>5, <1>7 DEF AccInv

\* A refresh writes back what it had read; if the session was ended meanwhile, that is
\* written down.
LEMMA StoreStep ==
  ASSUME AccInv, NEW h \in acc_Handlers, Acc!Store(h)
  PROVE  AccInv'
<1> DEFINE s == acc_req[h].sid
<1>0. /\ ReqTyped /\ StoreTyped /\ LogoutRevokes /\ acc_req[h].at = "store"
      /\ s \in acc_Sessions /\ acc_req[h].hand \in Acc!Record
  BY DEF AccInv, Shapes, Acc!Store, Acc!At
<1>1. Now(h, "idle", acc_None, acc_None)
  BY <1>0, DoneNow DEF Acc!Store
<1>2. /\ acc_session' = [acc_session EXCEPT ![s] = acc_req[h].hand]
      /\ acc_revived' = IF s \in acc_ended THEN acc_revived \cup {s} ELSE acc_revived
      /\ UNCHANGED <<acc_claims, acc_latest, acc_device, acc_cookie, acc_drawn, acc_code,
                     acc_granted, acc_aged, acc_ended>>
  BY DEF Acc!Store, Acc!twitchVars
<1>3. StoreTyped'
  BY <1>0, <1>2 DEF StoreTyped
<1>4. \A e \in acc_ended' : Out(e)
  BY <1>2 DEF AccInv, Exclusive, Gone
<1>5. ReqTyped' /\ Shapes' /\ Exclusive'
  BY <1>0, <1>1, <1>2, <1>4, Onward DEF Bearing, Using
<1>6. LogoutRevokes'
  BY <1>0, <1>2 DEF LogoutRevokes, Acc!LogoutRevokes, StoreTyped
<1>7. QED
  BY <1>3, <1>5, <1>6 DEF AccInv

LEMMA DestroyStep ==
  ASSUME AccInv, NEW h \in acc_Handlers, Acc!Destroy(h)
  PROVE  AccInv'
<1> DEFINE s == acc_req[h].sid
<1>0. /\ ReqTyped /\ StoreTyped /\ LogoutRevokes /\ acc_req[h].at = "destroy"
      /\ s \in acc_Sessions /\ Out(s)
  BY DEF AccInv, Shapes, Exclusive, Gone, Acc!Destroy, Acc!At
<1>1. Now(h, "clear", s, acc_req[h].hand)
  BY <1>0, GotoNow DEF Acc!Destroy, Acc!Goto, Acc!Steps
<1>2. /\ \/ /\ acc_session' = [acc_session EXCEPT ![s] = acc_None]
            /\ acc_ended' = acc_ended \cup {s}
         \/ UNCHANGED <<acc_session, acc_ended>>
      /\ UNCHANGED <<acc_claims, acc_latest, acc_device, acc_cookie, acc_drawn, acc_code,
                     acc_granted, acc_aged, acc_revived>>
  BY DEF Acc!Destroy, Acc!twitchVars
<1>3. StoreTyped'
  BY <1>0, <1>2 DEF StoreTyped
<1>4. \A e \in acc_ended' : Out(e)
  BY <1>0, <1>2 DEF AccInv, Exclusive, Gone
<1>5. ReqTyped' /\ Shapes' /\ Exclusive'
  BY <1>0, <1>1, <1>2, <1>4, Onward DEF Bearing, Using
<1>6. LogoutRevokes'
  BY <1>0, <1>2 DEF LogoutRevokes, Acc!LogoutRevokes, StoreTyped
<1>7. QED
  BY <1>3, <1>5, <1>6 DEF AccInv

-----------------------------------------------------------------------------
(* The steps by which a session goes from hand to hand.                     *)

LEMMA NamedStep ==
  ASSUME AccInv, NEW h \in acc_Handlers, Acc!Named(h)
  PROVE  AccInv'
<1>0. ReqTyped /\ StoreTyped /\ Shapes /\ Exclusive /\ LogoutRevokes
  BY DEF AccInv
<1>1. PICK s \in acc_Sessions \ acc_drawn, renew \in BOOLEAN :
        /\ acc_drawn' = acc_drawn \cup {s}
        /\ acc_req' = [acc_req EXCEPT ![h].at = "save", ![h].sid = s,
                         ![h].hand = [gen |-> 1, renew |-> renew,
                                      long |-> acc_req[h].kind # "prepare"]]
  BY DEF Acc!Named
<1> DEFINE r == [gen |-> 1, renew |-> renew, long |-> acc_req[h].kind # "prepare"]
<1>2. r \in Acc!Record
  BY ServicePartsAssumption DEF Acc!Record
<1>3. s \in Ids /\ "save" \in Acc!Steps
  BY DEF Ids, Acc!Steps
<1> HIDE DEF r
<1>4. Now(h, "save", s, r)
  BY <1>0, <1>1, <1>2, <1>3, AllNow DEF r
<1>5. UNCHANGED <<acc_session, acc_claims, acc_latest, acc_device, acc_cookie, acc_code,
                  acc_granted, acc_aged, acc_ended, acc_revived>>
  BY DEF Acc!Named, Acc!storeVars, Acc!twitchVars, Acc!history
<1>6. StoreTyped'
  BY <1>0, <1>1, <1>5 DEF StoreTyped
<1>7. Shapes'
  BY <1>0, <1>2, <1>4, ShapesNow
<1>8. \A g \in acc_Handlers : ~Bears(g, s)
  BY <1>0 DEF Exclusive, Alone
<1>9. \A g \in acc_Handlers : \A t : t # s /\ Bears(g, t)' => Bears(g, t)
  BY <1>4 DEF Bears, Now
<1>10. \A g \in acc_Handlers : Bears(g, s)' => g = h
  BY <1>4, <1>8 DEF Bears, Now
<1>11. s \notin acc_claims
  BY <1>0 DEF Exclusive, Gone
<1>12. \A t : Out(t) => t # s /\ Out(t)'
  BY <1>1, <1>5, <1>9 DEF Out
<1>13. Alone'
  BY <1>0, <1>1, <1>5, <1>9, <1>10, <1>11 DEF Exclusive, Alone
<1>14. Gone'
  BY <1>0, <1>1, <1>4, <1>5, <1>12 DEF Exclusive, Gone, Now
<1>15. SessionNotShared' /\ LogoutRevokes'
  BY <1>0, <1>5 DEF Exclusive, SessionNotShared, Acc!SessionNotShared, LogoutRevokes,
                    Acc!LogoutRevokes
<1>16. ReqTyped'
  BY <1>4 DEF ReqTyped, Now
<1>17. QED
  BY <1>6, <1>7, <1>13, <1>14, <1>15, <1>16 DEF AccInv, Exclusive

\* A claim is made for the session the request bears, which it gives up.
LEMMA PointStep ==
  ASSUME AccInv, NEW h \in acc_Handlers, Acc!Point(h)
  PROVE  AccInv'
<1> DEFINE s == acc_req[h].sid
<1>0. /\ ReqTyped /\ StoreTyped /\ Shapes /\ Exclusive /\ LogoutRevokes
      /\ s \in acc_Sessions /\ acc_req[h].at = "point"
  BY DEF AccInv, Shapes, Bearing, Acc!Point, Acc!At
<1>1. Now(h, "idle", acc_None, acc_None)
  BY <1>0, DoneNow DEF Acc!Point
<1>2. /\ acc_claims' = acc_claims \cup {s} /\ acc_latest' = s
      /\ UNCHANGED <<acc_session, acc_device, acc_cookie, acc_drawn, acc_code, acc_granted,
                     acc_aged, acc_ended, acc_revived>>
  BY DEF Acc!Point, Acc!twitchVars, Acc!history
<1>3. StoreTyped'
  BY <1>0, <1>2 DEF StoreTyped
<1>4. Shapes'
  BY <1>0, <1>1, ShapesNow DEF Bearing
<1>5. Bears(h, s)
  BY <1>0 DEF Bears, Bearing
<1>6. s \in acc_drawn /\ \A g \in acc_Handlers : Bears(g, s) => g = h
  BY <1>0, <1>5 DEF Exclusive, Alone
<1>7. \A g \in acc_Handlers : \A t : Bears(g, t)' => g # h /\ Bears(g, t)
  BY <1>1 DEF Bears, Now, Bearing
<1>8. \A t : Out(t) => t # s /\ Out(t)'
  BY <1>2, <1>5, <1>7 DEF Out
<1>9. Alone'
  BY <1>0, <1>2, <1>6, <1>7 DEF Exclusive, Alone
<1>10. Gone'
  BY <1>0, <1>1, <1>2, <1>6, <1>8 DEF Exclusive, Gone, Now
<1>11. SessionNotShared' /\ LogoutRevokes'
  BY <1>0, <1>2 DEF Exclusive, SessionNotShared, Acc!SessionNotShared, LogoutRevokes,
                    Acc!LogoutRevokes
<1>12. ReqTyped'
  BY <1>1 DEF ReqTyped, Now
<1>13. QED
  BY <1>3, <1>4, <1>9, <1>10, <1>11, <1>12 DEF AccInv, Exclusive

\* A claim is taken once: who takes it bears the session from then on.
LEMMA TakeStep ==
  ASSUME AccInv, NEW h \in acc_Handlers, Acc!Take(h)
  PROVE  AccInv'
<1>s. PICK s \in acc_Sessions : s = acc_req[h].sid
  BY DEF AccInv, Shapes, Acc!Take, Acc!At
<1> USE <1>s
<1>0. /\ ReqTyped /\ StoreTyped /\ Shapes /\ Exclusive /\ LogoutRevokes
      /\ s \in acc_Sessions /\ acc_req[h].at = "take"
  BY DEF AccInv, Shapes, Acc!Take, Acc!At
<1>1. /\ acc_claims' = acc_claims \ {s}
      /\ UNCHANGED <<acc_session, acc_latest, acc_device, acc_cookie, acc_drawn, acc_code,
                     acc_granted, acc_aged, acc_ended, acc_revived>>
  BY DEF Acc!Take, Acc!twitchVars, Acc!history
<1>2. StoreTyped'
  BY <1>0, <1>1 DEF StoreTyped
<1>3. CASE s \notin acc_claims
  <2>1. Now(h, "idle", acc_None, acc_None)
    BY <1>0, <1>3, DoneNow DEF Acc!Take
  <2>2. \A e \in acc_ended' : Out(e)
    BY <1>0, <1>1 DEF Exclusive, Gone
  <2>3. ReqTyped' /\ Shapes' /\ Exclusive'
    BY <1>1, <2>1, <2>2, Onward DEF Bearing, Using
  <2>4. LogoutRevokes'
    BY <1>0, <1>1 DEF LogoutRevokes, Acc!LogoutRevokes
  <2>5. QED
    BY <1>2, <2>3, <2>4 DEF AccInv
<1>4. CASE s \in acc_claims
  <2>1. PICK a \in {"unpoint", "load"} : Now(h, a, s, acc_req[h].hand)
    BY <1>0, <1>4, GotoNow DEF Acc!Take, Acc!Goto, Acc!Steps
  <2>2. Shapes'
    BY <1>0, <2>1, ShapesNow
  <2>3. s \in acc_drawn /\ \A g \in acc_Handlers : ~Bears(g, s)
    BY <1>0, <1>4 DEF Exclusive, Gone, Alone
  <2>4. \A g \in acc_Handlers : \A t : t # s /\ Bears(g, t)' => Bears(g, t)
    BY <2>1 DEF Bears, Now
  <2>5. \A g \in acc_Handlers : Bears(g, s)' => g = h
    BY <2>1, <2>3 DEF Bears, Now
  <2>6. \A t : Out(t) => t # s /\ Out(t)'
    BY <1>1, <1>4, <2>4 DEF Out
  <2>7. Alone'
    BY <1>0, <1>1, <2>3, <2>4, <2>5 DEF Exclusive, Alone
  <2>8. Gone'
    BY <1>0, <1>1, <2>1, <2>6 DEF Exclusive, Gone, Now
  <2>9. SessionNotShared' /\ LogoutRevokes'
    BY <1>0, <1>1 DEF Exclusive, SessionNotShared, Acc!SessionNotShared, LogoutRevokes,
                      Acc!LogoutRevokes
  <2>10. ReqTyped'
    BY <2>1 DEF ReqTyped, Now
  <2>11. QED
    BY <1>2, <2>2, <2>7, <2>8, <2>9, <2>10 DEF AccInv, Exclusive
<1>5. QED
  BY <1>3, <1>4

\* The browser gets the session, and nobody bears it any more.
LEMMA AnswerStep ==
  ASSUME AccInv, NEW h \in acc_Handlers, Acc!Answer(h)
  PROVE  AccInv'
<1>s. PICK s \in acc_Sessions : s = acc_req[h].sid
  BY DEF AccInv, Shapes, Bearing, Acc!Answer, Acc!At
<1>b. PICK b : b = acc_req[h].who
  OBVIOUS
<1> USE <1>s, <1>b
<1>0. /\ ReqTyped /\ StoreTyped /\ Shapes /\ Exclusive /\ LogoutRevokes
      /\ s \in acc_Sessions /\ acc_req[h].at = "answer"
  BY DEF AccInv, Shapes, Bearing, Acc!Answer, Acc!At
<1>1. Now(h, "idle", acc_None, acc_None)
  BY <1>0, DoneNow DEF Acc!Answer
<1>2. /\ acc_cookie' = [acc_cookie EXCEPT ![b] = s]
      /\ UNCHANGED <<acc_session, acc_claims, acc_latest, acc_device, acc_drawn, acc_code,
                     acc_granted, acc_aged, acc_ended, acc_revived>>
  BY DEF Acc!Answer, Acc!storeVars, Acc!twitchVars, Acc!history
<1>3. StoreTyped'
  BY <1>0, <1>2 DEF StoreTyped
<1>4. Shapes'
  BY <1>0, <1>1, ShapesNow DEF Bearing
<1>5. Bears(h, s)
  BY <1>0 DEF Bears, Bearing
<1>6. /\ s \in acc_drawn /\ s \notin acc_claims
      /\ \A g \in acc_Handlers : Bears(g, s) => g = h
  BY <1>0, <1>5 DEF Exclusive, Alone
<1>7. \A g \in acc_Handlers : \A t : Bears(g, t)' => g # h /\ Bears(g, t)
  BY <1>1 DEF Bears, Now, Bearing
<1>8. Out(s)' /\ \A t : Out(t) => t # s /\ Out(t)'
  BY <1>2, <1>5, <1>6, <1>7 DEF Out
<1>9. Alone'
  BY <1>0, <1>2, <1>7 DEF Exclusive, Alone
<1>10. \A c \in acc_Browsers : acc_cookie'[c] = IF c = b THEN s ELSE acc_cookie[c]
  BY <1>0, <1>2 DEF StoreTyped
<1>11. Gone'
  BY <1>0, <1>1, <1>2, <1>8, <1>10 DEF Exclusive, Gone, Now
<1>12. \A c \in acc_Browsers : acc_cookie[c] # s
  BY <1>0, <1>8, ServicePartsAssumption DEF Exclusive, Gone
<1>13. SessionNotShared' /\ LogoutRevokes'
  BY <1>0, <1>2, <1>10, <1>12 DEF Exclusive, SessionNotShared, Acc!SessionNotShared,
                              LogoutRevokes, Acc!LogoutRevokes
<1>14. ReqTyped'
  BY <1>1 DEF ReqTyped, Now
<1>15. QED
  BY <1>3, <1>4, <1>9, <1>11, <1>13, <1>14 DEF AccInv, Exclusive

-----------------------------------------------------------------------------

LEMMA WorldStep ==
  ASSUME AccInv,
         \/ \E s \in acc_Sessions : Acc!Age(s)
         \/ \E d \in acc_Devices : Acc!Decide(d)
         \/ Acc!Expire
         \/ UNCHANGED Acc!vars
  PROVE  AccInv'
<1> USE DEF Acc!storeVars, Acc!twitchVars, Acc!history
<1>0. StoreTyped
  BY DEF AccInv
<1>1. CASE \E s \in acc_Sessions : Acc!Age(s)
  <2>1. acc_aged' \in [acc_Sessions -> 0 .. acc_MaxGen]
    BY <1>0, <1>1, ServicePartsAssumption DEF Acc!Age, StoreTyped
  <2>2. StoreTyped'
    BY <1>0, <1>1, <2>1 DEF Acc!Age, StoreTyped
  <2>3. QED
    BY <1>1, <2>2, Beside DEF Acc!Age
<1>2. CASE \E d \in acc_Devices : Acc!Decide(d)
  <2>1. StoreTyped'
    BY <1>0, <1>2 DEF Acc!Decide, StoreTyped
  <2>2. QED
    BY <1>2, <2>1, Beside DEF Acc!Decide
<1>3. CASE Acc!Expire
  <2>1. StoreTyped'
    BY <1>0, <1>3 DEF Acc!Expire, StoreTyped
  <2>2. /\ acc_claims' \subseteq acc_claims
        /\ \A s \in acc_Sessions : acc_session'[s] \in {acc_None, acc_session[s]}
    BY <1>0, <1>3 DEF Acc!Expire, StoreTyped
  <2>3. UNCHANGED <<acc_req, acc_cookie, acc_ended, acc_revived, acc_drawn>>
    BY <1>3 DEF Acc!Expire
  <2>4. QED
    BY <2>1, <2>2, <2>3, Beside
<1>4. CASE UNCHANGED Acc!vars
  <2>1. StoreTyped'
    BY <1>0, <1>4 DEF Acc!vars, StoreTyped
  <2>2. QED
    BY <1>4, <2>1, Beside DEF Acc!vars
<1>5. QED
  BY <1>1, <1>2, <1>3, <1>4

LEMMA AccStep == AccInv /\ [Acc!Next]_(Acc!vars) => AccInv'
<1> SUFFICES ASSUME AccInv, [Acc!Next]_(Acc!vars) PROVE AccInv'
  OBVIOUS
<1>1. ASSUME NEW h \in acc_Handlers, NEW b \in acc_Browsers, Acc!Request(h, b)
      PROVE  AccInv'
  BY <1>1, RequestStep
<1>2. ASSUME NEW h \in acc_Handlers, Acc!Step(h) PROVE AccInv'
  <2>1. \/ Acc!Vouched(h) \/ Acc!Look(h) \/ Acc!StoreFails(h)
        \/ \E w \in Acc!Steps : Acc!Fails(h, w)
        \/ Acc!Unpoint(h) \/ Acc!Refuse(h) \/ Acc!Clear(h) \/ Acc!RenewFails(h)
        \/ Acc!Named(h) \/ Acc!Saved(h) \/ Acc!Point(h) \/ Acc!Answer(h) \/ Acc!Pick(h)
        \/ Acc!Take(h) \/ Acc!Load(h) \/ Acc!Keep(h) \/ Acc!Exchange(h)
        \/ Acc!ExchangeLost(h) \/ Acc!Read(h) \/ Acc!Renewed(h) \/ Acc!Store(h)
        \/ Acc!Destroy(h)
    BY <1>2 DEF Acc!Step, Acc!Steps
  <2>2. QED
    BY <2>1, SimpleSteps, NamedStep, SavedStep, PointStep, AnswerStep, PickStep, TakeStep,
       LoadStep, KeepStep, ExchangeStep, ReadStep, RenewedStep, StoreStep, DestroyStep
<1>3. QED
  BY <1>1, <1>2, WorldStep DEF Acc!Next

(***************************************************************************)
(* The types, who bears which session and which went out, hold throughout. *)
(***************************************************************************)
THEOREM AccInductive == Acc!Spec => []AccInv
BY AccInit, AccStep, PTL DEF Acc!Spec

\* Every variable of the accounts has its type (store.go:20-52).
THEOREM AccountTypes == Acc!Spec => [](Acc!TypeOK)
<1>1. AccInv => Acc!TypeOK
  BY AccTypes DEF AccInv
<1>2. QED
  BY AccInductive, <1>1, PTL

(***************************************************************************)
(* No two browsers hold the same session, for any number of browsers and   *)
(* of requests at the same time: an id is drawn once, and the claim for it *)
(* taken in one transaction, so that one request at most bears a session   *)
(* and, once a browser has it, none does (store.go:62-91).                 *)
(***************************************************************************)
THEOREM SessionsAreNotShared == Acc!Spec => []SessionNotShared
<1>1. AccInv => SessionNotShared
  BY DEF AccInv, Exclusive
<1>2. QED
  BY AccInductive, <1>1, PTL

(***************************************************************************)
(* What a logout deleted stays deleted, unless a refresh that had read it  *)
(* writes it back: whoever could still make or claim that session is gone  *)
(* before a browser has it (handler.go:216, 585).                          *)
(***************************************************************************)
THEOREM LogoutsRevoke == Acc!Spec => []LogoutRevokes
<1>1. AccInv => LogoutRevokes
  BY DEF AccInv
<1>2. QED
  BY AccInductive, <1>1, PTL

-----------------------------------------------------------------------------
(* The cached views of the metadata service (Metadata).                     *)

\* A request or warmer, and the types of TypeOK, taken apart.
Turns ==
  [at : {"idle", "failed", "look", "join", "wait", "fetch", "fresh", "stale",
         "back", "posts", "again", "kick", "keep"},
   view : md_Views \cup {md_None}, refresh : BOOLEAN,
   answer : Meta!Answers \cup {md_None}, gone : BOOLEAN]

TurnsTyped == md_pc \in [Meta!Runners -> Turns]

CacheTyped ==
  /\ md_now \in Meta!Answers /\ md_redis \in BOOLEAN /\ md_faults \in 0 .. md_MaxFaults
  /\ md_fresh \in Meta!Copies /\ md_stale \in Meta!Copies
  /\ md_flight \in [md_Views -> Meta!Runners \cup {md_None}]
  /\ md_warm \in BOOLEAN
  /\ md_kept \in [md_Views -> BOOLEAN]

\* No copy of a view is newer than the answer a.
NotAhead(v, a) ==
  /\ md_fresh[v] # md_None => md_fresh[v] <= a
  /\ md_stale[v] # md_None => md_stale[v] <= a

Resting == {"idle", "failed"}

Leading == {"fetch", "fresh", "stale"}

\* Who works has a view, the warmer that of the posts; who fetches it, or makes the copies,
\* does so alone; and no copy is newer than the answer it has fetched.
Led(r) ==
  LET t == md_pc[r] IN
    /\ t.at \notin Resting => t.view \in md_Views
    /\ r = "warmer" => t.view \in {md_None, "lsf"}
    /\ t.at \in Leading => md_flight[t.view] = r
    /\ t.at \in {"fresh", "stale"} =>
         t.answer \in Meta!Answers /\ t.answer <= md_now /\ NotAhead(t.view, t.answer)

\* What a fetch has left is there.
Kept ==
  \A v \in md_Views : md_kept[v] => md_redis /\ md_stale[v] # md_None

MetaInv ==
  /\ TurnsTyped /\ CacheTyped
  /\ \A r \in Meta!Runners : Led(r)
  /\ \A v \in md_Views : NotAhead(v, md_now)
  /\ Kept

\* A turn of q that fetches nothing.
Off(q, t) ==
  /\ t.at \notin Leading
  /\ t.at \notin Resting => t.view \in md_Views
  /\ q = "warmer" => t.view \in {md_None, "lsf"}

\* Each runner goes on as it was, or fetches nothing.
Aside(next) == \A q \in Meta!Runners : next[q] = md_pc[q] \/ Off(q, next[q])

Places == {"idle", "failed", "look", "join", "wait", "fetch", "fresh", "stale",
           "back", "posts", "again", "kick", "keep"}

LEMMA TurnGoes ==
  ASSUME NEW t \in Turns, NEW a \in Places
  PROVE  /\ [t EXCEPT !.at = a] \in Turns
         /\ [t EXCEPT !.at = a].at = a
         /\ [t EXCEPT !.at = a].view = t.view
         /\ [t EXCEPT !.at = a].answer = t.answer
         /\ [t EXCEPT !.at = a].gone = t.gone
BY DEF Turns, Places

LEMMA TurnFields ==
  ASSUME NEW t \in Turns
  PROVE  /\ t.at \in Places
         /\ t.view \in md_Views \cup {md_None}
         /\ t.answer \in Meta!Answers \cup {md_None}
BY DEF Turns, Places

LEMMA TurnAnswers ==
  ASSUME NEW t \in Turns, NEW a \in Meta!Answers
  PROVE  /\ [t EXCEPT !.at = "fresh", !.answer = a] \in Turns
         /\ [t EXCEPT !.at = "fresh", !.answer = a].at = "fresh"
         /\ [t EXCEPT !.at = "fresh", !.answer = a].view = t.view
         /\ [t EXCEPT !.at = "fresh", !.answer = a].answer = a
BY DEF Turns

LEMMA TurnLeaves ==
  ASSUME NEW t \in Turns
  PROVE  /\ [t EXCEPT !.gone = TRUE] \in Turns
         /\ [t EXCEPT !.gone = TRUE].at = t.at
         /\ [t EXCEPT !.gone = TRUE].view = t.view
         /\ [t EXCEPT !.gone = TRUE].answer = t.answer
BY DEF Turns

LEMMA IdleOff ==
  ASSUME NEW q
  PROVE  Meta!Idle \in Turns /\ Off(q, Meta!Idle)
BY DEF Meta!Idle, Turns, Off, Leading, Resting

LEMMA TurnStarts ==
  ASSUME NEW a \in {"look", "posts"}, NEW v \in md_Views, NEW refresh \in BOOLEAN,
         NEW q, q = "warmer" => v = "lsf"
  PROVE  /\ [Meta!Idle EXCEPT !.at = a, !.view = v, !.refresh = refresh] \in Turns
         /\ Off(q, [Meta!Idle EXCEPT !.at = a, !.view = v, !.refresh = refresh])
         /\ [Meta!Idle EXCEPT !.at = a, !.view = v] \in Turns
         /\ Off(q, [Meta!Idle EXCEPT !.at = a, !.view = v])
BY DEF Meta!Idle, Turns, Off, Leading, Resting

LEMMA TurnFailed ==
  ASSUME NEW q
  PROVE  /\ [Meta!Idle EXCEPT !.at = "failed"] \in Turns
         /\ Off(q, [Meta!Idle EXCEPT !.at = "failed"])
BY DEF Meta!Idle, Turns, Off, Leading, Resting

LEMMA AnsweredOff ==
  ASSUME NEW t \in Turns, NEW q
  PROVE  Meta!Answered(t) \in Turns /\ Off(q, Meta!Answered(t))
<1> DEFINE p == [t EXCEPT !.at = "posts", !.view = "lsf", !.answer = md_None]
<1>1. p \in Turns /\ p.at = "posts" /\ p.view = "lsf"
  BY ServicePartsAssumption DEF Turns
<1>2. Meta!Answered(t) = p \/ Meta!Answered(t) = Meta!Idle
  BY DEF Meta!Answered
<1> HIDE DEF p
<1>3. Off(q, p)
  BY <1>1, ServicePartsAssumption DEF Off, Leading
<1>4. QED
  BY <1>1, <1>2, <1>3, IdleOff

LEMMA WarmingOff ==
  ASSUME TurnsTyped
  PROVE  Meta!Warming \in [Meta!Runners -> Turns] /\ Aside(Meta!Warming)
<1> DEFINE t == [Meta!Idle EXCEPT !.at = "look", !.view = "lsf"]
<1>1. t \in Turns /\ Off("warmer", t)
  BY TurnStarts, ServicePartsAssumption
<1>2. Meta!Warming = md_pc \/ Meta!Warming = [md_pc EXCEPT !["warmer"] = t]
  BY DEF Meta!Warming
<1> HIDE DEF t
<1>3. QED
  BY <1>1, <1>2 DEF TurnsTyped, Aside

\* One runner takes a turn that fetches nothing, the others go on.
LEMMA OneOff ==
  ASSUME NEW f \in [Meta!Runners -> Turns], Aside(f), NEW r \in Meta!Runners,
         NEW t \in Turns, Off(r, t)
  PROVE  [f EXCEPT ![r] = t] \in [Meta!Runners -> Turns] /\ Aside([f EXCEPT ![r] = t])
BY DEF Aside

LEMMA AsideNow == Aside(md_pc)
BY DEF Aside

\* Nothing moves but those who fetch nothing.
LEMMA AsideStep ==
  ASSUME MetaInv, md_pc' \in [Meta!Runners -> Turns], Aside(md_pc'), md_warm' \in BOOLEAN,
         UNCHANGED <<md_now, md_redis, md_faults, md_fresh, md_stale, md_flight, md_kept>>
  PROVE  MetaInv'
<1>1. \A r \in Meta!Runners : Led(r)'
  BY DEF MetaInv, Led, Aside, Off, NotAhead, Leading
<1>2. CacheTyped' /\ Kept' /\ \A v \in md_Views : NotAhead(v, md_now)'
  BY DEF MetaInv, CacheTyped, Kept, NotAhead
<1>3. QED
  BY <1>1, <1>2 DEF MetaInv, TurnsTyped

\* The leader of a view is the only one who fetches it.
LEMMA OneLeader ==
  ASSUME MetaInv, NEW r \in Meta!Runners, md_pc[r].at \in Leading
  PROVE  /\ md_pc[r].view \in md_Views
         /\ \A q \in Meta!Runners :
              md_pc[q].at \in Leading /\ md_pc[q].view = md_pc[r].view => q = r
BY DEF MetaInv, Led, Leading, Resting

\* A fetch ends; whoever waited for it fetches nothing next, and neither does its leader.
LEMMA FlightEnds ==
  ASSUME TurnsTyped, CacheTyped, NEW r \in Meta!Runners, NEW then, Meta!EndFlight(r, then),
         \A q \in Meta!Runners :
           q = r \/ (md_pc[q].at = "wait" /\ md_pc[q].view = md_pc[r].view)
             => then[q] \in Turns /\ Off(q, then[q])
  PROVE  /\ md_pc' \in [Meta!Runners -> Turns] /\ Aside(md_pc') /\ Off(r, md_pc'[r])
         /\ md_flight' \in [md_Views -> Meta!Runners \cup {md_None}]
         /\ \A v \in md_Views : v # md_pc[r].view => md_flight'[v] = md_flight[v]
BY DEF TurnsTyped, CacheTyped, Meta!EndFlight, Aside

\* A fetch that ends leaves the others their leader.
LEMMA LedOn ==
  ASSUME MetaInv, NEW r \in Meta!Runners, md_pc[r].at \in Leading,
         Aside(md_pc'), Off(r, md_pc'[r]),
         \A v \in md_Views : v # md_pc[r].view =>
           /\ md_flight'[v] = md_flight[v]
           /\ md_fresh'[v] = md_fresh[v] /\ md_stale'[v] = md_stale[v],
         UNCHANGED md_now
  PROVE  \A q \in Meta!Runners : Led(q)'
<1> SUFFICES ASSUME NEW q \in Meta!Runners PROVE Led(q)'
  OBVIOUS
<1>1. CASE Off(q, md_pc'[q])
  BY <1>1 DEF Led, Off, Leading, Resting
<1>2. CASE q # r /\ md_pc'[q] = md_pc[q] /\ md_pc[q].at \in Leading
  <2>1. md_pc[q].view # md_pc[r].view /\ md_pc[q].view \in md_Views
    BY <1>2, OneLeader
  <2>2. QED
    BY <1>2, <2>1 DEF MetaInv, Led, NotAhead
<1>3. CASE md_pc'[q] = md_pc[q] /\ md_pc[q].at \notin Leading
  BY <1>3 DEF MetaInv, Led, Leading
<1>4. QED
  BY <1>1, <1>2, <1>3 DEF Aside

LEMMA FlightFails ==
  ASSUME MetaInv, NEW r \in Meta!Runners, md_pc[r].at = "fetch",
         Meta!EndFlight(r, Meta!Failing), md_warm' \in BOOLEAN,
         UNCHANGED <<md_now, md_redis, md_faults, md_fresh, md_stale, md_kept>>
  PROVE  MetaInv'
<1>0. TurnsTyped /\ CacheTyped /\ md_pc[r].view \in md_Views /\ md_pc[r].at \in Leading
  BY OneLeader DEF MetaInv, Leading
<1>h. PICK then : Meta!EndFlight(r, then) /\ then = Meta!Failing
  OBVIOUS
<1>1. \A q \in Meta!Runners : then[q] = [md_pc[q] EXCEPT !.at = "back"]
  BY <1>h DEF Meta!Failing
<1>2. \A q \in Meta!Runners :
        md_pc[q].view = md_pc[r].view => then[q] \in Turns /\ Off(q, then[q])
  <2> SUFFICES ASSUME NEW q \in Meta!Runners, md_pc[q].view = md_pc[r].view
               PROVE  then[q] \in Turns /\ Off(q, then[q])
    OBVIOUS
  <2> DEFINE t == [md_pc[q] EXCEPT !.at = "back"]
  <2>0. /\ md_pc[q] \in Turns /\ "back" \in Places
        /\ q = "warmer" => md_pc[q].view \in {md_None, "lsf"}
    BY <1>0 DEF TurnsTyped, Places, MetaInv, Led
  <2>1. t \in Turns /\ t.at = "back" /\ t.view = md_pc[q].view /\ t.view \in md_Views
    BY <1>0, <2>0, TurnGoes
  <2> HIDE DEF t
  <2>2. QED
    BY <1>1, <2>0, <2>1 DEF t, Off, Leading, Resting
<1>3. /\ md_pc' \in [Meta!Runners -> Turns] /\ Aside(md_pc') /\ Off(r, md_pc'[r])
      /\ md_flight' \in [md_Views -> Meta!Runners \cup {md_None}]
      /\ \A v \in md_Views : v # md_pc[r].view => md_flight'[v] = md_flight[v]
  BY <1>0, <1>h, <1>2, FlightEnds
<1>4. \A q \in Meta!Runners : Led(q)'
  BY <1>0, <1>3, LedOn
<1>5. CacheTyped' /\ Kept' /\ \A v \in md_Views : NotAhead(v, md_now)'
  BY <1>3 DEF MetaInv, CacheTyped, Kept, NotAhead
<1>6. QED
  BY <1>3, <1>4, <1>5 DEF MetaInv, TurnsTyped

\* The answer is fetched: no copy is newer, for there is nothing newer than now.
LEMMA FetchBrings ==
  ASSUME MetaInv, NEW r \in Meta!Runners, md_pc[r].at = "fetch",
         NEW f \in [Meta!Runners -> Turns], Aside(f), f[r] = md_pc[r],
         md_pc' = [f EXCEPT ![r].at = "fresh", ![r].answer = md_now],
         md_warm' \in BOOLEAN,
         UNCHANGED <<md_now, md_redis, md_faults, md_fresh, md_stale, md_flight, md_kept>>
  PROVE  MetaInv'
<1> DEFINE t == [md_pc[r] EXCEPT !.at = "fresh", !.answer = md_now]
<1>0. TurnsTyped /\ CacheTyped /\ Led(r) /\ md_pc[r].view \in md_Views /\ md_now \in Meta!Answers
  BY OneLeader DEF MetaInv, CacheTyped, Leading
<1>1. t \in Turns /\ t.at = "fresh" /\ t.view = md_pc[r].view /\ t.answer = md_now
  BY <1>0, TurnAnswers DEF TurnsTyped
<1>2. md_pc' = [f EXCEPT ![r] = t]
  OBVIOUS
<1> HIDE DEF t
<1>3. Led(r)'
  BY <1>0, <1>1, <1>2 DEF MetaInv, Led, NotAhead, Leading, Meta!Answers
<1>4. \A q \in Meta!Runners : q # r => Led(q)'
  BY <1>2 DEF MetaInv, Led, Aside, Off, NotAhead, Leading
<1>5. CacheTyped' /\ Kept' /\ \A v \in md_Views : NotAhead(v, md_now)'
  BY DEF MetaInv, CacheTyped, Kept, NotAhead
<1>6. TurnsTyped'
  BY <1>1, <1>2 DEF TurnsTyped
<1>7. QED
  BY <1>3, <1>4, <1>5, <1>6 DEF MetaInv

-----------------------------------------------------------------------------

LEMMA MetaInit == Meta!Init => MetaInv
<1> SUFFICES ASSUME Meta!Init PROVE MetaInv
  OBVIOUS
<1>1. TurnsTyped
  BY IdleOff DEF Meta!Init, TurnsTyped
<1>2. CacheTyped
  <2>1. 0 \in Meta!Answers /\ 0 \in 0 .. md_MaxFaults
    BY ServicePartsAssumption DEF Meta!Answers
  <2>2. QED
    BY <2>1 DEF Meta!Init, CacheTyped, Meta!Copies
<1>3. \A r \in Meta!Runners : Led(r)
  BY DEF Meta!Init, Led, Meta!Idle, Leading, Resting
<1>4. Kept /\ \A v \in md_Views : NotAhead(v, md_now)
  BY DEF Meta!Init, Kept, NotAhead
<1>5. QED
  BY <1>1, <1>2, <1>3, <1>4 DEF MetaInv

LEMMA AskStep ==
  ASSUME MetaInv, NEW h \in md_Handlers, NEW v \in md_Views, NEW refresh \in BOOLEAN,
         Meta!Ask(h, v, refresh)
  PROVE  MetaInv'
<1> DEFINE a == IF v = "lsf" THEN "posts" ELSE "look"
           t == [Meta!Idle EXCEPT !.at = a, !.view = v, !.refresh = refresh]
<1>0. (h = "warmer" => v = "lsf") /\ a \in {"look", "posts"}
  BY ServicePartsAssumption
<1> HIDE DEF a
<1>1. t \in Turns /\ Off(h, t)
  BY <1>0, TurnStarts
<1>2. md_pc' = [md_pc EXCEPT ![h] = t]
  BY DEF Meta!Ask, a
<1> HIDE DEF t
<1>3. md_pc' \in [Meta!Runners -> Turns] /\ Aside(md_pc')
  BY <1>1, <1>2, OneOff, AsideNow DEF MetaInv, TurnsTyped, Meta!Runners
<1>4. QED
  BY <1>3, AsideStep DEF Meta!Ask, MetaInv, CacheTyped

\* A request goes on to a place at which nothing is fetched.
LEMMA GoesOff ==
  ASSUME MetaInv, NEW r \in Meta!Runners, NEW a \in Places \ Leading, md_pc[r].at \notin Resting,
         Meta!Goto(r, a)
  PROVE  md_pc' \in [Meta!Runners -> Turns] /\ Aside(md_pc')
<1> DEFINE t == [md_pc[r] EXCEPT !.at = a]
<1>1. t \in Turns /\ t.at = a /\ t.view = md_pc[r].view
  BY TurnGoes DEF MetaInv, TurnsTyped
<1>2. Off(r, t)
  BY <1>1 DEF MetaInv, Led, Off
<1>3. md_pc' = [md_pc EXCEPT ![r] = t]
  BY DEF Meta!Goto
<1> HIDE DEF t
<1>4. QED
  BY <1>1, <1>2, <1>3, OneOff, AsideNow DEF MetaInv, TurnsTyped

LEMMA AnswerOff ==
  ASSUME MetaInv, NEW r \in Meta!Runners, md_pc[r].at \notin Resting, Meta!Answer(r)
  PROVE  md_pc' \in [Meta!Runners -> Turns] /\ Aside(md_pc')
<1> DEFINE t == Meta!Answered(md_pc[r])
<1>1. t \in Turns /\ Off(r, t)
  BY AnsweredOff DEF MetaInv, TurnsTyped
<1>2. md_pc' = [md_pc EXCEPT ![r] = t]
  BY DEF Meta!Answer
<1> HIDE DEF t
<1>3. QED
  BY <1>1, <1>2, OneOff, AsideNow DEF MetaInv, TurnsTyped

LEMMA LookSteps ==
  ASSUME MetaInv, NEW r \in Meta!Runners,
         Meta!Look(r) \/ Meta!FallBack(r) \/ Meta!LookPosts(r) \/ Meta!LookAgain(r)
  PROVE  MetaInv'
<1>1. md_pc' \in [Meta!Runners -> Turns] /\ Aside(md_pc')
  <2>1. CASE Meta!Look(r)
    <3>1. md_pc[r].at \notin Resting /\ "join" \in Places \ Leading
      BY <2>1 DEF Meta!Look, Places, Leading, Resting
    <3>2. QED
      BY <2>1, <3>1, AnswerOff, GoesOff DEF Meta!Look
  <2>2. CASE Meta!FallBack(r)
    <3> DEFINE t == [Meta!Idle EXCEPT !.at = "failed"]
    <3>1. Meta!Answer(r) \/ md_pc' = [md_pc EXCEPT ![r] = t]
      BY <2>2 DEF Meta!FallBack
    <3> HIDE DEF t
    <3>2. md_pc[r].at \notin Resting
      BY <2>2 DEF Meta!FallBack, Resting
    <3>3. t \in Turns /\ Off(r, t)
      BY TurnFailed DEF t
    <3>4. QED
      BY <3>1, <3>2, <3>3, AnswerOff, OneOff, AsideNow DEF MetaInv, TurnsTyped
  <2>3. CASE Meta!LookPosts(r)
    <3>1. md_pc[r].at \notin Resting /\ "again" \in Places \ Leading
      BY <2>3 DEF Meta!LookPosts, Places, Leading, Resting
    <3>2. QED
      BY <2>3, <3>1, AnswerOff, GoesOff DEF Meta!LookPosts
  <2>4. CASE Meta!LookAgain(r)
    <3>1. md_pc[r].at \notin Resting /\ {"keep", "kick"} \subseteq Places \ Leading
      BY <2>4 DEF Meta!LookAgain, Places, Leading, Resting
    <3>2. Meta!Answer(r) \/ Meta!Goto(r, "keep") \/ Meta!Goto(r, "kick")
      BY <2>4 DEF Meta!LookAgain
    <3>3. QED
      BY <3>1, <3>2, AnswerOff, GoesOff
  <2>5. QED
    BY <2>1, <2>2, <2>3, <2>4
<1>2. md_warm' \in BOOLEAN
      /\ UNCHANGED <<md_now, md_redis, md_faults, md_fresh, md_stale, md_flight, md_kept>>
  BY DEF Meta!Look, Meta!FallBack, Meta!LookPosts, Meta!LookAgain, MetaInv, CacheTyped
<1>3. QED
  BY <1>1, <1>2, AsideStep

LEMMA KickStep ==
  ASSUME MetaInv, NEW h \in md_Handlers, Meta!Kick(h)
  PROVE  MetaInv'
<1>1. md_pc' = [Meta!Warming EXCEPT ![h] = Meta!Idle]
  BY DEF Meta!Kick
<1>2. md_pc' \in [Meta!Runners -> Turns] /\ Aside(md_pc')
  BY <1>1, WarmingOff, OneOff, IdleOff DEF MetaInv, Meta!Runners
<1>3. QED
  BY <1>2, AsideStep DEF Meta!Kick

LEMMA JoinStep ==
  ASSUME MetaInv, NEW r \in Meta!Runners, Meta!Join(r)
  PROVE  MetaInv'
<1> DEFINE v == md_pc[r].view
           t == [md_pc[r] EXCEPT !.at = "fetch"]
<1>0. TurnsTyped /\ CacheTyped /\ v \in md_Views
  BY DEF MetaInv, Led, Meta!Join, Resting
<1>1. CASE md_flight[v] # md_None
  <2>1. md_pc[r].at \notin Resting /\ "wait" \in Places \ Leading
    BY DEF Meta!Join, Places, Leading, Resting
  <2>2. md_pc' \in [Meta!Runners -> Turns] /\ Aside(md_pc')
    BY <1>1, <2>1, GoesOff DEF Meta!Join
  <2>3. QED
    BY <1>0, <1>1, <2>2, AsideStep DEF Meta!Join, CacheTyped
<1>2. CASE md_flight[v] = md_None
  <2>0. md_pc[r] \in Turns /\ "fetch" \in Places
    BY <1>0 DEF TurnsTyped, Places
  <2>1. t \in Turns /\ t.at = "fetch" /\ t.view = v
    BY <2>0, TurnGoes
  <2>2. md_pc' = [md_pc EXCEPT ![r] = t] /\ md_flight' = [md_flight EXCEPT ![v] = r]
        /\ UNCHANGED <<md_now, md_redis, md_faults, md_fresh, md_stale, md_warm, md_kept>>
    BY <1>2 DEF Meta!Join, Meta!Goto
  <2> HIDE DEF t
  <2>3. Led(r)'
    BY <1>0, <2>1, <2>2 DEF MetaInv, Led, TurnsTyped, CacheTyped
  <2>4. \A q \in Meta!Runners : md_pc[q].at \in Leading => md_pc[q].view # v
    BY <1>2, ServicePartsAssumption DEF MetaInv, Led
  <2>5. \A q \in Meta!Runners : q # r => Led(q)'
    BY <1>0, <2>2, <2>4 DEF MetaInv, Led, NotAhead, CacheTyped, Leading
  <2>6. TurnsTyped' /\ CacheTyped' /\ Kept' /\ \A w \in md_Views : NotAhead(w, md_now)'
    BY <1>0, <2>1, <2>2 DEF MetaInv, TurnsTyped, CacheTyped, Kept, NotAhead
  <2>7. QED
    BY <2>3, <2>5, <2>6 DEF MetaInv
<1>3. QED
  BY <1>1, <1>2

LEMMA FetchStep ==
  ASSUME MetaInv, NEW r \in Meta!Runners, Meta!Fetch(r)
  PROVE  MetaInv'
<1> DEFINE f == IF md_pc[r].view = "insights" /\ Meta!Get(r, "lsf") = md_None
                THEN Meta!Warming ELSE md_pc
<1>0. /\ md_pc[r].at = "fetch" /\ md_pc[r].view \in md_Views /\ md_warm' \in BOOLEAN
      /\ UNCHANGED <<md_now, md_redis, md_faults, md_fresh, md_stale, md_kept>>
  BY OneLeader DEF Meta!Fetch, MetaInv, CacheTyped, Leading
<1>1. \/ Meta!EndFlight(r, Meta!Failing)
      \/ /\ md_pc' = [f EXCEPT ![r].at = "fresh", ![r].answer = md_now]
         /\ UNCHANGED md_flight
  <2>1. \A a \in Meta!Fetched(r) : a \in {md_now, md_None}
    BY <1>0, ServicePartsAssumption
       DEF Meta!Fetched, Meta!Streams, Meta!Details, Meta!Clips, Meta!Insights, Meta!Posts,
           Meta!Routes
  <2>2. QED
    BY <2>1 DEF Meta!Fetch
<1>2. f \in [Meta!Runners -> Turns] /\ Aside(f)
  BY WarmingOff, AsideNow DEF MetaInv, TurnsTyped
<1>3. f[r] = md_pc[r]
  <2>1. r # "warmer" => Meta!Warming[r] = md_pc[r]
    BY DEF MetaInv, TurnsTyped, Meta!Warming
  <2>2. r = "warmer" => md_pc[r].view = "lsf"
    BY <1>0, ServicePartsAssumption DEF MetaInv, Led
  <2>3. QED
    BY <2>1, <2>2
<1> HIDE DEF f
<1>4. QED
  BY <1>0, <1>1, <1>2, <1>3, FlightFails, FetchBrings

\* The browser goes away: its request goes on where it is.
LEMMA LeaveStep ==
  ASSUME MetaInv, NEW h \in md_Handlers, Meta!Leaves(h)
  PROVE  MetaInv'
<1> DEFINE t == [md_pc[h] EXCEPT !.gone = TRUE]
<1>1. t \in Turns /\ t.at = md_pc[h].at /\ t.view = md_pc[h].view /\ t.answer = md_pc[h].answer
  BY TurnLeaves DEF MetaInv, TurnsTyped, Meta!Runners
<1>2. /\ md_pc' = [md_pc EXCEPT ![h] = t] /\ h \in Meta!Runners
      /\ UNCHANGED <<md_now, md_redis, md_faults, md_fresh, md_stale, md_flight, md_warm, md_kept>>
  BY DEF Meta!Leaves, Meta!Runners
<1> HIDE DEF t
<1>3. Led(h)'
  BY <1>1, <1>2 DEF MetaInv, Led, NotAhead, TurnsTyped
<1>4. \A q \in Meta!Runners : q # h => Led(q)'
  BY <1>2 DEF MetaInv, Led, NotAhead
<1>5. TurnsTyped' /\ CacheTyped' /\ Kept' /\ \A v \in md_Views : NotAhead(v, md_now)'
  BY <1>1, <1>2 DEF MetaInv, TurnsTyped, CacheTyped, Kept, NotAhead
<1>6. QED
  BY <1>3, <1>4, <1>5 DEF MetaInv

\* The fresh copy: what it replaces is no newer, and nobody else has an answer for this view.
LEMMA SetFreshStep ==
  ASSUME MetaInv, NEW r \in Meta!Runners, Meta!SetFresh(r)
  PROVE  MetaInv'
<1>v. PICK v \in md_Views, a \in Meta!Answers : v = md_pc[r].view /\ a = md_pc[r].answer
  BY DEF MetaInv, Led, Meta!SetFresh, Resting
<1> DEFINE t == [md_pc[r] EXCEPT !.at = "stale"]
<1>0. /\ TurnsTyped /\ CacheTyped /\ md_pc[r] \in Turns /\ "stale" \in Places
      /\ a <= md_now /\ NotAhead(v, a) /\ md_flight[v] = r
      /\ (r = "warmer" => v \in {md_None, "lsf"})
  BY <1>v DEF MetaInv, TurnsTyped, Led, Meta!SetFresh, Places, Leading
<1>1. \A q \in Meta!Runners : q # r /\ md_pc[q].at \in Leading => md_pc[q].view # v
  BY <1>v, OneLeader DEF Meta!SetFresh, Leading
<1>2. t \in Turns /\ t.at = "stale" /\ t.view = v /\ t.answer = a
  BY <1>v, <1>0, TurnGoes
<1>3. /\ md_pc' = [md_pc EXCEPT ![r] = t]
      /\ md_fresh' = IF md_redis THEN [md_fresh EXCEPT ![v] = a] ELSE md_fresh
      /\ UNCHANGED <<md_now, md_redis, md_faults, md_stale, md_flight, md_warm, md_kept>>
  BY <1>v DEF Meta!SetFresh, Meta!Goto
<1> HIDE DEF t
<1>4. TurnsTyped' /\ CacheTyped'
  BY <1>0, <1>2, <1>3 DEF TurnsTyped, CacheTyped, Meta!Copies
<1>5. \A w \in md_Views : w # v => md_fresh'[w] = md_fresh[w]
  BY <1>3
<1>6. md_fresh'[v] \in {md_fresh[v], a}
  BY <1>0, <1>3 DEF CacheTyped, Meta!Copies
<1>7. a <= a
  BY DEF Meta!Answers
<1>8. Led(r)'
  BY <1>0, <1>2, <1>3, <1>6, <1>7 DEF Led, NotAhead, TurnsTyped
<1>9. \A q \in Meta!Runners : q # r => Led(q)'
  BY <1>1, <1>3, <1>5 DEF MetaInv, Led, NotAhead, Leading, Resting
<1>10. Kept' /\ \A w \in md_Views : NotAhead(w, md_now)'
  BY <1>0, <1>3, <1>5, <1>6 DEF MetaInv, Kept, NotAhead
<1>11. QED
  BY <1>4, <1>8, <1>9, <1>10 DEF MetaInv

LEMMA SetStaleStep ==
  ASSUME MetaInv, NEW r \in Meta!Runners, Meta!SetStale(r)
  PROVE  MetaInv'
<1>v. PICK v \in md_Views, a \in Meta!Answers : v = md_pc[r].view /\ a = md_pc[r].answer
  BY DEF MetaInv, Led, Meta!SetStale, Resting
<1> DEFINE then == [q \in Meta!Runners |-> Meta!Answered(md_pc[q])]
<1>0. /\ TurnsTyped /\ CacheTyped /\ md_pc[r].at \in Leading /\ a <= md_now
      /\ UNCHANGED <<md_now, md_redis, md_faults, md_fresh, md_warm>>
      /\ md_stale' = IF md_redis THEN [md_stale EXCEPT ![v] = a] ELSE md_stale
      /\ md_kept' = [md_kept EXCEPT ![v] = md_redis]
      /\ Meta!EndFlight(r, then)
  BY <1>v DEF MetaInv, Led, Meta!SetStale, Leading
<1>1. \A q \in Meta!Runners :
        q = r \/ (md_pc[q].at = "wait" /\ md_pc[q].view = v)
          => then[q] \in Turns /\ Off(q, then[q])
  <2>1. \A q \in Meta!Runners : md_pc[q] \in Turns
    BY <1>0 DEF TurnsTyped
  <2>2. QED
    BY <2>1, AnsweredOff
<1> HIDE DEF then
<1>2. /\ md_pc' \in [Meta!Runners -> Turns] /\ Aside(md_pc') /\ Off(r, md_pc'[r])
      /\ md_flight' \in [md_Views -> Meta!Runners \cup {md_None}]
      /\ \A w \in md_Views : w # v => md_flight'[w] = md_flight[w]
  BY <1>v, <1>0, <1>1, FlightEnds
<1>3. \A w \in md_Views : w # v => md_stale'[w] = md_stale[w] /\ md_kept'[w] = md_kept[w]
  BY <1>0
<1>4. \A q \in Meta!Runners : Led(q)'
  BY <1>v, <1>0, <1>2, <1>3, LedOn
<1>5. TurnsTyped' /\ CacheTyped'
  BY <1>0, <1>2 DEF TurnsTyped, CacheTyped, Meta!Copies
<1>6. \A w \in md_Views : NotAhead(w, md_now)'
  BY <1>0, <1>3 DEF MetaInv, NotAhead, CacheTyped, Meta!Copies
<1>7. Kept'
  <2>1. md_kept'[v] => md_redis /\ md_stale'[v] = a
    BY <1>0 DEF CacheTyped, Meta!Copies
  <2>2. a # md_None
    BY ServicePartsAssumption
  <2>3. QED
    BY <1>0, <1>3, <2>1, <2>2 DEF MetaInv, Kept
<1>8. QED
  BY <1>4, <1>5, <1>6, <1>7 DEF MetaInv

\* What happens without a request: upstream changes, copies expire, Redis goes and comes back.
LEMMA CacheStep ==
  ASSUME MetaInv,
         \/ Meta!Change \/ Meta!RedisDown \/ Meta!RedisUp \/ Meta!WarmEnds
         \/ \E v \in md_Views : Meta!Expire(v) \/ Meta!ExpireStale(v)
         \/ UNCHANGED Meta!vars
  PROVE  MetaInv'
<1>0. TurnsTyped /\ CacheTyped /\ md_now \in Nat /\ md_MaxChanges \in Nat /\ md_MaxFaults \in Nat
  BY ServicePartsAssumption DEF MetaInv, CacheTyped, Meta!Answers
<1>1. md_pc' = md_pc /\ md_flight' = md_flight /\ md_now' \in Meta!Answers /\ md_now <= md_now'
  BY <1>0 DEF Meta!Change, Meta!RedisDown, Meta!RedisUp, Meta!WarmEnds, Meta!Expire,
              Meta!ExpireStale, Meta!vars, Meta!Answers, CacheTyped
<1>2. /\ md_fresh' \in Meta!Copies /\ md_stale' \in Meta!Copies
      /\ \A v \in md_Views : /\ md_fresh'[v] \in {md_fresh[v], md_None}
                             /\ md_stale'[v] \in {md_stale[v], md_None}
  BY <1>0 DEF Meta!Change, Meta!RedisDown, Meta!RedisUp, Meta!WarmEnds, Meta!Expire,
              Meta!ExpireStale, Meta!vars, CacheTyped, Meta!Copies
<1>3. CacheTyped'
  <2>1. md_redis' \in BOOLEAN /\ md_warm' \in BOOLEAN /\ md_kept' \in [md_Views -> BOOLEAN]
    BY <1>0 DEF Meta!Change, Meta!RedisDown, Meta!RedisUp, Meta!WarmEnds, Meta!Expire,
                Meta!ExpireStale, Meta!vars, CacheTyped
  <2>2. md_faults' \in 0 .. md_MaxFaults
    BY <1>0 DEF Meta!Change, Meta!RedisDown, Meta!RedisUp, Meta!WarmEnds, Meta!Expire,
                Meta!ExpireStale, Meta!vars, CacheTyped
  <2>3. QED
    BY <1>0, <1>1, <1>2, <2>1, <2>2 DEF CacheTyped
<1>4. ASSUME NEW v \in md_Views, NEW a \in Meta!Answers, NotAhead(v, a)
      PROVE  /\ md_fresh'[v] # md_None => md_fresh'[v] <= a
             /\ md_stale'[v] # md_None => md_stale'[v] <= a
  BY <1>2, <1>4 DEF NotAhead
<1>5. \A r \in Meta!Runners : Led(r)'
  <2> SUFFICES ASSUME NEW r \in Meta!Runners PROVE Led(r)'
    OBVIOUS
  <2>1. Led(r) /\ (md_pc[r].at \in {"fresh", "stale"} => md_pc[r].view \in md_Views)
    BY DEF MetaInv, Led, Resting
  <2>2. md_pc[r].at \in {"fresh", "stale"} => NotAhead(md_pc[r].view, md_pc[r].answer)'
    BY <1>1, <1>4, <2>1 DEF Led, NotAhead
  <2>3. md_pc[r].at \in {"fresh", "stale"} => md_pc[r].answer <= md_now'
    BY <1>0, <1>1, <2>1 DEF Led, Meta!Answers
  <2>4. QED
    BY <1>1, <2>1, <2>2, <2>3 DEF Led
<1>6. \A v \in md_Views : NotAhead(v, md_now)'
  <2> SUFFICES ASSUME NEW v \in md_Views PROVE NotAhead(v, md_now)'
    OBVIOUS
  <2>1. md_now \in Meta!Answers /\ NotAhead(v, md_now)
    BY DEF MetaInv, CacheTyped
  <2>2. /\ md_fresh'[v] # md_None => md_fresh'[v] <= md_now
        /\ md_stale'[v] # md_None => md_stale'[v] <= md_now
    BY <1>4, <2>1
  <2>3. /\ md_fresh'[v] # md_None => md_fresh'[v] \in Nat
        /\ md_stale'[v] # md_None => md_stale'[v] \in Nat
    BY <1>2 DEF Meta!Copies, Meta!Answers
  <2>4. md_now' \in Nat
    BY <1>1 DEF Meta!Answers
  <2>5. QED
    BY <1>0, <1>1, <2>2, <2>3, <2>4 DEF NotAhead
<1>7. Kept'
  BY <1>0 DEF Meta!Change, Meta!RedisDown, Meta!RedisUp, Meta!WarmEnds, Meta!Expire,
              Meta!ExpireStale, Meta!vars, MetaInv, Kept, CacheTyped, Meta!Copies
<1>8. QED
  BY <1>0, <1>1, <1>3, <1>5, <1>6, <1>7 DEF MetaInv, TurnsTyped

LEMMA MetaStep == MetaInv /\ [Meta!Next]_(Meta!vars) => MetaInv'
<1> SUFFICES ASSUME MetaInv, [Meta!Next]_(Meta!vars) PROVE MetaInv'
  OBVIOUS
<1>1. ASSUME NEW h \in md_Handlers, Meta!PostsStep(h) \/ Meta!Leaves(h)
      PROVE  MetaInv'
  BY <1>1, LookSteps, KickStep, LeaveStep DEF Meta!PostsStep, Meta!Runners
<1>2. ASSUME NEW h \in md_Handlers, NEW v \in md_Views, NEW refresh \in BOOLEAN,
             Meta!Ask(h, v, refresh)
      PROVE  MetaInv'
  BY <1>2, AskStep
<1>3. ASSUME NEW r \in Meta!Runners, Meta!Step(r) PROVE MetaInv'
  BY <1>3, LookSteps, JoinStep, FetchStep, SetFreshStep, SetStaleStep DEF Meta!Step
<1>4. QED
  BY <1>1, <1>2, <1>3, CacheStep DEF Meta!Next

(***************************************************************************)
(* One fetch per view at a time, copies no newer than what was fetched, and *)
(* the copy a fetch has left, hold throughout, for any number of requests.  *)
(***************************************************************************)
THEOREM MetaInductive == Meta!Spec => []MetaInv
BY MetaInit, MetaStep, PTL DEF Meta!Spec

\* Every variable of the cached views has its type (cache.go, api.go).
THEOREM MetaTypes == Meta!Spec => [](Meta!TypeOK)
<1>1. MetaInv => Meta!TypeOK
  BY DEF MetaInv, TurnsTyped, CacheTyped, Turns, Meta!TypeOK
<1>2. QED
  BY MetaInductive, <1>1, PTL

\* What one step does to the copies.
NewerCopies ==
  \A v \in md_Views :
    /\ md_fresh[v] # md_None /\ md_fresh'[v] # md_None => md_fresh[v] <= md_fresh'[v]
    /\ md_stale[v] # md_None /\ md_stale'[v] # md_None => md_stale[v] <= md_stale'[v]

LEMMA CopiesStep == MetaInv /\ [Meta!Next]_(Meta!vars) => NewerCopies
<1> SUFFICES ASSUME MetaInv, [Meta!Next]_(Meta!vars), NEW v \in md_Views
             PROVE  /\ md_fresh[v] # md_None /\ md_fresh'[v] # md_None
                         => md_fresh[v] <= md_fresh'[v]
                    /\ md_stale[v] # md_None /\ md_stale'[v] # md_None
                         => md_stale[v] <= md_stale'[v]
  BY DEF NewerCopies
<1>0. /\ md_fresh[v] # md_None => md_fresh[v] <= md_fresh[v]
      /\ md_stale[v] # md_None => md_stale[v] <= md_stale[v]
      /\ md_fresh \in Meta!Copies /\ md_stale \in Meta!Copies
  BY DEF MetaInv, CacheTyped, Meta!Copies, Meta!Answers
<1>1. \/ UNCHANGED <<md_fresh, md_stale>>
      \/ \E r \in Meta!Runners : Meta!SetFresh(r) \/ Meta!SetStale(r)
      \/ \E w \in md_Views : Meta!Expire(w) \/ Meta!ExpireStale(w)
  BY DEF Meta!Next, Meta!vars, Meta!Step, Meta!PostsStep, Meta!Ask, Meta!Look, Meta!Join,
         Meta!Fetch, Meta!Leaves, Meta!FallBack, Meta!LookPosts, Meta!LookAgain,
         Meta!Kick, Meta!WarmEnds, Meta!Change, Meta!RedisDown, Meta!RedisUp
<1>2. CASE UNCHANGED <<md_fresh, md_stale>>
  BY <1>0, <1>2
<1>3. ASSUME NEW r \in Meta!Runners, Meta!SetFresh(r)
      PROVE  md_stale' = md_stale
             /\ (md_fresh[v] # md_None /\ md_fresh'[v] # md_None => md_fresh[v] <= md_fresh'[v])
  <2>1. NotAhead(md_pc[r].view, md_pc[r].answer)
    BY <1>3 DEF MetaInv, Led, Meta!SetFresh
  <2>2. QED
    BY <1>0, <1>3, <2>1 DEF Meta!SetFresh, NotAhead, Meta!Copies
<1>4. ASSUME NEW r \in Meta!Runners, Meta!SetStale(r)
      PROVE  md_fresh' = md_fresh
             /\ (md_stale[v] # md_None /\ md_stale'[v] # md_None => md_stale[v] <= md_stale'[v])
  <2>1. NotAhead(md_pc[r].view, md_pc[r].answer)
    BY <1>4 DEF MetaInv, Led, Meta!SetStale
  <2>2. QED
    BY <1>0, <1>4, <2>1 DEF Meta!SetStale, NotAhead, Meta!Copies
<1>5. CASE \E w \in md_Views : Meta!Expire(w) \/ Meta!ExpireStale(w)
  BY <1>0, <1>5 DEF Meta!Expire, Meta!ExpireStale, Meta!Copies
<1>6. QED
  BY <1>0, <1>1, <1>2, <1>3, <1>4, <1>5

(***************************************************************************)
(* A copy is never replaced by one fetched before it: the copies are made  *)
(* inside the shared fetch, and its leader is alone with the view until it *)
(* has made both (fetchAndCache in api.go).                                *)
(***************************************************************************)
THEOREM CopiesOnlyGetNewer == Meta!Spec => NeverBack
<1>1. MetaInv /\ [Meta!Next]_(Meta!vars) => [NewerCopies]_(Meta!vars)
  BY CopiesStep
<1>2. QED
  BY MetaInductive, <1>1, PTL DEF Meta!Spec, NeverBack, Meta!NeverBack, NewerCopies

\* What one step does to a request that finds no copy.
CopyServes ==
  \A h \in md_Handlers : ~md_pc[h].gone =>
    /\ md_pc'[h].at = "failed" /\ md_pc[h].at # "failed" => ~md_kept[md_pc[h].view]
    /\ md_pc'[h].at = "kick" /\ md_pc[h].at # "kick" => ~md_kept["lsf"]

\* Nobody newly fails, or gives up on the posts.
Serving(next) ==
  \A q \in Meta!Runners : next[q] = md_pc[q] \/ next[q].at \notin {"failed", "kick"}

LEMMA AnsweredServes ==
  ASSUME NEW t \in Turns
  PROVE  Meta!Answered(t).at \notin {"failed", "kick"}
BY DEF Meta!Answered, Meta!Idle, Turns

LEMMA WarmingServes == TurnsTyped => Serving(Meta!Warming)
<1> DEFINE t == [Meta!Idle EXCEPT !.at = "look", !.view = "lsf"]
<1>1. t.at = "look"
  BY DEF Meta!Idle
<1>2. Meta!Warming = md_pc \/ Meta!Warming = [md_pc EXCEPT !["warmer"] = t]
  BY DEF Meta!Warming
<1> HIDE DEF t
<1>3. QED
  BY <1>1, <1>2 DEF Serving, TurnsTyped

LEMMA OneServes ==
  ASSUME NEW f \in [Meta!Runners -> Turns], Serving(f), NEW r \in Meta!Runners,
         NEW t, t.at \notin {"failed", "kick"}
  PROVE  Serving([f EXCEPT ![r] = t])
BY DEF Serving

LEMMA FlightServes ==
  ASSUME TurnsTyped, NEW r \in Meta!Runners, NEW then, Meta!EndFlight(r, then),
         \A q \in Meta!Runners : then[q].at \notin {"failed", "kick"}
  PROVE  Serving(md_pc')
BY DEF Serving, TurnsTyped, Meta!EndFlight

LEMMA GoServes ==
  ASSUME TurnsTyped, NEW r \in Meta!Runners, NEW a \in Places \ {"failed", "kick"}, Meta!Goto(r, a)
  PROVE  Serving(md_pc')
<1> DEFINE t == [md_pc[r] EXCEPT !.at = a]
<1>1. t.at = a
  BY TurnGoes DEF TurnsTyped
<1>2. md_pc' = [md_pc EXCEPT ![r] = t]
  BY DEF Meta!Goto
<1> HIDE DEF t
<1>3. QED
  BY <1>1, <1>2 DEF TurnsTyped, Serving

LEMMA AnswerServes ==
  ASSUME TurnsTyped, NEW r \in Meta!Runners, Meta!Answer(r)
  PROVE  Serving(md_pc')
<1> DEFINE t == Meta!Answered(md_pc[r])
<1>1. md_pc' = [md_pc EXCEPT ![r] = t] /\ t.at \notin {"failed", "kick"}
  BY AnsweredServes DEF Meta!Answer, TurnsTyped
<1> HIDE DEF t
<1>2. QED
  BY <1>1 DEF TurnsTyped, Serving

\* The steps of the shared fetch fail nobody: whoever it fails goes on to look for a copy.
LEMMA FetchServes ==
  ASSUME MetaInv, NEW r \in Meta!Runners,
         \/ Meta!Look(r) \/ Meta!Join(r) \/ Meta!Fetch(r) \/ Meta!SetFresh(r)
         \/ Meta!SetStale(r) \/ Meta!LookPosts(r)
  PROVE  Serving(md_pc')
<1>0. /\ TurnsTyped
      /\ {"join", "fetch", "wait", "stale", "again", "back"} \subseteq Places \ {"failed", "kick"}
  BY DEF MetaInv, Places
<1>a. \A k \in [Meta!Runners -> Turns], a \in Meta!Answers :
        Serving(k) => Serving([k EXCEPT ![r].at = "fresh", ![r].answer = a])
  <2> SUFFICES ASSUME NEW k \in [Meta!Runners -> Turns], NEW a \in Meta!Answers, Serving(k)
               PROVE  Serving([k EXCEPT ![r].at = "fresh", ![r].answer = a])
    OBVIOUS
  <2> DEFINE t == [k[r] EXCEPT !.at = "fresh", !.answer = a]
  <2>1. t.at = "fresh"
    BY TurnAnswers
  <2>2. [k EXCEPT ![r].at = "fresh", ![r].answer = a] = [k EXCEPT ![r] = t]
    OBVIOUS
  <2> HIDE DEF t
  <2>3. QED
    BY <2>1, <2>2, OneServes
<1>b. md_now \in Meta!Answers
  BY DEF MetaInv, CacheTyped
<1>f. \A q \in Meta!Runners : Meta!Failing[q].at = "back"
  BY <1>0, TurnGoes DEF Meta!Failing, TurnsTyped
<1>1. CASE Meta!Look(r) \/ Meta!LookPosts(r)
  BY <1>0, <1>1, AnswerServes, GoServes DEF Meta!Look, Meta!LookPosts
<1>2. CASE Meta!Join(r)
  BY <1>0, <1>2, GoServes DEF Meta!Join
<1>3. CASE Meta!Fetch(r)
  <2>1. PICK k \in {md_pc, Meta!Warming} :
          \/ Meta!EndFlight(r, Meta!Failing)
          \/ \E a \in {md_now} : md_pc' = [k EXCEPT ![r].at = "fresh", ![r].answer = a]
    <3>1. \A a \in Meta!Fetched(r) : a \in {md_now, md_None}
      <4>1. md_pc[r].view \in md_Views
        BY <1>3, OneLeader DEF Meta!Fetch, Leading
      <4>2. QED
        BY <4>1, ServicePartsAssumption
           DEF Meta!Fetched, Meta!Streams, Meta!Details, Meta!Clips, Meta!Insights, Meta!Posts,
               Meta!Routes
    <3>2. QED
      BY <1>3, <3>1 DEF Meta!Fetch
  <2>2. k \in [Meta!Runners -> Turns] /\ Serving(k)
    BY <1>0, WarmingOff, WarmingServes DEF TurnsTyped, Serving
  <2>3. QED
    BY <1>0, <1>a, <1>b, <1>f, <2>1, <2>2, FlightServes
<1>4. CASE Meta!SetFresh(r)
  BY <1>0, <1>4, GoServes DEF Meta!SetFresh
<1>5. CASE Meta!SetStale(r)
  <2> DEFINE k == [q \in Meta!Runners |-> Meta!Answered(md_pc[q])]
  <2>1. \A q \in Meta!Runners : k[q].at \notin {"failed", "kick"}
    BY <1>0, AnsweredServes DEF TurnsTyped
  <2>2. Meta!EndFlight(r, k)
    BY <1>5 DEF Meta!SetStale
  <2> HIDE DEF k
  <2>3. QED
    BY <1>0, <2>1, <2>2, FlightServes
<1>6. QED
  BY <1>1, <1>2, <1>3, <1>4, <1>5

LEMMA ServesStep == MetaInv /\ [Meta!Next]_(Meta!vars) => CopyServes
<1> SUFFICES ASSUME MetaInv, [Meta!Next]_(Meta!vars), NEW h \in md_Handlers, ~md_pc[h].gone
             PROVE  /\ md_pc'[h].at = "failed" /\ md_pc[h].at # "failed"
                         => ~md_kept[md_pc[h].view]
                    /\ md_pc'[h].at = "kick" /\ md_pc[h].at # "kick" => ~md_kept["lsf"]
  BY DEF CopyServes
<1>0. h \in Meta!Runners /\ TurnsTyped /\ "lsf" \in md_Views
  BY ServicePartsAssumption DEF Meta!Runners, MetaInv
<1>1. CASE Serving(md_pc')
  BY <1>0, <1>1 DEF Serving
<1>2. ASSUME NEW v \in md_Views, Meta!Get(h, v) = md_None PROVE ~md_kept[v]
  BY <1>2 DEF MetaInv, Kept, Meta!Get, Meta!Reaches
<1>3. ASSUME NEW r \in Meta!Runners, Meta!FallBack(r)
      PROVE  \/ Serving(md_pc')
             \/ r = h /\ ~md_kept[md_pc[h].view]
             \/ md_pc'[h] = md_pc[h]
  <2>1. md_pc[r].view \in md_Views
    BY <1>3 DEF MetaInv, Led, Meta!FallBack, Resting
  <2>2. Meta!Answer(r) \/ (Meta!Get(r, md_pc[r].view) = md_None
                             /\ md_pc' = [md_pc EXCEPT ![r] = [Meta!Idle EXCEPT !.at = "failed"]])
    BY <1>3 DEF Meta!FallBack
  <2>3. CASE Meta!Answer(r)
    BY <1>0, <2>3, AnswerServes
  <2>4. CASE r = h /\ Meta!Get(r, md_pc[r].view) = md_None
    BY <1>2, <2>1, <2>4
  <2>5. CASE r # h /\ md_pc' = [md_pc EXCEPT ![r] = [Meta!Idle EXCEPT !.at = "failed"]]
    BY <1>0, <2>5 DEF TurnsTyped
  <2>6. QED
    BY <2>2, <2>3, <2>4, <2>5
<1>4. ASSUME NEW r \in md_Handlers, Meta!FallBack(r)
      PROVE  md_pc'[r].at # "kick"
  <2>1. CASE Meta!Answer(r)
    BY <1>0, <2>1, AnsweredServes DEF Meta!Answer, Meta!Runners, TurnsTyped
  <2>2. CASE md_pc' = [md_pc EXCEPT ![r] = [Meta!Idle EXCEPT !.at = "failed"]]
    BY <1>0, <2>2 DEF TurnsTyped, Meta!Runners, Meta!Idle
  <2>3. QED
    BY <1>4, <2>1, <2>2 DEF Meta!FallBack
<1>5. ASSUME NEW r \in md_Handlers, Meta!LookAgain(r)
      PROVE  \/ Serving(md_pc')
             \/ ~md_kept["lsf"] /\ md_pc'[h].at = "kick"
             \/ md_pc'[h] = md_pc[h]
  <2>1. r \in Meta!Runners /\ {"keep", "kick"} \subseteq Places
    BY DEF Meta!Runners, Places
  <2>2. \/ Meta!Answer(r) \/ Meta!Goto(r, "keep")
        \/ Meta!Goto(r, "kick") /\ Meta!Get(r, "lsf") = md_None
    BY <1>5 DEF Meta!LookAgain
  <2>3. CASE Meta!Answer(r) \/ Meta!Goto(r, "keep")
    BY <1>0, <2>1, <2>3, AnswerServes, GoServes
  <2>4. CASE Meta!Goto(r, "kick") /\ Meta!Get(r, "lsf") = md_None
    <3> DEFINE t == [md_pc[r] EXCEPT !.at = "kick"]
    <3>1. t.at = "kick"
      BY <1>0, <2>1, TurnGoes DEF TurnsTyped
    <3>2. md_pc' = [md_pc EXCEPT ![r] = t]
      BY <2>4 DEF Meta!Goto
    <3> HIDE DEF t
    <3>3. QED
      BY <1>0, <1>2, <2>1, <2>4, <3>1, <3>2 DEF TurnsTyped
  <2>5. QED
    BY <2>2, <2>3, <2>4
<1>6. ASSUME NEW r \in md_Handlers, NEW v \in md_Views, NEW refresh \in BOOLEAN,
             Meta!Ask(r, v, refresh)
      PROVE  Serving(md_pc')
  <2> DEFINE a == IF v = "lsf" THEN "posts" ELSE "look"
             t == [Meta!Idle EXCEPT !.at = a, !.view = v, !.refresh = refresh]
  <2>1. t.at = a /\ a \in {"posts", "look"} /\ md_pc' = [md_pc EXCEPT ![r] = t]
    BY <1>6 DEF Meta!Ask, Meta!Idle
  <2> HIDE DEF t, a
  <2>2. QED
    BY <1>0, <2>1 DEF TurnsTyped, Serving
<1>7. ASSUME NEW r \in md_Handlers, Meta!Kick(r) PROVE Serving(md_pc')
  <2>1. md_pc' = [Meta!Warming EXCEPT ![r] = Meta!Idle] /\ Meta!Idle.at = "idle"
    BY <1>7 DEF Meta!Kick, Meta!Idle
  <2>2. QED
    BY <1>0, <2>1, WarmingOff, WarmingServes, OneServes DEF Meta!Runners
<1>8. CASE \/ Meta!Change \/ Meta!RedisDown \/ Meta!RedisUp \/ Meta!WarmEnds
           \/ \E v \in md_Views : Meta!Expire(v) \/ Meta!ExpireStale(v)
           \/ UNCHANGED Meta!vars
  BY <1>8 DEF Meta!Change, Meta!RedisDown, Meta!RedisUp, Meta!WarmEnds, Meta!Expire,
              Meta!ExpireStale, Meta!vars
<1>9. ASSUME NEW r \in md_Handlers, Meta!Leaves(r) PROVE md_pc'[h].at = md_pc[h].at
  <2> DEFINE t == [md_pc[r] EXCEPT !.gone = TRUE]
  <2>1. t.at = md_pc[r].at
    BY <1>0, TurnLeaves DEF TurnsTyped, Meta!Runners
  <2>2. md_pc' = [md_pc EXCEPT ![r] = t]
    BY <1>9 DEF Meta!Leaves
  <2> HIDE DEF t
  <2>3. QED
    BY <1>0, <2>1, <2>2 DEF TurnsTyped
<1>10. \/ \E r \in Meta!Runners :
            \/ Meta!Look(r) \/ Meta!Join(r) \/ Meta!Fetch(r) \/ Meta!SetFresh(r)
            \/ Meta!SetStale(r) \/ Meta!LookPosts(r) \/ Meta!FallBack(r)
       \/ \E r \in md_Handlers : Meta!LookAgain(r) \/ Meta!Kick(r) \/ Meta!Leaves(r)
       \/ \E r \in md_Handlers, v \in md_Views, refresh \in BOOLEAN : Meta!Ask(r, v, refresh)
       \/ Meta!Change \/ Meta!RedisDown \/ Meta!RedisUp \/ Meta!WarmEnds
       \/ \E v \in md_Views : Meta!Expire(v) \/ Meta!ExpireStale(v)
       \/ UNCHANGED Meta!vars
  BY DEF Meta!Next, Meta!Step, Meta!PostsStep, Meta!Runners
<1>11. QED
  BY <1>0, <1>1, <1>3, <1>4, <1>5, <1>6, <1>7, <1>8, <1>9, <1>10, FetchServes

(***************************************************************************)
(* Once a fetch has left its copies, no request whose browser still waits  *)
(* ends in an error or without posts until the stale copy has expired or   *)
(* Redis has been away (fetchAndCache, fetchRedditLSFCached in api.go).    *)
(***************************************************************************)
THEOREM StaleCopiesServe == Meta!Spec => StaleStandsIn
<1>1. MetaInv /\ [Meta!Next]_(Meta!vars) => [CopyServes]_(Meta!vars)
  BY ServesStep
<1>2. QED
  BY MetaInductive, <1>1, PTL DEF Meta!Spec, StaleStandsIn, Meta!StaleStandsIn, CopyServes

-----------------------------------------------------------------------------
(* The search of Reddit (Reddit).                                           *)

\* What a search has paid for is within its budget, and each page paid for was asked for twice
\* at most.
Priced(s) ==
  /\ {"budget", "used", "sent"} \subseteq DOMAIN s
  /\ s.budget \in Int /\ s.used \in Nat /\ s.sent \in Nat
  /\ s.sent <= 2 * s.used
  /\ s.budget # 0 => s.used <= s.budget \/ s.used = 0

RedditInv ==
  /\ DOMAIN rd_call = rd_Callers
  /\ \A c \in rd_Callers : Priced(rd_call[c])

\* What is written of a search besides its pages costs nothing.
LEMMA FieldPriced ==
  ASSUME NEW s, Priced(s), NEW x
  PROVE  /\ Priced([s EXCEPT !.at = x])
         /\ Priced([s EXCEPT !.left = x])
         /\ Priced([s EXCEPT !.result = x])
         /\ Priced([s EXCEPT !.errs = x])
         /\ Priced([s EXCEPT !.hot = x])
BY DEF Priced

LEMMA StatusPriced ==
  ASSUME NEW s, Priced(s), NEW o
  PROVE  Priced(Red!Status(s, o)) /\ Priced(Red!RawStatus(s, o))
<1> DEFINE x == s.errs \/ o \in {"blocked", "error"}
           y == s.errs \/ o \in {"blocked", "error", "timeout"}
           t == [s EXCEPT !.errs = y]
<1>1. Red!Status(s, o) = [s EXCEPT !.errs = x]
  BY Zenon DEF Red!Status
<1>2. Red!RawStatus(s, o) = [t EXCEPT !.hot = TRUE]
  BY Zenon DEF Red!RawStatus
<1> HIDE DEF x, y
<1>3. Priced([s EXCEPT !.errs = x]) /\ Priced(t)
  BY FieldPriced
<1> HIDE DEF t
<1>4. Priced([t EXCEPT !.hot = TRUE])
  BY <1>3, FieldPriced
<1>5. QED
  BY <1>1, <1>2, <1>3, <1>4, Zenon

LEMMA EndPriced ==
  ASSUME NEW s, Priced(s)
  PROVE  Priced(Red!End(s)) /\ Priced(Red!Found(s))
<1> DEFINE x == IF s.errs THEN "error" ELSE "empty"
           t == [s EXCEPT !.at = "idle"]
           u == [t EXCEPT !.left = <<>>]
<1>1. Red!End(s) = [u EXCEPT !.result = x] /\ Red!Found(s) = [u EXCEPT !.result = "posts"]
  BY DEF Red!End, Red!Found
<1>2. Priced(t)
  BY FieldPriced
<1> HIDE DEF x, t
<1>3. Priced(u)
  BY <1>2, FieldPriced
<1> HIDE DEF u
<1>4. Priced([u EXCEPT !.result = x]) /\ Priced([u EXCEPT !.result = "posts"])
  BY <1>3, FieldPriced
<1>5. QED
  BY <1>1, <1>4

LEMMA OnwardPriced ==
  ASSUME NEW s, Priced(s)
  PROVE  Priced(Red!Onward(s)) /\ Priced(Red!Leave(s))
<1>1. Priced(Red!Rest(s))
  BY FieldPriced, EndPriced DEF Red!Rest
<1>2. Priced(Red!Onward(s))
  BY <1>1, FieldPriced DEF Red!Onward
<1>3. QED
  BY <1>2, EndPriced DEF Red!Leave

\* A page of the browser is within the budget, and is asked for twice at most.
LEMMA PagePriced ==
  ASSUME NEW s, Priced(s), NEW r \in Red!PageOutcomes(s)
  PROVE  Priced(r.s)
<1>1. CASE ~Red!CanSpend(s) \/ s.budget = 0
  BY <1>1 DEF Red!PageOutcomes
<1>2. CASE Red!CanSpend(s) /\ s.budget # 0
  <2> DEFINE t == [s EXCEPT !.used = s.used + 1]
  <2>1. PICK n \in {1, 2} : r.s = [t EXCEPT !.sent = t.sent + n]
    BY <1>2 DEF Red!PageOutcomes
  <2>2. /\ {"budget", "used", "sent"} \subseteq DOMAIN t
        /\ t.budget = s.budget /\ t.used = s.used + 1 /\ t.sent = s.sent
    BY DEF Priced
  <2> HIDE DEF t
  <2>3. /\ {"budget", "used", "sent"} \subseteq DOMAIN r.s
        /\ r.s.budget = s.budget /\ r.s.used = s.used + 1 /\ r.s.sent = s.sent + n
    BY <2>1, <2>2
  <2>4. s.budget # 0 /\ s.used < s.budget
    BY <1>2 DEF Red!CanSpend
  <2>5. QED
    BY <2>3, <2>4 DEF Priced
<1>3. QED
  BY <1>1, <1>2

LEMMA CallNow ==
  ASSUME RedditInv, NEW c \in rd_Callers, NEW t, Priced(t),
         rd_call' = [rd_call EXCEPT ![c] = t]
  PROVE  RedditInv'
BY DEF RedditInv

LEMMA RedditInit == Red!Init => RedditInv
<1> SUFFICES ASSUME Red!Init PROVE RedditInv
  OBVIOUS
<1>1. PICK b \in rd_Budgets : rd_call = [c \in rd_Callers |-> [Red!NoCall EXCEPT !.budget = b]]
  BY DEF Red!Init
<1>2. Priced([Red!NoCall EXCEPT !.budget = b])
  BY ServicePartsAssumption DEF Priced, Red!NoCall
<1>3. QED
  BY <1>1, <1>2 DEF RedditInv

LEMMA BeginStep ==
  ASSUME RedditInv, NEW c \in rd_Callers, Red!Begin(c)
  PROVE  RedditInv'
<1>1. PICK m \in rd_Budgets, first \in {"next", "hot", "thread", "meta"} :
        rd_call' = [rd_call EXCEPT ![c] =
          [Red!NoCall EXCEPT !.at = first, !.budget = IF first = "meta" THEN 0 ELSE m,
                             !.left = IF first = "next" THEN Red!ProvidersToTry ELSE <<>>,
                             !.want = CASE first = "next" -> "streamer"
                                        [] first = "hot" -> "trending"
                                        [] OTHER -> "thread"]]
  BY DEF Red!Begin
<1> DEFINE b == IF first = "meta" THEN 0 ELSE m
           y == IF first = "next" THEN Red!ProvidersToTry ELSE <<>>
           z == CASE first = "next" -> "streamer" [] first = "hot" -> "trending"
                  [] OTHER -> "thread"
           t == [Red!NoCall EXCEPT !.at = first, !.budget = b, !.left = y, !.want = z]
<1>2. rd_call' = [rd_call EXCEPT ![c] = t]
  BY <1>1
<1>3. b \in Int
  BY ServicePartsAssumption
<1> HIDE DEF b, y, z
<1>4. Priced(t)
  BY <1>3 DEF Priced, Red!NoCall
<1> HIDE DEF t
<1>5. QED
  BY <1>2, <1>4, CallNow

\* However a step of a search goes on, or ends, it costs nothing.
LEMMA GoesPriced ==
  ASSUME NEW s, Priced(s), NEW o, NEW x
  PROVE  /\ Priced(Red!Found(s)) /\ Priced([s EXCEPT !.at = x])
         /\ Priced(Red!Onward(s)) /\ Priced(Red!Onward(Red!Status(s, o)))
         /\ Priced([Red!Status(s, o) EXCEPT !.at = x])
         /\ Priced(Red!Onward([Red!Status(s, o) EXCEPT !.hot = x]))
         /\ Priced(Red!Leave(Red!RawStatus(s, o)))
         /\ Priced(Red!End(Red!Status(s, o)))
         /\ Priced(Red!End([Red!Status(s, o) EXCEPT !.errs = x]))
<1> DEFINE t == Red!Status(s, o)
           u == [t EXCEPT !.hot = x]
           v == [t EXCEPT !.errs = x]
<1>1. Priced(t) /\ Priced(Red!RawStatus(s, o)) /\ Priced([s EXCEPT !.at = x])
  BY StatusPriced, FieldPriced
<1> HIDE DEF t
<1>2. Priced(u) /\ Priced(v) /\ Priced([t EXCEPT !.at = x])
  BY <1>1, FieldPriced
<1> HIDE DEF u, v
<1>3. /\ Priced(Red!Found(s)) /\ Priced(Red!Onward(s)) /\ Priced(Red!Onward(t))
      /\ Priced(Red!Onward(u)) /\ Priced(Red!End(t)) /\ Priced(Red!End(v))
      /\ Priced(Red!Leave(Red!RawStatus(s, o)))
  BY <1>1, <1>2, OnwardPriced, EndPriced
<1>4. QED
  BY <1>1, <1>2, <1>3 DEF t, u, v

LEMMA SourceSteps ==
  ASSUME RedditInv, NEW c \in rd_Callers,
         Red!NextSource(c) \/ Red!Bearer(c) \/ Red!Official(c) \/ Red!PublicJSON(c)
           \/ Red!ThirdParty(c)
  PROVE  RedditInv'
<1> DEFINE s == rd_call[c]
<1>0. Priced(s)
  BY DEF RedditInv
<1>1. CASE Red!NextSource(c)
  <2> DEFINE t == [s EXCEPT !.left = Tail(s.left)]
             u(x) == [t EXCEPT !.at = x]
             w == Red!Onward(Red!Status(t, "blocked"))
  <2>1. \/ rd_call' = [rd_call EXCEPT ![c] = Red!Onward(t)]
        \/ rd_call' = [rd_call EXCEPT ![c] = w]
        \/ \E x : rd_call' = [rd_call EXCEPT ![c] = u(x)]
    BY <1>1 DEF Red!NextSource
  <2>2. Priced(t)
    BY <1>0, FieldPriced
  <2> HIDE DEF t
  <2>3. Priced(Red!Onward(t)) /\ Priced(w) /\ \A x : Priced(u(x))
    BY <2>2, GoesPriced
  <2> HIDE DEF u, w
  <2>4. QED
    BY <2>1, <2>3, CallNow
<1>2. CASE Red!Bearer(c)
  <2> DEFINE u == [s EXCEPT !.at = "official"]
             w(o) == Red!Onward(Red!Status(s, o))
  <2>1. \/ rd_call' = [rd_call EXCEPT ![c] = u]
        \/ \E o : rd_call' = [rd_call EXCEPT ![c] = w(o)]
    BY <1>2 DEF Red!Bearer
  <2>2. Priced(u) /\ \A o : Priced(w(o))
    BY <1>0, GoesPriced
  <2> HIDE DEF u, w
  <2>3. QED
    BY <2>1, <2>2, CallNow
<1>3. ASSUME NEW p, NEW bare, Priced(bare), Red!Listing(c, p, bare) PROVE RedditInv'
  <2> DEFINE u == Red!Found(s)
             w(o) == Red!Onward(Red!Status(s, o))
  <2>1. \/ rd_call' = [rd_call EXCEPT ![c] = u]
        \/ rd_call' = [rd_call EXCEPT ![c] = bare]
        \/ \E o : rd_call' = [rd_call EXCEPT ![c] = w(o)]
    BY <1>3 DEF Red!Listing
  <2>2. Priced(u) /\ \A o : Priced(w(o))
    BY <1>0, GoesPriced
  <2> HIDE DEF u, w
  <2>3. QED
    BY <1>3, <2>1, <2>2, CallNow
<1>4. CASE Red!Official(c) \/ Red!ThirdParty(c)
  BY <1>0, <1>3, <1>4, GoesPriced DEF Red!Official, Red!ThirdParty
<1>5. CASE Red!PublicJSON(c)
  <2> DEFINE t == Red!Status(s, "none")
             u == [t EXCEPT !.at = "hot"]
             b == IF rd_conf.low THEN Red!Onward(t) ELSE u
  <2>1. Red!Listing(c, "public_json", b)
    BY <1>5 DEF Red!PublicJSON
  <2>2. Priced(u) /\ Priced(Red!Onward(t))
    BY <1>0, GoesPriced
  <2> HIDE DEF t, u
  <2>3. Priced(b)
    BY <2>2
  <2> HIDE DEF b
  <2>4. QED
    BY <1>3, <2>1, <2>3
<1>6. QED
  BY <1>1, <1>2, <1>4, <1>5

LEMMA HotSteps ==
  ASSUME RedditInv, NEW c \in rd_Callers,
         Red!Hot(c) \/ Red!OldJSON(c) \/ Red!HotJSON(c) \/ Red!OldAgain(c) \/ Red!Html(c)
           \/ Red!Thread(c)
  PROVE  RedditInv'
<1> DEFINE s == rd_call[c]
           found == Red!Found(s)
           at(x) == [s EXCEPT !.at = x]
           leave(o) == Red!Leave(Red!RawStatus(s, o))
           end(o) == Red!End(Red!Status(s, o))
           ends(o, x) == Red!End([Red!Status(s, o) EXCEPT !.errs = x])
<1>1. \/ rd_call' = [rd_call EXCEPT ![c] = found]
      \/ \E x : rd_call' = [rd_call EXCEPT ![c] = at(x)]
      \/ \E o : rd_call' = [rd_call EXCEPT ![c] = leave(o)]
      \/ \E o : rd_call' = [rd_call EXCEPT ![c] = end(o)]
      \/ \E o, x : rd_call' = [rd_call EXCEPT ![c] = ends(o, x)]
  <2>1. CASE Red!Hot(c)
    BY <2>1 DEF Red!Hot
  <2>2. CASE Red!OldJSON(c)
    BY <2>2 DEF Red!OldJSON
  <2>3. CASE Red!HotJSON(c)
    BY <2>3 DEF Red!HotJSON
  <2>4. CASE Red!OldAgain(c)
    BY <2>4 DEF Red!OldAgain
  <2>5. CASE Red!Html(c)
    BY <2>5 DEF Red!Html
  <2>6. CASE Red!Thread(c)
    BY <2>6 DEF Red!Thread
  <2>7. QED
    BY <2>1, <2>2, <2>3, <2>4, <2>5, <2>6
<1>2. Priced(s)
  BY DEF RedditInv
<1>3. /\ Priced(found) /\ \A x : Priced(at(x))
      /\ \A o : Priced(leave(o)) /\ Priced(end(o)) /\ \A x : Priced(ends(o, x))
  BY <1>2, GoesPriced
<1> HIDE DEF s, found, at, leave, end, ends
<1>4. QED
  BY <1>1, <1>3, CallNow

\* The steps that ask the browser for a page.
LEMMA PageSteps ==
  ASSUME RedditInv, NEW c \in rd_Callers,
         Red!Page(c) \/ Red!HotPage(c) \/ Red!ThreadPage(c) \/ Red!Meta(c)
  PROVE  RedditInv'
<1> DEFINE s == rd_call[c]
           found(t) == Red!Found(t)
           at(t, x) == [t EXCEPT !.at = x]
           leave(t, o) == Red!Leave(Red!RawStatus(t, o))
           onward(t, o, x) == Red!Onward([Red!Status(t, o) EXCEPT !.hot = x])
           ends(t, o, x) == Red!End([Red!Status(t, o) EXCEPT !.errs = x])
           Pays(t) == \/ rd_call' = [rd_call EXCEPT ![c] = found(t)]
                      \/ \E x : rd_call' = [rd_call EXCEPT ![c] = at(t, x)]
                      \/ \E o : rd_call' = [rd_call EXCEPT ![c] = leave(t, o)]
                      \/ \E o, x : rd_call' = [rd_call EXCEPT ![c] = onward(t, o, x)]
                      \/ \E o, x : rd_call' = [rd_call EXCEPT ![c] = ends(t, o, x)]
<1>0. Priced(s)
  BY DEF RedditInv
<1>1. \E t : Priced(t) /\ Pays(t)
  <2>1. CASE Red!Page(c)
    <3>1. PICK r \in Red!PageOutcomes(s) :
            \/ rd_call' = [rd_call EXCEPT ![c] = found(r.s)]
            \/ rd_call' = [rd_call EXCEPT ![c] =
                             onward(r.s, r.o, ~rd_conf.low \/ Red!Status(r.s, r.o).hot)]
            \/ \E x : rd_call' = [rd_call EXCEPT ![c] = at(r.s, x)]
      <4> HIDE DEF Pays
      <4>1. QED
        BY <2>1 DEF Red!Page
    <3>2. Pays(r.s)
      <4> HIDE DEF found, at, leave, onward, ends
      <4>1. QED
        BY <3>1
    <3> HIDE DEF Pays
    <3>3. QED
      BY <1>0, <3>1, <3>2, PagePriced
  <2>2. CASE Red!HotPage(c)
    <3>1. PICK r \in Red!PageOutcomes(s) : Pays(r.s)
      BY <2>2 DEF Red!HotPage
    <3> HIDE DEF Pays
    <3>2. QED
      BY <1>0, <3>1, PagePriced
  <2>3. CASE Red!ThreadPage(c)
    <3>1. PICK r \in Red!PageOutcomes(s) : Pays(r.s)
      BY <2>3 DEF Red!ThreadPage
    <3> HIDE DEF Pays
    <3>2. QED
      BY <1>0, <3>1, PagePriced
  <2>4. CASE Red!Meta(c)
    <3>1. PICK r \in {[s |-> s, o |-> o] : o \in Red!Outcomes} \cup Red!PageOutcomes(s) :
            Pays(r.s)
      BY <2>4 DEF Red!Meta
    <3>2. r.s = s \/ r \in Red!PageOutcomes(s)
      OBVIOUS
    <3> HIDE DEF Pays
    <3>3. QED
      BY <1>0, <3>1, <3>2, PagePriced
  <2>5. QED
    BY <2>1, <2>2, <2>3, <2>4
<1>2. PICK t : Priced(t) /\ Pays(t)
  BY <1>1
<1>3. /\ Priced(found(t)) /\ \A x : Priced(at(t, x))
      /\ \A o : Priced(leave(t, o)) /\ \A x : Priced(onward(t, o, x)) /\ Priced(ends(t, o, x))
  BY <1>2, GoesPriced
<1> HIDE DEF s, found, at, leave, onward, ends
<1>4. QED
  BY <1>2, <1>3, CallNow

LEMMA RedditStep == RedditInv /\ [Red!Next]_(Red!vars) => RedditInv'
<1> SUFFICES ASSUME RedditInv, [Red!Next]_(Red!vars) PROVE RedditInv'
  OBVIOUS
<1>1. ASSUME NEW c \in rd_Callers,
             \/ Red!Begin(c) \/ Red!NextSource(c) \/ Red!Bearer(c) \/ Red!Page(c)
             \/ Red!Official(c) \/ Red!PublicJSON(c) \/ Red!ThirdParty(c)
             \/ Red!Hot(c) \/ Red!OldJSON(c) \/ Red!HotJSON(c) \/ Red!OldAgain(c)
             \/ Red!HotPage(c) \/ Red!Html(c)
             \/ Red!Thread(c) \/ Red!ThreadPage(c) \/ Red!Meta(c)
      PROVE  RedditInv'
  BY <1>1, BeginStep, SourceSteps, HotSteps, PageSteps
<1>2. CASE Red!TokenExpires \/ (\E p \in Red!Keys : Red!BackoffEnds(p)) \/ UNCHANGED Red!vars
  BY <1>2 DEF Red!TokenExpires, Red!BackoffEnds, Red!vars, RedditInv
<1>3. QED
  BY <1>1, <1>2 DEF Red!Next

(***************************************************************************)
(* Whatever way a search takes through the sources, and however many run   *)
(* and share their backoff, the browser is asked for no more pages than    *)
(* the budget of the call has, twice each at most (trySpend and            *)
(* doScraperRequest in lsf.go).                                            *)
(***************************************************************************)
THEOREM SearchesKeepTheirBudget == Red!Spec => []BudgetKept
<1>1. RedditInv => BudgetKept
  BY DEF RedditInv, Priced, BudgetKept, Red!BudgetKept
<1>2. QED
  BY RedditInit, RedditStep, <1>1, PTL DEF Red!Spec

-----------------------------------------------------------------------------
(* The pages of the list of streams (Paging).                              *)
(*                                                                         *)
(* The answer under way has to hold exactly what follows the cursor of the *)
(* browser, and all that is before that cursor has to be shown (Read).     *)
(* What is put together from pages is a recursive function: TakeWhole says *)
(* what it yields, by induction over the entries of a page (AllNumbers).   *)

\* A set that has 0 and, with n, n + 1, has every number.
LEMMA AllNumbers ==
  ASSUME NEW S, 0 \in S, \A n \in Nat : n \in S => n + 1 \in S
  PROVE  Nat \subseteq S
<1> SUFFICES ASSUME Nat \ S # {} PROVE FALSE
  OBVIOUS
<1> DEFINE T == {0 .. n : n \in Nat \ S}
           R == StrictSubsetOrdering(Nat)
<1>1. T # {} /\ \A t \in T : t \in SUBSET Nat
  OBVIOUS
<1>2. \A t \in T : IsFiniteSet(t)
  BY FS_Interval
<1>3. T \subseteq FiniteSubsetsOf(Nat)
  BY <1>1, <1>2 DEF FiniteSubsetsOf
<1>4. PICK t \in T : \A u \in T : ~(<<u, t>> \in R)
  <2> HIDE DEF T, R
  <2>1. IsWellFoundedOn(R, FiniteSubsetsOf(Nat))
    BY FS_StrictSubsetOrderingWellFounded DEF R
  <2>2. QED
    BY <1>1, <1>3, <2>1, WFMin
<1>5. PICK m \in Nat \ S : t = 0 .. m
  OBVIOUS
<1>6. m # 0 /\ m - 1 \in Nat
  OBVIOUS
<1>7. m - 1 \in S
  <2>1. SUFFICES ASSUME m - 1 \notin S PROVE FALSE
    OBVIOUS
  <2>2. 0 .. (m - 1) \in T
    BY <1>6, <2>1
  <2>3. 0 .. (m - 1) \subseteq 0 .. m /\ 0 .. (m - 1) # 0 .. m
    BY <1>6
  <2>4. <<0 .. (m - 1), 0 .. m>> \in R
    BY <1>6, <2>3 DEF StrictSubsetOrdering
  <2>5. QED
    BY <1>4, <1>5, <2>2, <2>4
<1>8. QED
  BY <1>5, <1>6, <1>7

\* A page that nothing of is in the answer, and that fits, is taken whole.
LEMMA TakeWhole ==
  ASSUME NEW S, NEW items \in Seq(S), NEW page \in Seq(S), NEW limit \in Nat,
         Len(items) + Len(page) <= limit,
         \A i, j \in 1 .. Len(page) : page[i] = page[j] => i = j,
         \A i \in 1 .. Len(page) : page[i] \notin Pages!ItemsOf(items)
  PROVE  Pages!Take(items, page, limit) = items \o page
<1> DEFINE n == Len(page)
           More(f, i) ==
             IF i = 0 THEN items
             ELSE IF page[i] \in Pages!ItemsOf(f[i - 1]) \/ Len(f[i - 1]) >= limit
             THEN f[i - 1]
             ELSE Append(f[i - 1], page[i])
           taken[i \in 0 .. n] ==
             IF i = 0 THEN items
             ELSE IF page[i] \in Pages!ItemsOf(taken[i - 1]) \/ Len(taken[i - 1]) >= limit
             THEN taken[i - 1]
             ELSE Append(taken[i - 1], page[i])
           whole == [i \in 0 .. n |-> items \o SubSeq(page, 1, i)]
<1>0. n \in Nat /\ page \in [1 .. n -> S] /\ Len(items) \in Nat
  OBVIOUS
<1>a. ASSUME NEW i \in 1 .. n
      PROVE  /\ page[i] \notin Pages!ItemsOf(items \o SubSeq(page, 1, i - 1))
             /\ ~(Len(items \o SubSeq(page, 1, i - 1)) >= limit)
             /\ Append(items \o SubSeq(page, 1, i - 1), page[i]) = items \o SubSeq(page, 1, i)
  <2> DEFINE so == items \o SubSeq(page, 1, i - 1)
  <2>1. /\ SubSeq(page, 1, i - 1) \in Seq(S) /\ Len(SubSeq(page, 1, i - 1)) = i - 1
        /\ \A k \in 1 .. i - 1 : SubSeq(page, 1, i - 1)[k] = page[k]
    BY <1>0
  <2>2. /\ Len(so) = Len(items) + i - 1
        /\ \A k \in 1 .. Len(so) :
             so[k] = IF k <= Len(items) THEN items[k] ELSE page[k - Len(items)]
    BY <1>0, <2>1
  <2>3. /\ DOMAIN so = 1 .. Len(so) /\ DOMAIN items = 1 .. Len(items)
    BY <1>0, <2>1
  <2> HIDE DEF so
  <2>4. page[i] \notin Pages!ItemsOf(so)
    <3> SUFFICES ASSUME NEW k \in 1 .. Len(so), page[i] = so[k] PROVE FALSE
      BY <2>3 DEF Pages!ItemsOf
    <3>1. CASE k <= Len(items)
      BY <1>0, <2>2, <2>3, <3>1 DEF Pages!ItemsOf
    <3>2. CASE k > Len(items)
      BY <1>0, <2>2, <3>2
    <3> QED
      BY <1>0, <2>2, <3>1, <3>2
  <2>5. ~(Len(so) >= limit)
    BY <1>0, <2>2
  <2>6. Append(so, page[i]) = items \o SubSeq(page, 1, i)
    <3> DEFINE l == Append(so, page[i])
               r == items \o SubSeq(page, 1, i)
    <3>1. /\ so \in Seq(S) /\ l \in Seq(S) /\ Len(l) = Len(so) + 1 /\ l[Len(so) + 1] = page[i]
          /\ \A k \in 1 .. Len(so) : l[k] = so[k]
      <4>1. so \in Seq(S) /\ page[i] \in S
        BY <1>0, <2>1, ConcatProperties DEF so
      <4>2. QED
        BY <4>1, AppendProperties
    <3>2. /\ SubSeq(page, 1, i) \in Seq(S) /\ Len(SubSeq(page, 1, i)) = i
          /\ \A k \in 1 .. i : SubSeq(page, 1, i)[k] = page[k]
      BY <1>0
    <3>3. /\ r \in Seq(S) /\ Len(r) = Len(items) + i
          /\ \A k \in 1 .. Len(items) + i : r[k] = IF k <= Len(items) THEN items[k]
                                                  ELSE page[k - Len(items)]
      BY <1>0, <3>2, ConcatProperties
    <3> HIDE DEF l, r
    <3>4. Len(l) = Len(r) /\ \A k \in 1 .. Len(l) : l[k] = r[k]
      <4>1. Len(l) = Len(r) /\ Len(so) \in Nat
        BY <1>0, <2>2, <3>1, <3>3
      <4>2. ASSUME NEW k \in 1 .. Len(l) PROVE l[k] = r[k]
        <5>1. CASE k \in 1 .. Len(so)
          <6>1. /\ l[k] = so[k] /\ k \in 1 .. Len(items) + i
                /\ so[k] = IF k <= Len(items) THEN items[k] ELSE page[k - Len(items)]
            BY <1>0, <2>2, <3>1, <5>1
          <6>2. QED
            BY <3>3, <6>1
        <5>2. CASE k = Len(so) + 1
          <6>1. k \in 1 .. Len(items) + i /\ ~(k <= Len(items)) /\ k - Len(items) = i
            BY <1>0, <2>2, <5>2
          <6>2. r[k] = page[i]
            BY <3>3, <6>1
          <6>3. QED
            BY <3>1, <5>2, <6>2
        <5>3. QED
          BY <3>1, <4>1, <5>1, <5>2
      <4>3. QED
        BY <4>1, <4>2
    <3>5. l = r
      BY <3>1, <3>3, <3>4, SeqEqual
    <3>6. QED
      BY <3>5 DEF l, r
  <2>7. QED
    BY <2>4, <2>5, <2>6 DEF so
<1>1. whole = [i \in 0 .. n |-> More(whole, i)]
  <2>1. whole[0] = items
    BY <1>0
  <2>2. ASSUME NEW i \in 0 .. n PROVE whole[i] = More(whole, i)
    <3>1. CASE i = 0
      BY <2>1, <3>1
    <3>2. CASE i # 0
      <4>1. i \in 1 .. n /\ i - 1 \in 0 .. n
        BY <1>0, <3>2
      <4>2. whole[i - 1] = items \o SubSeq(page, 1, i - 1) /\ whole[i] = items \o SubSeq(page, 1, i)
        BY <4>1
      <4>3. /\ page[i] \notin Pages!ItemsOf(whole[i - 1]) /\ ~(Len(whole[i - 1]) >= limit)
            /\ Append(whole[i - 1], page[i]) = whole[i]
        BY Zenon, <1>a, <4>1, <4>2
      <4> HIDE DEF whole
      <4>4. QED
        BY <3>2, <4>3
    <3>3. QED
      BY <3>1, <3>2
  <2>3. QED
    BY <2>2
<1>2. \E f : f = [i \in 0 .. n |-> More(f, i)]
  BY <1>1
<1>3. taken = CHOOSE f : f = [i \in 0 .. n |-> More(f, i)]
  OBVIOUS
<1>4. taken = [i \in 0 .. n |-> More(taken, i)]
  <2> DEFINE Sol(f) == f = [i \in 0 .. n |-> More(f, i)]
  <2>1. taken = CHOOSE f : Sol(f)
    BY <1>3
  <2>2. \E f : Sol(f)
    BY <1>2
  <2> HIDE DEF Sol, taken
  <2>3. Sol(taken)
    BY Zenon, <2>1, <2>2
  <2>4. QED
    BY <2>3 DEF Sol
<1>5. Pages!Take(items, page, limit) = taken[n]
  BY DEF Pages!Take
<1> HIDE DEF taken
<1>6. Nat \subseteq {i \in Nat : i <= n => taken[i] = whole[i]}
  <2> DEFINE T == {i \in Nat : i <= n => taken[i] = whole[i]}
  <2>1. 0 \in T
    BY <1>0, <1>1, <1>4
  <2>2. ASSUME NEW i \in Nat, i \in T PROVE i + 1 \in T
    <3> SUFFICES ASSUME i + 1 <= n PROVE taken[i + 1] = whole[i + 1]
      OBVIOUS
    <3>1. i \in 0 .. n /\ i + 1 \in 0 .. n /\ i + 1 # 0 /\ (i + 1) - 1 = i
      BY <1>0
    <3>2. taken[i] = whole[i]
      BY <2>2, <3>1
    <3> HIDE DEF whole
    <3>3. taken[i + 1] = More(taken, i + 1) /\ whole[i + 1] = More(whole, i + 1)
      BY <1>1, <1>4, <3>1
    <3>4. QED
      BY <3>1, <3>2, <3>3
  <2> HIDE DEF T
  <2>3. QED
    BY <2>1, <2>2, AllNumbers DEF T
<1>7. taken[n] = items \o SubSeq(page, 1, n)
  <2>1. n \in {i \in Nat : i <= n => taken[i] = whole[i]}
    BY <1>0, <1>6
  <2>2. QED
    BY <1>0, <2>1
<1>8. SubSeq(page, 1, n) = page
  BY <1>0
<1>9. QED
  BY <1>5, <1>7, <1>8

\* Paging counts as FiniteSets does.
LEMMA PagesCount == ASSUME NEW S PROVE Pages!Cardinality(S) = Cardinality(S)
BY DEF Pages!Cardinality, Cardinality

\* Every stream is somewhere in the list.
LEMMA ListHasAll ==
  ASSUME pg_list \in Pages!Lists
  PROVE  \A s \in pg_Streams : \E i \in 1 .. Pages!N : pg_list[i] = s
<1> USE ServicePartsAssumption, PagesCount DEF Pages!N
<1>1. Cardinality(pg_Streams) \in Nat
  BY FS_CardinalityType
<1>2. Cardinality(1 .. Cardinality(pg_Streams)) = Cardinality(pg_Streams)
  BY <1>1, FS_Interval
<1>3. pg_list \in Injection(1 .. Cardinality(pg_Streams), pg_Streams)
  BY DEF Pages!Lists, Injection, IsInjective
<1>4. pg_list \in Surjection(1 .. Cardinality(pg_Streams), pg_Streams)
  BY <1>2, <1>3, FS_Injection
<1>5. QED
  BY <1>4 DEF Surjection

\* What is shown of the list as far as cursor c.
SeenTo(c) == \A i \in 1 .. c : pg_list[i] \in pg_shown

\* The answer holds what follows the cursor of the browser, without a gap.
Read ==
  LET r == pg_req IN
  /\ r.held \in Pages!Cursors /\ SeenTo(r.held) /\ pg_shown \subseteq pg_Streams
  /\ r.at = "gql" => r.limit <= pg_PageSize /\ r.next = r.held /\ r.items = <<>>
  /\ r.at = "helix" =>
       /\ pg_helix /\ r.next \in Pages!Cursors /\ r.held <= r.next /\ r.next - r.held < r.limit
       /\ r.items = SubSeq(pg_list, r.held + 1, r.next)
       /\ r.next # r.held => r.cursor = r.next

\* Where the claim is made: the list has not moved, and no page of GQL is cut.
Steady == pg_moves = 0 /\ (pg_helix \/ pg_req.limit <= pg_PageSize)

PagesInv ==
  /\ pg_list \in Pages!Lists /\ pg_moves \in Nat /\ pg_req.limit \in pg_Limits
  /\ {"at", "limit", "held", "next", "cursor", "items"} \subseteq DOMAIN pg_req
  /\ Steady => Read
  /\ NothingSkipped

LEMMA PagesTyped ==
  /\ Pages!N \in Nat
  /\ \A l \in pg_Limits : l \in Nat \ {0}
  /\ pg_PageSize \in Nat \ {0} /\ pg_HelixPage \in Nat \ {0}
BY ServicePartsAssumption, FS_CardinalityType, PagesCount DEF Pages!N

LEMMA PagesInit == Pages!Init => PagesInv
<1> SUFFICES ASSUME Pages!Init PROVE PagesInv
  OBVIOUS
<1>1. /\ pg_req.at = "idle" /\ pg_req.limit \in pg_Limits /\ pg_req.held = 0
      /\ {"at", "limit", "held", "next", "cursor", "items"} \subseteq DOMAIN pg_req
  BY DEF Pages!Init
<1>2. Read
  BY <1>1, PagesTyped DEF Pages!Init, Read, SeenTo, Pages!Cursors
<1>3. NothingSkipped
  BY <1>1 DEF NothingSkipped, Pages!NothingSkipped
<1>4. QED
  BY <1>1, <1>2, <1>3 DEF Pages!Init, PagesInv

\* The streams between two cursors.
LEMMA Between ==
  ASSUME pg_list \in Pages!Lists, NEW a \in Pages!Cursors, NEW b \in Pages!Cursors, a <= b
  PROVE  /\ SubSeq(pg_list, a + 1, b) \in Seq(pg_Streams)
         /\ Len(SubSeq(pg_list, a + 1, b)) = b - a
         /\ \A i \in 1 .. b - a : SubSeq(pg_list, a + 1, b)[i] = pg_list[a + i]
         /\ Pages!ItemsOf(SubSeq(pg_list, a + 1, b)) = {pg_list[i] : i \in a + 1 .. b}
<1> DEFINE s == SubSeq(pg_list, a + 1, b)
<1>1. /\ Pages!N \in Nat /\ a \in 0 .. Pages!N /\ b \in 0 .. Pages!N
      /\ pg_list \in [1 .. Pages!N -> pg_Streams]
  BY PagesTyped DEF Pages!Cursors, Pages!Lists
<1>2. \A i \in a + 1 .. b : pg_list[i] \in pg_Streams
  BY <1>1
<1>3. /\ s \in Seq(pg_Streams) /\ Len(s) = IF a + 1 <= b THEN b - (a + 1) + 1 ELSE 0
      /\ \A i \in 1 .. b - (a + 1) + 1 : s[i] = pg_list[a + 1 + i - 1]
  BY <1>1, <1>2, SubSeqProperties
<1>4. /\ Len(s) = b - a /\ DOMAIN s = 1 .. b - a
      /\ \A i \in 1 .. b - a : s[i] = pg_list[a + i]
  <2>1. Len(s) = b - a
    BY <1>1, <1>3
  <2>2. DOMAIN s = 1 .. Len(s)
    BY <1>3
  <2> HIDE DEF s
  <2>3. ASSUME NEW i \in 1 .. b - a PROVE s[i] = pg_list[a + i]
    <3>1. i \in 1 .. b - (a + 1) + 1 /\ a + 1 + i - 1 = a + i
      BY <1>1
    <3>2. QED
      BY <1>3, <3>1
  <2>4. QED
    BY <2>1, <2>2, <2>3
<1> HIDE DEF s
<1>5. Pages!ItemsOf(s) = {pg_list[i] : i \in a + 1 .. b}
  <2>1. \A i \in 1 .. b - a : a + i \in a + 1 .. b
    BY <1>1
  <2>2. \A i \in a + 1 .. b : i - a \in 1 .. b - a /\ a + (i - a) = i
    BY <1>1
  <2>3. Pages!ItemsOf(s) = {s[i] : i \in 1 .. b - a}
    BY <1>4 DEF Pages!ItemsOf
  <2>4. {s[i] : i \in 1 .. b - a} \subseteq {pg_list[i] : i \in a + 1 .. b}
    BY <1>4, <2>1
  <2>5. ASSUME NEW i \in a + 1 .. b PROVE pg_list[i] \in {s[k] : k \in 1 .. b - a}
    <3>1. i - a \in 1 .. b - a /\ s[i - a] = pg_list[i]
      BY <1>4, <2>2
    <3>2. QED
      BY <3>1
  <2>6. QED
    BY <2>3, <2>4, <2>5
<1>6. QED
  BY <1>3, <1>4, <1>5 DEF s

\* An answer with the streams from the browser's cursor to the next one.
LEMMA AnsweredTo ==
  ASSUME PagesInv, Read, NEW b \in Pages!Cursors, pg_req.held <= b, NEW c,
         UNCHANGED <<pg_list, pg_moves, pg_helix>>,
         Pages!Answer(SubSeq(pg_list, pg_req.held + 1, b), c),
         (c = b /\ b # 0) \/ (c = 0 /\ b = Pages!N)
  PROVE  PagesInv'
<1> DEFINE h == pg_req.held
<1>1. /\ pg_req' = [pg_req EXCEPT !.at = "end", !.items = SubSeq(pg_list, h + 1, b),
                                   !.cursor = c, !.held = c]
      /\ pg_shown' = pg_shown \cup Pages!ItemsOf(SubSeq(pg_list, h + 1, b))
  BY DEF Pages!Answer
<1>2. /\ DOMAIN pg_req' = DOMAIN pg_req /\ pg_req'.at = "end" /\ pg_req'.cursor = c
      /\ pg_req'.held = c /\ pg_req'.limit = pg_req.limit
  BY <1>1 DEF PagesInv
<1>3. /\ Pages!N \in Nat /\ h \in 0 .. Pages!N /\ b \in 0 .. Pages!N
      /\ pg_list \in [1 .. Pages!N -> pg_Streams]
  BY PagesTyped DEF PagesInv, Read, Pages!Cursors, Pages!Lists
<1>4. pg_shown' = pg_shown \cup {pg_list[i] : i \in h + 1 .. b}
  BY <1>1, Between DEF PagesInv, Read
<1>5. /\ \A i \in 1 .. b : pg_list[i] \in pg_shown'
      /\ pg_shown' \subseteq pg_Streams
  <2>1. ASSUME NEW i \in 1 .. b PROVE pg_list[i] \in pg_shown'
    <3>1. CASE i \in 1 .. h
      BY <1>4, <3>1 DEF Read, SeenTo
    <3>2. CASE i \in h + 1 .. b
      BY <1>4, <3>2
    <3>3. QED
      BY <1>3, <3>1, <3>2
  <2>2. \A i \in h + 1 .. b : pg_list[i] \in pg_Streams
    BY <1>3
  <2>3. QED
    BY <1>4, <2>1, <2>2 DEF Read
<1>6. b = Pages!N => pg_shown' = pg_Streams
  BY <1>5, ListHasAll DEF PagesInv
<1>7. Read'
  <2>1. c \in Pages!Cursors /\ \A i \in 1 .. c : pg_list[i] \in pg_shown'
    BY <1>3, <1>5 DEF Pages!Cursors
  <2>2. Pages!Cursors' = Pages!Cursors
    BY DEF Pages!Cursors, Pages!N
  <2>3. QED
    BY <1>2, <1>5, <2>1, <2>2 DEF Read, SeenTo
<1>8. NothingSkipped'
  <2>1. c = 0 => pg_shown' = pg_Streams
    BY <1>6
  <2>2. QED
    BY <1>2, <2>1 DEF NothingSkipped, Pages!NothingSkipped
<1>9. QED
  BY <1>2, <1>7, <1>8 DEF PagesInv, Pages!Lists, Pages!N

\* Where no claim is made, the invariant says only what the list and the limit are.
LEMMA NoClaim ==
  ASSUME PagesInv, ~Steady', pg_list' \in Pages!Lists, pg_moves' \in Nat,
         pg_req'.limit = pg_req.limit, DOMAIN pg_req' = DOMAIN pg_req
  PROVE  PagesInv'
<1>1. NothingSkipped'
  BY DEF Steady, NothingSkipped, Pages!NothingSkipped
<1>2. QED
  BY <1>1 DEF PagesInv, Pages!Lists, Pages!N

LEMMA AskPages == ASSUME PagesInv, Pages!Ask PROVE PagesInv'
<1>1. /\ DOMAIN pg_req' = DOMAIN pg_req /\ pg_req'.limit = pg_req.limit
      /\ pg_req'.held = pg_req.held /\ pg_req'.next = pg_req.held /\ pg_req'.items = <<>>
      /\ pg_req'.at = IF pg_req.limit > pg_PageSize /\ pg_helix THEN "helix" ELSE "gql"
      /\ UNCHANGED <<pg_list, pg_moves, pg_helix>>
  BY DEF Pages!Ask, PagesInv
<1>2. Steady' => Steady
  BY <1>1 DEF Steady
<1>3. ASSUME Steady PROVE Read'
  <2>1. Read
    BY <1>3 DEF PagesInv
  <2>2. /\ Pages!N \in Nat /\ pg_req.held \in 0 .. Pages!N /\ pg_req.limit \in Nat \ {0}
        /\ pg_list \in [1 .. Pages!N -> pg_Streams]
    BY <2>1, PagesTyped DEF PagesInv, Read, Pages!Cursors, Pages!Lists
  <2>3. pg_req'.held \in Pages!Cursors' /\ pg_req'.next \in Pages!Cursors'
    BY <1>1, <2>1 DEF Read, Pages!Cursors, Pages!N
  <2>4. SeenTo(pg_req.held)' /\ pg_shown' \subseteq pg_Streams
    <3>1. CASE pg_req.held = 0
      BY <1>1, <3>1 DEF Pages!Ask, SeenTo
    <3>2. CASE pg_req.held # 0
      BY <1>1, <2>1, <3>2 DEF Pages!Ask, Read, SeenTo
    <3>3. QED
      BY <3>1, <3>2
  <2>5. pg_req'.at = "gql" => pg_req'.limit <= pg_PageSize
    BY <1>1, <1>3, <2>2, PagesTyped DEF Steady
  <2>6. pg_req'.at = "helix" => pg_helix'
    BY <1>1
  <2>7. pg_req'.items = SubSeq(pg_list', pg_req'.held + 1, pg_req'.next)
    BY <1>1, <2>2
  <2>8. pg_req'.held <= pg_req'.next /\ pg_req'.next - pg_req'.held < pg_req'.limit
    BY <1>1, <2>2
  <2>9. QED
    BY <1>1, <2>3, <2>4, <2>5, <2>6, <2>7, <2>8 DEF Read
<1>4. NothingSkipped'
  BY <1>1 DEF NothingSkipped, Pages!NothingSkipped
<1>5. QED
  BY <1>1, <1>2, <1>3, <1>4 DEF PagesInv, Pages!Lists, Pages!N

LEMMA GqlPages == ASSUME PagesInv, Pages!GqlOne PROVE PagesInv'
<1> DEFINE h == pg_req.held
           b == Pages!Least(h + pg_req.limit, Pages!N)
<1>1. /\ pg_req.at = "gql" /\ pg_req.limit <= pg_PageSize
      /\ UNCHANGED <<pg_list, pg_moves, pg_helix>>
      /\ Pages!Answer(Pages!Page(pg_req.next, pg_req.limit),
                      Pages!GqlCursor(pg_req.next, pg_req.limit))
  BY DEF Pages!GqlOne
<1>2. CASE Steady
  <2>1. Read /\ pg_req.next = h
    BY <1>1, <1>2 DEF PagesInv, Read
  <2>2. /\ Pages!N \in Nat /\ h \in 0 .. Pages!N /\ pg_req.limit \in Nat \ {0}
    BY <2>1, PagesTyped DEF PagesInv, Read, Pages!Cursors
  <2>3. b \in 0 .. Pages!N /\ h <= b /\ (b = 0 => Pages!N = 0)
    BY <2>2 DEF Pages!Least
  <2>4. Pages!Page(pg_req.next, pg_req.limit) = SubSeq(pg_list, h + 1, b)
    BY <2>1 DEF Pages!Page
  <2>5. Pages!GqlCursor(pg_req.next, pg_req.limit) = IF h >= Pages!N THEN 0 ELSE b
    BY <2>1 DEF Pages!GqlCursor
  <2>6. h >= Pages!N => b = Pages!N
    BY <2>2 DEF Pages!Least
  <2> HIDE DEF b
  <2> DEFINE c == IF h >= Pages!N THEN 0 ELSE b
  <2>7. (c = b /\ b # 0) \/ (c = 0 /\ b = Pages!N)
    BY <2>2, <2>3, <2>6
  <2>8. Pages!Answer(SubSeq(pg_list, h + 1, b), c)
    BY <1>1, <2>4, <2>5
  <2> HIDE DEF c
  <2>9. QED
    BY <1>1, <2>1, <2>3, <2>7, <2>8, AnsweredTo DEF Pages!Cursors
<1>3. CASE ~Steady
  <2>1. pg_req'.limit = pg_req.limit /\ DOMAIN pg_req' = DOMAIN pg_req
    BY <1>1 DEF Pages!Answer, PagesInv
  <2>2. ~Steady'
    BY <1>1, <1>3, <2>1 DEF Steady
  <2>3. QED
    BY <1>1, <2>1, <2>2, NoClaim DEF PagesInv
<1>4. QED
  BY <1>2, <1>3

LEMMA CutPages == ASSUME PagesInv, Pages!GqlPage PROVE PagesInv'
<1>1. /\ pg_req.at = "gql" /\ pg_req.limit > pg_PageSize
      /\ UNCHANGED <<pg_list, pg_moves, pg_helix>>
      /\ pg_req'.limit = pg_req.limit /\ DOMAIN pg_req' = DOMAIN pg_req
  BY DEF Pages!GqlPage, Pages!Answer, PagesInv
<1>2. ~Steady
  <2>1. pg_req.limit \in Nat /\ pg_PageSize \in Nat
    BY PagesTyped DEF PagesInv
  <2>2. QED
    BY <1>1, <2>1 DEF PagesInv, Read
<1>3. ~Steady'
  BY <1>1, <1>2 DEF Steady
<1>4. QED
  BY <1>1, <1>3, NoClaim DEF PagesInv

\* What follows a part of the list is put after it whole, when it fits.
LEMMA TakeOn ==
  ASSUME pg_list \in Pages!Lists, NEW h \in Nat, NEW m \in Nat, NEW b \in Nat,
         NEW limit \in Nat, h <= m, m <= b, b <= Pages!N, b - h <= limit
  PROVE  /\ Pages!Take(SubSeq(pg_list, h + 1, m), SubSeq(pg_list, m + 1, b), limit)
              = SubSeq(pg_list, h + 1, b)
         /\ Len(SubSeq(pg_list, h + 1, m)) = m - h
         /\ Len(SubSeq(pg_list, h + 1, b)) = b - h
<1> DEFINE so == SubSeq(pg_list, h + 1, m)
           page == SubSeq(pg_list, m + 1, b)
<1>a. PICK k \in Nat : k = Pages!N
  BY PagesTyped
<1>1. h \in Pages!Cursors /\ m \in Pages!Cursors /\ b \in Pages!Cursors
  BY <1>a DEF Pages!Cursors
<1>2. /\ so \in Seq(pg_Streams) /\ Len(so) = m - h
      /\ \A i \in 1 .. m - h : so[i] = pg_list[h + i]
      /\ Pages!ItemsOf(so) = {pg_list[i] : i \in h + 1 .. m}
  BY <1>1, Between
<1>3. /\ page \in Seq(pg_Streams) /\ Len(page) = b - m
      /\ \A i \in 1 .. b - m : page[i] = pg_list[m + i]
  BY <1>1, Between
<1> HIDE DEF so, page
<1>4. \A i, j \in 1 .. k : pg_list[i] = pg_list[j] => i = j
  BY <1>a DEF Pages!Lists
<1>5. \A i, j \in 1 .. Len(page) : page[i] = page[j] => i = j
  <2> SUFFICES ASSUME NEW i \in 1 .. b - m, NEW j \in 1 .. b - m, page[i] = page[j]
               PROVE  i = j
    BY <1>3
  <2>1. m + i \in 1 .. k /\ m + j \in 1 .. k
    BY <1>a
  <2>2. pg_list[m + i] = pg_list[m + j]
    BY <1>3
  <2>3. m + i = m + j
    BY <1>4, <2>1, <2>2
  <2>4. QED
    BY <2>3
<1>6. \A i \in 1 .. Len(page) : page[i] \notin Pages!ItemsOf(so)
  <2> SUFFICES ASSUME NEW i \in 1 .. b - m, NEW j \in h + 1 .. m, page[i] = pg_list[j]
               PROVE  FALSE
    BY <1>2, <1>3
  <2>1. m + i \in 1 .. k /\ j \in 1 .. k /\ j < m + i
    BY <1>a
  <2>2. pg_list[m + i] = pg_list[j]
    BY <1>3
  <2>3. m + i = j
    BY <1>4, <2>1, <2>2
  <2>4. QED
    BY <2>1, <2>3
<1>7. Len(so) + Len(page) <= limit
  BY <1>2, <1>3
<1>8. Pages!Take(so, page, limit) = so \o page
  BY <1>2, <1>3, <1>5, <1>6, <1>7, TakeWhole
<1>9. /\ SubSeq(pg_list, h + 1, b) \in Seq(pg_Streams)
      /\ Len(SubSeq(pg_list, h + 1, b)) = b - h
      /\ \A i \in 1 .. b - h : SubSeq(pg_list, h + 1, b)[i] = pg_list[h + i]
  <2>1. h <= b
    OBVIOUS
  <2>2. QED
    BY <1>1, <2>1, Between
<1>10. so \o page = SubSeq(pg_list, h + 1, b)
  <2> DEFINE l == so \o page
             r == SubSeq(pg_list, h + 1, b)
  <2>1. /\ l \in Seq(pg_Streams) /\ Len(l) = Len(so) + Len(page)
        /\ \A i \in 1 .. Len(so) + Len(page) :
             l[i] = IF i <= Len(so) THEN so[i] ELSE page[i - Len(so)]
    BY <1>2, <1>3, ConcatProperties
  <2>2. r \in Seq(pg_Streams) /\ Len(r) = b - h /\ \A i \in 1 .. b - h : r[i] = pg_list[h + i]
    BY <1>9
  <2> HIDE DEF l, r
  <2>3. Len(l) = Len(r)
    BY <1>2, <1>3, <2>1, <2>2
  <2>4. ASSUME NEW i \in 1 .. Len(l) PROVE l[i] = r[i]
    <3>1. i \in 1 .. b - h /\ r[i] = pg_list[h + i]
      BY <2>2, <2>3, <2>4
    <3>2. CASE i <= m - h
      BY <1>2, <1>3, <2>1, <2>2, <3>1, <3>2
    <3>3. CASE ~(i <= m - h)
      <4>1. i - (m - h) \in 1 .. b - m /\ m + (i - (m - h)) = h + i
        BY <3>1, <3>3
      <4>2. l[i] = page[i - (m - h)]
        BY <1>2, <1>3, <2>1, <2>2, <3>1, <3>3
      <4>3. QED
        BY <1>3, <3>1, <4>1, <4>2
    <3>4. QED
      BY <3>2, <3>3
  <2>5. l = r
    BY <2>1, <2>2, <2>3, <2>4, SeqEqual
  <2>6. QED
    BY <2>5 DEF l, r
<1>11. QED
  BY <1>2, <1>8, <1>9, <1>10 DEF so, page

\* One more page of Helix: it begins where the answer ends, and none of it is cut.
LEMMA HelixGoesOn ==
  ASSUME PagesInv, Read, pg_req.at = "helix",
         NEW n, n = Pages!Least(pg_HelixPage, pg_req.limit - Len(pg_req.items)),
         NEW b, b = Pages!Least(pg_req.next + n, Pages!N)
  PROVE  /\ b \in Pages!Cursors /\ pg_req.held <= b /\ (b = 0 => Pages!N = 0)
         /\ Pages!Take(pg_req.items, Pages!Page(pg_req.next, n), pg_req.limit)
              = SubSeq(pg_list, pg_req.held + 1, b)
         /\ Len(SubSeq(pg_list, pg_req.held + 1, b)) = b - pg_req.held
         /\ Pages!HelixCursor(pg_req.next, n) = IF pg_req.next + n >= Pages!N THEN 0 ELSE b
         /\ pg_req.next + n >= Pages!N => b = Pages!N
<1>1. PICK k, h, m, limit, most :
        /\ k = Pages!N /\ h = pg_req.held /\ m = pg_req.next /\ limit = pg_req.limit
        /\ most = pg_HelixPage
  OBVIOUS
<1>2. /\ k \in Nat /\ h \in Nat /\ m \in Nat /\ limit \in Nat /\ most \in Nat /\ most # 0
      /\ h <= m /\ m <= k /\ m - h < limit
      /\ pg_req.items = SubSeq(pg_list, h + 1, m)
  BY <1>1, PagesTyped DEF PagesInv, Read, Pages!Cursors
<1>3. Len(pg_req.items) = m - h
  <2>1. m - h <= limit /\ m <= m
    BY <1>2
  <2>2. QED
    BY <1>1, <1>2, <2>1, TakeOn DEF PagesInv
<1>4. n \in Nat /\ n # 0 /\ n <= limit - (m - h)
  BY <1>1, <1>2, <1>3 DEF Pages!Least
<1>5. /\ b \in Nat /\ m <= b /\ b <= k /\ b - m <= n /\ (b = 0 => k = 0)
      /\ (m + n >= k => b = k) /\ (~(m + n >= k) => b = m + n)
  <2>1. b = IF m + n < k THEN m + n ELSE k
    BY <1>1 DEF Pages!Least
  <2>2. CASE m + n < k
    BY <1>2, <1>4, <2>1, <2>2
  <2>3. CASE ~(m + n < k)
    BY <1>2, <1>4, <2>1, <2>3
  <2>4. QED
    BY <2>2, <2>3
<1>6. h <= b /\ b - h <= limit
  BY <1>2, <1>4, <1>5
<1>7. /\ Pages!Take(pg_req.items, SubSeq(pg_list, m + 1, b), limit) = SubSeq(pg_list, h + 1, b)
      /\ Len(SubSeq(pg_list, h + 1, b)) = b - h
  <2>1. k = Pages!N /\ pg_list \in Pages!Lists
    BY <1>1 DEF PagesInv
  <2>2. /\ Pages!Take(SubSeq(pg_list, h + 1, m), SubSeq(pg_list, m + 1, b), limit)
             = SubSeq(pg_list, h + 1, b)
        /\ Len(SubSeq(pg_list, h + 1, b)) = b - h
    <3>1. /\ h \in Nat /\ m \in Nat /\ b \in Nat /\ limit \in Nat
          /\ h <= m /\ m <= b /\ b <= Pages!N /\ b - h <= limit
      BY <1>1, <1>2, <1>5, <1>6
    <3>2. Len(SubSeq(pg_list, h + 1, b)) = b - h
      BY <2>1, <3>1, TakeOn
    <3>3. Pages!Take(SubSeq(pg_list, h + 1, m), SubSeq(pg_list, m + 1, b), limit)
            = SubSeq(pg_list, h + 1, b)
      BY <2>1, <3>1, TakeOn
    <3>4. QED
      BY <3>2, <3>3
  <2>3. QED
    BY <1>2, <2>2
<1>8. Pages!Page(m, n) = SubSeq(pg_list, m + 1, b)
  BY <1>1 DEF Pages!Page
<1>9. Pages!HelixCursor(m, n) = IF m + n >= k THEN 0 ELSE b
  BY <1>1, <1>5 DEF Pages!HelixCursor
<1>10. b \in Pages!Cursors
  BY <1>1, <1>2, <1>5 DEF Pages!Cursors
<1>11. QED
  BY <1>1, <1>5, <1>6, <1>7, <1>8, <1>9, <1>10

LEMMA HelixPages == ASSUME PagesInv, Pages!HelixNext PROVE PagesInv'
<1> DEFINE h == pg_req.held
           n == Pages!Least(pg_HelixPage, pg_req.limit - Len(pg_req.items))
           b == Pages!Least(pg_req.next + n, Pages!N)
           full == pg_req.next + n >= Pages!N
           c == IF full THEN 0 ELSE b
           items == Pages!Take(pg_req.items, Pages!Page(pg_req.next, n), pg_req.limit)
           cursor == Pages!HelixCursor(pg_req.next, n)
           ends == Len(items) >= pg_req.limit \/ cursor = 0 \/ Pages!Page(pg_req.next, n) = <<>>
<1>1. /\ pg_req.at = "helix" /\ UNCHANGED <<pg_list, pg_moves, pg_helix>>
      /\ IF ends THEN Pages!Answer(items, cursor)
         ELSE /\ pg_req' = [pg_req EXCEPT !.items = items, !.next = cursor, !.cursor = cursor]
              /\ UNCHANGED pg_shown
  BY DEF Pages!HelixNext
<1>2. pg_req'.limit = pg_req.limit /\ DOMAIN pg_req' = DOMAIN pg_req
  <2> HIDE DEF items, cursor, ends
  <2>1. QED
    BY <1>1 DEF Pages!Answer, PagesInv
<1>3. CASE ~Steady
  <2>1. ~Steady'
    BY <1>1, <1>2, <1>3 DEF Steady
  <2>2. QED
    BY <1>1, <1>2, <2>1, NoClaim DEF PagesInv
<1>4. CASE Steady
  <2>1. Read
    BY <1>4 DEF PagesInv
  <2>2. /\ b \in Pages!Cursors /\ h <= b /\ (b = 0 => Pages!N = 0)
        /\ items = SubSeq(pg_list, h + 1, b) /\ Len(items) = b - h
        /\ cursor = c /\ (full => b = Pages!N)
    <3> HIDE DEF n, b, items, cursor
    <3>1. n = Pages!Least(pg_HelixPage, pg_req.limit - Len(pg_req.items))
          /\ b = Pages!Least(pg_req.next + n, Pages!N)
      BY DEF n, b
    <3>2. QED
      BY <1>1, <2>1, <3>1, HelixGoesOn DEF items, cursor
  <2> HIDE DEF n, b, items, cursor
  <2>3. (c = b /\ b # 0) \/ (c = 0 /\ b = Pages!N)
    <3> HIDE DEF full
    <3>1. QED
      BY <2>2
  <2>4. CASE ends
    <3>1. Pages!Answer(SubSeq(pg_list, h + 1, b), c)
      BY <1>1, <2>2, <2>4
    <3> HIDE DEF c
    <3>2. QED
      BY <1>1, <2>1, <2>2, <2>3, <3>1, AnsweredTo
  <2>5. CASE ~ends
    <3>1. cursor # 0 /\ Len(items) < pg_req.limit /\ cursor = b
      <4>1. b \in Nat /\ h \in Nat /\ pg_req.limit \in Nat
        BY <2>1, <2>2, PagesTyped DEF Pages!Cursors, PagesInv, Read
      <4>2. QED
        BY <2>2, <2>3, <2>5, <4>1
    <3>2. /\ pg_req'.at = "helix" /\ pg_req'.held = h /\ pg_req'.next = b /\ pg_req'.cursor = b
          /\ pg_req'.items = SubSeq(pg_list, h + 1, b) /\ pg_shown' = pg_shown
      BY <1>1, <2>2, <2>5, <3>1 DEF PagesInv
    <3>3. Read'
      BY <1>1, <1>2, <2>1, <2>2, <3>1, <3>2 DEF Read, SeenTo, Pages!Cursors, Pages!N
    <3>4. NothingSkipped'
      BY <3>2 DEF NothingSkipped, Pages!NothingSkipped
    <3>5. QED
      BY <1>1, <1>2, <3>3, <3>4 DEF PagesInv, Pages!Lists, Pages!N
  <2>6. QED
    BY <2>4, <2>5
<1>5. QED
  BY <1>3, <1>4

LEMMA FailedPages == ASSUME PagesInv, Pages!Fail PROVE PagesInv'
<1>1. /\ UNCHANGED <<pg_list, pg_moves, pg_helix>>
      /\ pg_req'.limit = pg_req.limit /\ DOMAIN pg_req' = DOMAIN pg_req
  BY DEF Pages!Fail, Pages!Answer, PagesInv
<1>2. CASE ~Steady
  <2>1. ~Steady'
    BY <1>1, <1>2 DEF Steady
  <2>2. QED
    BY <1>1, <2>1, NoClaim DEF PagesInv
<1>3. CASE Steady /\ pg_req.items = <<>>
  <2>1. Read
    BY <1>3 DEF PagesInv
  <2>2. pg_req' = [pg_req EXCEPT !.at = "idle"] /\ pg_shown' = pg_shown
    BY <1>3 DEF Pages!Fail
  <2>3. pg_req'.at = "idle" /\ pg_req'.held = pg_req.held
    BY <2>2 DEF PagesInv
  <2>4. Read'
    BY <1>1, <2>1, <2>2, <2>3 DEF Read, SeenTo, Pages!Cursors, Pages!N
  <2>5. NothingSkipped'
    BY <2>3 DEF NothingSkipped, Pages!NothingSkipped
  <2>6. QED
    BY <1>1, <2>4, <2>5 DEF PagesInv, Pages!Lists, Pages!N
<1>4. CASE Steady /\ pg_req.items # <<>>
  <2>1. Read /\ Pages!Answer(pg_req.items, pg_req.cursor) /\ pg_req.at \in {"gql", "helix"}
    BY <1>4 DEF Pages!Fail, PagesInv
  <2>2. pg_req.at = "helix"
    BY <1>4, <2>1 DEF Read
  <2>3. /\ pg_req.next \in Pages!Cursors /\ pg_req.held <= pg_req.next
        /\ pg_req.held \in Pages!Cursors
        /\ pg_req.items = SubSeq(pg_list, pg_req.held + 1, pg_req.next)
    BY <2>1, <2>2 DEF Read
  <2>4. pg_req.next # pg_req.held
    <3> SUFFICES ASSUME pg_req.next = pg_req.held PROVE FALSE
      OBVIOUS
    <3>1. Len(pg_req.items) = 0 /\ pg_req.items \in Seq(pg_Streams)
      <4>1. /\ SubSeq(pg_list, pg_req.held + 1, pg_req.next) \in Seq(pg_Streams)
            /\ Len(SubSeq(pg_list, pg_req.held + 1, pg_req.next)) = pg_req.next - pg_req.held
        BY <2>3, Between DEF PagesInv
      <4>2. pg_req.held \in Nat
        BY <2>3, PagesTyped DEF Pages!Cursors
      <4>3. QED
        BY <2>3, <4>1, <4>2
    <3>2. QED
      BY <1>4, <3>1
  <2>5. pg_req.cursor = pg_req.next /\ pg_req.next # 0
    BY <2>1, <2>2, <2>3, <2>4, PagesTyped DEF Read, Pages!Cursors
  <2>6. QED
    BY <1>1, <2>1, <2>3, <2>5, AnsweredTo
<1>5. QED
  BY <1>2, <1>3, <1>4

LEMMA MovedPages == ASSUME PagesInv, Pages!Move PROVE PagesInv'
<1>1. PICK i \in 1 .. Pages!N - 1 :
        pg_list' = [pg_list EXCEPT ![i] = pg_list[i + 1], ![i + 1] = pg_list[i]]
  BY DEF Pages!Move
<1>2. /\ Pages!N \in Nat /\ i \in 1 .. Pages!N /\ i + 1 \in 1 .. Pages!N
      /\ pg_list \in [1 .. Pages!N -> pg_Streams]
      /\ \A j, k \in 1 .. Pages!N : pg_list[j] = pg_list[k] => j = k
  BY PagesTyped DEF PagesInv, Pages!Lists
<1>3. pg_list' \in Pages!Lists
  <2>1. pg_list' \in [1 .. Pages!N -> pg_Streams]
    BY <1>1, <1>2
  <2>2. ASSUME NEW j \in 1 .. Pages!N, NEW k \in 1 .. Pages!N, pg_list'[j] = pg_list'[k]
        PROVE  j = k
    BY <1>1, <1>2, <2>2
  <2>3. QED
    BY <2>1, <2>2 DEF Pages!Lists
<1>4. pg_moves' \in Nat /\ pg_moves' # 0 /\ pg_req' = pg_req
  BY DEF Pages!Move, PagesInv
<1>5. ~Steady'
  BY <1>4 DEF Steady
<1>6. QED
  BY <1>3, <1>4, <1>5, NoClaim DEF PagesInv

LEMMA PagesStep == ASSUME PagesInv, [Pages!Next]_(Pages!vars) PROVE PagesInv'
<1>1. CASE Pages!Ask
  BY <1>1, AskPages
<1>2. CASE Pages!GqlOne
  BY <1>2, GqlPages
<1>3. CASE Pages!GqlPage
  BY <1>3, CutPages
<1>4. CASE Pages!HelixNext
  BY <1>4, HelixPages
<1>5. CASE Pages!Fail
  BY <1>5, FailedPages
<1>6. CASE Pages!Move
  BY <1>6, MovedPages
<1>7. CASE Pages!Bearer \/ Pages!TokenExpires \/ UNCHANGED Pages!vars
  <2>1. UNCHANGED <<pg_list, pg_moves, pg_helix, pg_req, pg_shown>>
    BY <1>7 DEF Pages!Bearer, Pages!TokenExpires, Pages!vars
  <2>2. QED
    BY <2>1 DEF PagesInv, Steady, Read, SeenTo, NothingSkipped, Pages!NothingSkipped,
       Pages!Lists, Pages!Cursors, Pages!N
<1>8. QED
  BY <1>1, <1>2, <1>3, <1>4, <1>5, <1>6, <1>7 DEF Pages!Next

\* A browser that follows the cursors to the end has been shown every stream of a list that
\* stays as it is, for any number of streams, limit and size of the pages, when its answers come
\* from Helix or are one page of GQL each.  Of answers put together from several pages of GQL
\* nothing is said: they do skip streams (fetchTopStreamsGQL, api.go:436).
THEOREM PagesSkipNothing == Pages!Spec => []NothingSkipped
<1>1. Pages!Init => PagesInv
  BY PagesInit
<1>2. PagesInv /\ [Pages!Next]_(Pages!vars) => PagesInv'
  BY PagesStep
<1>3. PagesInv => NothingSkipped
  BY DEF PagesInv
<1>4. QED
  BY <1>1, <1>2, <1>3, PTL DEF Pages!Spec
==============================================================================
