--------------------------- MODULE Seeding_proofs ---------------------------
(***************************************************************************)
(* Proofs about Seeding.                                                   *)
(*                                                                         *)
(* NeverHollow is about one request from its first statement to its        *)
(* answer.  What it read on the way stays true while it goes on, because   *)
(* no step of another takes a ready emote out of what the active set       *)
(* shows, but for the three that move the set (the activation of another   *)
(* one, the sync of the set, and a provider that puts the channel under    *)
(* another login), and these the property excepts.                         *)
(***************************************************************************)
EXTENDS Seeding, TLAPS

Sets == Lists \cup {Preloaded}

Typed ==
  /\ rows \in [Emotes -> {"none", "pending", "ready"}]
  /\ members \in [Sets -> (SUBSET Emotes) \cup {None}]
  /\ remote \in [Providers -> (SUBSET Emotes) \cup {None}]
  /\ moved \in BOOLEAN

\* The active set is one that is there.
Live == active # None => active \in Sets /\ members[active] # None

\* What a worker carries.
Carried(j) ==
  /\ {"at", "list", "todo", "p", "phase", "seen", "got", "e", "wanted", "some", "missed",
      "err", "one"} \subseteq DOMAIN j
  /\ j.todo \subseteq Providers /\ j.got \subseteq Emotes
  /\ j.seen = None \/ j.seen \subseteq Emotes

Fit(j) ==
  /\ Carried(j)
  /\ j.at \in {"sync", "prune"} => j.seen \subseteq Emotes
  /\ j.at \in {"insert", "add"} => j.e \in Emotes

\* The set a worker fills is there from when it is prepared.
Filling == {"activate", "fetch", "globals", "record", "look", "insert", "add", "sync", "prune"}

Furnished(j) ==
  /\ j.at = "prepare" => j.list \in Sets
  /\ j.at \in Filling => j.list \in Sets /\ members[j.list] # None

Working ==
  /\ DOMAIN work = Workers
  /\ \A w \in Workers : Fit(work[w]) /\ Furnished(work[w])

\* What a request carries.
Asked ==
  /\ {"at", "list", "known", "pend", "full", "ready", "partial", "bare", "included", "todo",
      "got", "state"} \subseteq DOMAIN ask
  /\ ask.at \in {"providers", "loads", "active", "decide", "start", "rebuild"} =>
       ask.list \in Lists /\ ask.todo \subseteq Providers

Shows(p) == Ready \cap Of(p) # {}

\* Unless the set was moved, what the request found still shows.
Showing ==
  ~moved =>
    /\ ask.at = "loads" => \A p \in ask.full : Shows(p)
    /\ ask.at \in {"active", "decide", "start"} =>
         \A p \in ask.list : p \in ask.todo \cup ask.bare \/ Shows(p)
    /\ ask.at = "rebuild" => \A p \in ask.list \ ask.bare : ask.got \cap Of(p) # {}

SeedingInv == Typed /\ Live /\ Working /\ Asked /\ Showing /\ NeverHollow

-----------------------------------------------------------------------------
LEMMA SeedingInit == Init => SeedingInv
<1> SUFFICES ASSUME Init PROVE SeedingInv
  OBVIOUS
<1> USE SeedingAssumption DEF Init
<1>1. Typed
  BY DEF Typed, Sets, Of
<1>2. Live /\ Asked /\ NeverHollow
  BY DEF Live, Asked, NoAsk, NeverHollow
<1>3. Working
  BY DEF Working, NoWork, Fit, Carried, Furnished, Filling
<1>4. Showing
  BY DEF Showing, NoAsk
<1>5. QED
  BY <1>1, <1>2, <1>3, <1>4 DEF SeedingInv

(***************************************************************************)
(* What a worker does to its own seed.                                     *)
(***************************************************************************)
LEMMA WorkNow ==
  ASSUME Working, NEW w, NEW j, work' = [work EXCEPT ![w] = j], Fit(j),
         j.at = "prepare" => j.list \in Sets,
         j.at \in Filling => j.list \in Sets /\ members'[j.list] # None,
         \A l \in Sets : members[l] # None => members'[l] # None
  PROVE  Working'
BY DEF Working, Fit, Carried, Furnished

\* Wherever a seed goes on, it carries what it needs there.
LEMMA SettledFit ==
  ASSUME NEW w, NEW s, Carried(s)
  PROVE  /\ Fit(Settled(w, s))
         /\ Settled(w, s).at # "prepare" /\ Settled(w, s).list = s.list
<1> DEFINE next == IF s.got # {} THEN "look"
                   ELSE IF w = "event" THEN "collect"
                   ELSE IF s.err \/ s.p # "7tv" \/ s.phase = "globals" THEN "record"
                   ELSE IF s.phase = "user" /\ s.seen # None THEN "sync"
                   ELSE "globals"
           t == [s EXCEPT !.at = next, !.e = None]
<1>1. Settled(w, s) = t
  BY DEF Settled
<1>2. /\ next \in {"look", "collect", "record", "sync", "globals"}
      /\ next = "sync" => s.seen # None
  OBVIOUS
<1> HIDE DEF next
<1>3. /\ DOMAIN t = DOMAIN s /\ t.at = next /\ t.list = s.list
      /\ t.todo = s.todo /\ t.got = s.got /\ t.seen = s.seen
  BY DEF Carried
<1> HIDE DEF t
<1>4. QED
  BY <1>1, <1>2, <1>3 DEF Fit, Carried

\* Nothing that shows goes while the set stays as it is or grows.
LEMMA WorkerStep ==
  ASSUME SeedingInv, Working', UNCHANGED <<remote, active, ask, moved, hollow>>,
         rows' \in [Emotes -> {"none", "pending", "ready"}],
         \A e \in Emotes : rows[e] = "ready" => rows'[e] = "ready",
         login = "own" => login' = "own",
         members' \in [Sets -> (SUBSET Emotes) \cup {None}],
         \A l \in Sets : members[l] # None => members'[l] # None /\ members[l] \subseteq members'[l]
  PROVE  SeedingInv'
<1>1. Typed' /\ Live' /\ Asked' /\ NeverHollow'
  BY DEF SeedingInv, Typed, Live, Asked, NeverHollow
<1>2. \A p : Shows(p) => Shows(p)'
  BY DEF SeedingInv, Live, Shows, Ready, ActiveMembers, Of
<1>3. Showing'
  BY <1>2 DEF SeedingInv, Showing
<1>4. QED
  BY <1>1, <1>3 DEF SeedingInv

\* A worker goes on with the set it fills, or is done with it.
Onward(w) == \E j : /\ work' = [work EXCEPT ![w] = j] /\ Fit(j) /\ j.at # "prepare"
                    /\ j.at \in Filling => j.list = work[w].list /\ work[w].at \in Filling

LEMMA OnwardKeeps ==
  ASSUME Working, NEW w \in Workers, Onward(w),
         \A l \in Sets : members[l] # None => members'[l] # None
  PROVE  Working'
<1>1. PICK j : /\ work' = [work EXCEPT ![w] = j] /\ Fit(j) /\ j.at # "prepare"
               /\ j.at \in Filling => j.list = work[w].list /\ work[w].at \in Filling
  BY DEF Onward
<1>2. j.at \in Filling => j.list \in Sets /\ members[j.list] # None
  BY <1>1 DEF Working, Furnished
<1>3. QED
  BY <1>1, <1>2, WorkNow

\* A step that touches no row and no set.
LEMMA PlainStep ==
  ASSUME SeedingInv, UNCHANGED <<remote, rows, members, active, login, ask, moved, hollow>>,
         Working'
  PROVE  SeedingInv'
BY WorkerStep DEF SeedingInv, Typed

LEMMA GotoOnward ==
  ASSUME Working, NEW w \in Workers, NEW x, Goto(w, x),
         x \in Filling \ {"insert", "add", "sync", "prune"} => work[w].at \in Filling,
         x \notin {"prepare", "insert", "add", "sync", "prune"}
  PROVE  Onward(w)
<1> DEFINE j == [work[w] EXCEPT !.at = x]
<1>1. /\ DOMAIN j = DOMAIN work[w] /\ j.at = x /\ j.list = work[w].list
      /\ j.todo = work[w].todo /\ j.got = work[w].got /\ j.seen = work[w].seen
      /\ work' = [work EXCEPT ![w] = j] /\ Fit(work[w])
  BY DEF Goto, Working, Fit, Carried
<1> HIDE DEF j
<1>2. Fit(j)
  BY <1>1 DEF Fit, Carried
<1>3. QED
  BY <1>1, <1>2 DEF Onward, Filling

LEMMA OverOnward ==
  ASSUME Working, NEW w \in Workers, Over(w)
  PROVE  Onward(w)
<1> DEFINE j == [NoWork EXCEPT !.at = IF w = "seed" THEN "repair" ELSE "idle"]
<1>1. Fit(j) /\ j.at \notin Filling \cup {"prepare"}
  BY DEF NoWork, Fit, Carried, Filling
<1>2. work' = [work EXCEPT ![w] = j]
  BY DEF Over
<1>3. QED
  BY <1>1, <1>2 DEF Onward

\* What is to be imported once what is done with is taken out.
LEMMA SettledOnward ==
  ASSUME Working, NEW w \in Workers, NEW s, Carried(s), work[w].at \in Filling,
         s.list = work[w].list, work' = [work EXCEPT ![w] = Settled(w, s)]
  PROVE  Onward(w)
<1> DEFINE j == Settled(w, s)
<1>1. Fit(j) /\ j.at # "prepare" /\ j.list = s.list
  BY SettledFit
<1> HIDE DEF j
<1>2. work' = [work EXCEPT ![w] = j]
  BY DEF j
<1>3. QED
  BY <1>1, <1>2 DEF Onward

LEMMA EndedOnward ==
  ASSUME Working, NEW w \in Workers, NEW e, NEW how, Ended(w, e, how), work[w].at \in Filling
  PROVE  Onward(w)
<1> DEFINE j == work[w]
           s == [j EXCEPT !.got = j.got \ {e}, !.err = j.err \/ how = "failed",
                          !.some = j.some \/ (how = "imported" /\ j.phase # "adds"),
                          !.missed = j.missed \/ (how # "imported" /\ j.phase # "adds")]
<1>1. /\ DOMAIN s = DOMAIN j /\ s.list = j.list /\ s.todo = j.todo /\ s.got = j.got \ {e}
      /\ s.seen = j.seen /\ Carried(j)
  BY DEF Working, Fit, Carried
<1>2. work' = [work EXCEPT ![w] = Settled(w, s)]
  BY DEF Ended
<1> HIDE DEF s
<1>3. Carried(s)
  BY <1>1 DEF Carried
<1>4. QED
  BY <1>1, <1>2, <1>3, SettledOnward

LEMMA ImportingOnward ==
  ASSUME Working, NEW w \in Workers, NEW x, NEW offered \in SUBSET Emotes,
         work[w].at \in Filling, work' = [work EXCEPT ![w] = Importing(w, x, offered)]
  PROVE  Onward(w)
<1> DEFINE j == work[w]
           s == [j EXCEPT !.phase = x, !.got = offered,
                   !.wanted = j.wanted + IF x = "adds" THEN 0 ELSE Cardinality(offered)]
<1>1. /\ DOMAIN s = DOMAIN j /\ s.list = j.list /\ s.todo = j.todo /\ s.got = offered
      /\ s.seen = j.seen /\ Carried(j)
  BY DEF Working, Fit, Carried
<1>2. work' = [work EXCEPT ![w] = Settled(w, s)]
  BY DEF Importing
<1> HIDE DEF s
<1>3. Carried(s)
  BY <1>1 DEF Carried
<1>4. QED
  BY <1>1, <1>2, <1>3, SettledOnward

-----------------------------------------------------------------------------
(* The steps of a seed.                                                     *)

LEMMA PrepareStep ==
  ASSUME SeedingInv, NEW w \in Workers, Prepare(w)
  PROVE  SeedingInv'
<1> DEFINE l == work[w].list
           j == [work[w] EXCEPT !.at = "activate"]
<1>1. /\ l \in Sets /\ members \in [Sets -> (SUBSET Emotes) \cup {None}] /\ Fit(work[w])
      /\ members' = [members EXCEPT ![l] = IF members[l] = None THEN {} ELSE members[l]]
  BY DEF SeedingInv, Working, Typed, Furnished, Prepare, At
<1>2. /\ members' \in [Sets -> (SUBSET Emotes) \cup {None}] /\ members'[l] # None
      /\ \A m \in Sets : members[m] # None => members'[m] = members[m]
  BY <1>1, SeedingAssumption
<1>3. /\ DOMAIN j = DOMAIN work[w] /\ j.at = "activate" /\ j.list = l
      /\ j.todo = work[w].todo /\ j.got = work[w].got /\ j.seen = work[w].seen
      /\ work' = [work EXCEPT ![w] = j]
  BY <1>1 DEF Fit, Carried, Prepare, Goto
<1> HIDE DEF j, l
<1>4. Fit(j)
  BY <1>1, <1>3 DEF Fit, Carried
<1>5. Working'
  BY <1>1, <1>2, <1>3, <1>4, WorkNow DEF SeedingInv
<1>6. QED
  BY <1>2, <1>5, WorkerStep DEF SeedingInv, Typed, Prepare

LEMMA ActivateStep ==
  ASSUME SeedingInv, NEW w \in Workers, Activate(w)
  PROVE  SeedingInv'
<1> USE DEF SeedingInv, Activate, At
<1>1. Working'
  <2>1. Onward(w)
    BY GotoOnward DEF Filling
  <2>2. QED
    BY <2>1, OnwardKeeps
<1>2. Live' /\ Typed' /\ Asked' /\ NeverHollow'
  BY DEF Live, Typed, Working, Furnished, Filling, Asked, NeverHollow
<1>3. ~moved' => ~moved /\ active' = active
  BY DEF Typed
<1>4. Showing'
  BY <1>3 DEF Showing, Shows, Ready, ActiveMembers, Of
<1>5. QED
  BY <1>1, <1>2, <1>4

\* A provider answers; it may put the channel under another login.
LEMMA FetchStep == ASSUME SeedingInv, NEW w \in Workers, Fetch(w) PROVE SeedingInv'
<1> USE DEF At
<1> DEFINE j == work[w]
<1>0. Working /\ Typed /\ Fit(j) /\ Live /\ Asked /\ Showing /\ NeverHollow
  BY DEF SeedingInv, Working
<1>1. PICK p \in j.todo : \E offered \in Answers(p) :
        work' = [work EXCEPT ![w] =
                   Settled(w, [j EXCEPT !.p = p, !.todo = j.todo \ {p}, !.phase = "user",
                                        !.seen = remote[p], !.got = offered,
                                        !.wanted = Cardinality(offered)])]
  BY DEF Fetch
<1>2. PICK offered \in Answers(p) :
        work' = [work EXCEPT ![w] =
                   Settled(w, [j EXCEPT !.p = p, !.todo = j.todo \ {p}, !.phase = "user",
                                        !.seen = remote[p], !.got = offered,
                                        !.wanted = Cardinality(offered)])]
  BY <1>1
<1> DEFINE s == [j EXCEPT !.p = p, !.todo = j.todo \ {p}, !.phase = "user",
                          !.seen = remote[p], !.got = offered,
                          !.wanted = Cardinality(offered)]
<1>3. p \in Providers /\ p \in {"7tv", "ffz", "bttv", "twitch"}
  BY <1>0, SeedingAssumption DEF Fit, Carried
<1>4. offered \subseteq Emotes
  BY <1>2, <1>3, <1>0 DEF Answers, SevenTVAnswers, FFZAnswers, BTTVAnswers, TwitchAnswers,
                          Offered, GlobalsOf, Of, Typed
<1>5. /\ DOMAIN s = DOMAIN j /\ s.list = j.list /\ s.todo = j.todo \ {p}
      /\ s.seen = remote[p] /\ s.got = offered
  BY <1>0 DEF Fit, Carried
<1>6. remote[p] = None \/ remote[p] \subseteq Emotes
  BY <1>0, <1>3 DEF Typed
<1>7. work' = [work EXCEPT ![w] = Settled(w, s)]
  BY <1>2
<1> HIDE DEF s
<1>8. Carried(s)
  BY <1>0, <1>4, <1>5, <1>6 DEF Fit, Carried
<1>9. Onward(w)
  BY <1>0, <1>5, <1>7, <1>8, SettledOnward DEF Fetch, Filling
<1>10. /\ UNCHANGED <<remote, rows, members, active, ask, hollow>>
        /\ moved' \in BOOLEAN /\ (~moved' => ~moved /\ (login = "own" => login' = "own"))
  BY <1>0 DEF Fetch, Typed
<1>11. Working'
  BY <1>0, <1>9, <1>10, OnwardKeeps
<1>12. Typed' /\ Live' /\ Asked' /\ NeverHollow'
  BY <1>0, <1>10 DEF Typed, Live, Asked, NeverHollow
<1>13. ~moved' => \A q : Shows(q) => Shows(q)'
  BY <1>10 DEF Shows, Ready, ActiveMembers, Of
<1>14. Showing'
  BY <1>0, <1>10, <1>13 DEF Showing
<1>15. QED
  BY <1>11, <1>12, <1>14 DEF SeedingInv

\* The steps that only move the worker.
LEMMA MovingSteps ==
  ASSUME SeedingInv, NEW w \in Workers,
         \/ PrepareFails(w) \/ FetchFails(w) \/ FetchGlobals(w) \/ Record(w)
         \/ Sync(w) \/ Skip(w) \/ AddFails(w) \/ Collect(w) \/ Rebuild(w)
  PROVE  SeedingInv'
<1> USE DEF At
<1> DEFINE j == work[w]
<1>0. Working /\ Typed /\ Fit(j)
  BY DEF SeedingInv, Working
<1>1. CASE PrepareFails(w)
  <2>1. Working'
    BY <1>0, <1>1, OverOnward, OnwardKeeps DEF PrepareFails
  <2>2. login = "own" => login' = "own"
    BY <1>1 DEF PrepareFails
  <2>3. QED
    BY <1>0, <1>1, <2>1, <2>2, WorkerStep DEF PrepareFails, Typed
<1>2. CASE FetchFails(w)
  <2>1. PICK p \in j.todo :
          work' = [work EXCEPT ![w] = [j EXCEPT !.at = "record", !.p = p, !.todo = j.todo \ {p},
                                                !.err = TRUE]]
    BY <1>0, <1>2 DEF FetchFails, Working, Fit, Carried
  <2> DEFINE s == [j EXCEPT !.at = "record", !.p = p, !.todo = j.todo \ {p}, !.err = TRUE]
  <2>2. /\ DOMAIN s = DOMAIN j /\ s.at = "record" /\ s.list = j.list /\ s.got = j.got
        /\ s.seen = j.seen /\ s.todo = j.todo \ {p} /\ work' = [work EXCEPT ![w] = s]
    BY <1>0, <2>1 DEF Fit, Carried
  <2> HIDE DEF s
  <2>3. Fit(s)
    BY <1>0, <2>2 DEF Fit, Carried
  <2>4. Onward(w)
    BY <1>2, <2>2, <2>3 DEF Onward, Filling, FetchFails
  <2>5. QED
    BY <1>0, <1>2, <2>4, OnwardKeeps, PlainStep DEF FetchFails, data
<1>3. CASE FetchGlobals(w)
  <2>1. Onward(w)
    <3>1. GlobalsOf("7tv") \in SUBSET Emotes
      BY DEF GlobalsOf, Of
    <3>2. QED
      BY <1>0, <1>3, <3>1, ImportingOnward, GotoOnward DEF FetchGlobals, Filling
  <2>2. QED
    BY <1>0, <1>3, <2>1, OnwardKeeps, PlainStep DEF FetchGlobals, data
<1>4. CASE Record(w)
  <2> DEFINE s == [NoWork EXCEPT !.at = AfterProvider(w), !.list = j.list, !.todo = j.todo]
  <2>1. Fit(s) /\ s.at \in {"collect", "fetch"} /\ s.list = j.list
    BY <1>0 DEF NoWork, Fit, Carried, AfterProvider
  <2>2. work' = [work EXCEPT ![w] = s]
    BY <1>4 DEF Record
  <2> HIDE DEF s
  <2>3. Onward(w)
    BY <1>4, <2>1, <2>2 DEF Onward, Filling, Record
  <2>4. QED
    BY <1>0, <1>4, <2>3, OnwardKeeps, PlainStep DEF Record
<1>5. CASE Sync(w)
  <2>1. CASE work' = [work EXCEPT ![w].at = "prune", ![w].one = LocalRows(work[w].list)]
    <3> DEFINE s == [j EXCEPT !.at = "prune", !.one = LocalRows(j.list)]
    <3>1. /\ DOMAIN s = DOMAIN j /\ s.at = "prune" /\ s.list = j.list /\ s.got = j.got
          /\ s.seen = j.seen /\ s.todo = j.todo /\ work' = [work EXCEPT ![w] = s]
      BY <1>0, <2>1 DEF Working, Fit, Carried
    <3> HIDE DEF s
    <3>2. Fit(s)
      BY <1>0, <1>5, <3>1 DEF Fit, Carried, Sync
    <3>3. Onward(w)
      BY <1>5, <3>1, <3>2 DEF Onward, Filling, Sync
    <3>4. QED
      BY <1>0, <1>5, <3>3, OnwardKeeps, PlainStep DEF Sync, data
  <2>2. CASE work' = [work EXCEPT ![w] = Settled(w, [work[w] EXCEPT !.err = TRUE])]
    <3> DEFINE s == [j EXCEPT !.err = TRUE]
    <3>1. /\ DOMAIN s = DOMAIN j /\ s.list = j.list /\ s.got = j.got
          /\ s.seen = j.seen /\ s.todo = j.todo
          /\ work' = [work EXCEPT ![w] = Settled(w, s)]
      BY <1>0, <2>2 DEF Fit, Carried
    <3> HIDE DEF s
    <3>2. Carried(s)
      BY <1>0, <3>1 DEF Fit, Carried
    <3>3. Onward(w)
      BY <1>0, <1>5, <3>1, <3>2, SettledOnward DEF Filling, Sync
    <3>4. QED
      BY <1>0, <1>5, <3>3, OnwardKeeps, PlainStep DEF Sync, data
  <2>3. QED
    BY <1>5, <2>1, <2>2 DEF Sync
<1>6. CASE Skip(w)
  BY <1>0, <1>6, EndedOnward, OnwardKeeps, PlainStep DEF Skip, Filling, data
<1>7. CASE AddFails(w)
  BY <1>0, <1>7, EndedOnward, OnwardKeeps, PlainStep DEF AddFails, Filling, data
<1>8. CASE Collect(w)
  <2>1. CASE Over(w)
    BY <1>0, <1>8, <2>1, OverOnward, OnwardKeeps, PlainStep DEF Collect, data
  <2>2. CASE work' = [work EXCEPT ![w] = [NoWork EXCEPT !.at = "rebuild", !.one = Visible]]
    <3> DEFINE s == [NoWork EXCEPT !.at = "rebuild", !.one = Visible]
    <3>1. Fit(s) /\ s.at = "rebuild"
      BY DEF NoWork, Fit, Carried
    <3>2. work' = [work EXCEPT ![w] = s]
      BY <2>2
    <3> HIDE DEF s
    <3>3. Onward(w)
      BY <3>1, <3>2 DEF Onward, Filling
    <3>4. QED
      BY <1>0, <1>8, <3>3, OnwardKeeps, PlainStep DEF Collect, data
  <2>3. QED
    BY <1>8, <2>1, <2>2 DEF Collect
<1>9. CASE Rebuild(w)
  BY <1>0, <1>9, OverOnward, OnwardKeeps, PlainStep DEF Rebuild
<1>10. QED
  BY <1>1, <1>2, <1>2, <1>3, <1>4, <1>5, <1>6, <1>7, <1>8, <1>9

LEMMA PruneStep ==
  ASSUME SeedingInv, NEW w \in Workers, Prune(w)
  PROVE  SeedingInv'
<1> DEFINE j == work[w]
<1>0. /\ Typed /\ Live /\ Working /\ Asked /\ Showing /\ NeverHollow
      /\ j.at = "prune" /\ Fit(j) /\ j.seen \subseteq Emotes
      /\ j.list \in Sets /\ members[j.list] # None /\ members[j.list] \in SUBSET Emotes
  BY DEF SeedingInv, Working, Furnished, Filling, Fit, Prune, At, Typed
<1>1. /\ members' = [members EXCEPT ![j.list] = members[j.list] \ (j.one \ j.seen)]
      /\ UNCHANGED <<remote, rows, active, login, ask, hollow>>
  BY DEF Prune
<1>2. /\ members' \in [Sets -> (SUBSET Emotes) \cup {None}]
      /\ \A l \in Sets : members[l] # None => members'[l] # None
  BY <1>0, <1>1, SeedingAssumption DEF Typed
<1>3. Working'
  <2>1. Onward(w)
    <3>1. j.seen \ j.one \in SUBSET Emotes
      BY <1>0
    <3>2. QED
      BY <1>0, <3>1, ImportingOnward DEF Prune, Filling
  <2>2. QED
    BY <1>0, <1>2, <2>1, OnwardKeeps
<1>4. ~moved' => ~moved /\ (active # j.list \/ j.one \subseteq j.seen)
  BY <1>0 DEF Prune, Typed
<1>5. Live' /\ Typed' /\ Asked' /\ NeverHollow'
  BY <1>0, <1>1, <1>2 DEF Live, Typed, Asked, NeverHollow, Prune
<1>6. ~moved' => \A p : Shows(p) => Shows(p)'
  <2>1. SUFFICES ASSUME ~moved' PROVE Ready' = Ready
    BY DEF Shows, Of
  <2>2. CASE active # j.list
    BY <1>0, <1>1, <2>2 DEF Ready, ActiveMembers, Live, Typed
  <2>3. CASE j.one \subseteq j.seen
    <3>1. members' = members
      BY <1>0, <1>1, <2>3 DEF Typed
    <3>2. QED
      BY <1>1, <3>1 DEF Ready, ActiveMembers
  <2>4. QED
    BY <1>4, <2>1, <2>2, <2>3
<1>7. Showing'
  BY <1>0, <1>1, <1>4, <1>6 DEF Showing
<1>8. QED
  BY <1>3, <1>5, <1>7 DEF SeedingInv

\* The steps that write the row of one emote, or its membership.
LEMMA EmoteSteps ==
  ASSUME SeedingInv, NEW w \in Workers, Look(w) \/ Insert(w) \/ SkipStored(w) \/ Add(w)
  PROVE  SeedingInv'
<1> USE DEF At
<1> DEFINE j == work[w]
<1>0. /\ Working /\ Typed /\ Fit(j) /\ Furnished(j)
  BY DEF SeedingInv, Working
<1>1. CASE Look(w)
  <2>1. PICK e \in j.got :
          /\ work' = [work EXCEPT ![w] = [j EXCEPT !.e = e, !.at = IF rows[e] = "none" THEN "insert"
                                                                   ELSE "add"]]
          /\ rows' = IF rows[e] = "pending" /\ From[e] \notin Eager
                       THEN [rows EXCEPT ![e] = "ready"] ELSE rows
    BY <1>0, <1>1 DEF Look, Working, Fit, Carried
  <2> DEFINE s == [j EXCEPT !.e = e, !.at = IF rows[e] = "none" THEN "insert" ELSE "add"]
  <2>2. /\ DOMAIN s = DOMAIN j /\ s.at \in {"insert", "add"} /\ s.list = j.list
        /\ s.todo = j.todo /\ s.got = j.got /\ s.seen = j.seen /\ s.e = e
        /\ work' = [work EXCEPT ![w] = s]
    BY <1>0, <2>1 DEF Fit, Carried
  <2> HIDE DEF s
  <2>3. Fit(s) /\ e \in Emotes
    BY <1>0, <2>2 DEF Fit, Carried
  <2>4. Onward(w)
    BY <1>1, <2>2, <2>3 DEF Onward, Filling, Look
  <2>5. /\ rows' \in [Emotes -> {"none", "pending", "ready"}]
        /\ \A f \in Emotes : rows[f] = "ready" => rows'[f] = "ready"
    BY <1>0, <2>1, <2>3 DEF Typed
  <2>6. QED
    BY <1>0, <1>1, <2>4, <2>5, OnwardKeeps, WorkerStep DEF Look, Typed
<1>2. CASE Insert(w) \/ SkipStored(w)
  <2>1. j.e \in Emotes
    BY <1>0, <1>2 DEF Fit, Insert, SkipStored
  <2>2. /\ rows' \in [Emotes -> {"none", "pending", "ready"}]
        /\ \A f \in Emotes : rows[f] = "ready" => rows'[f] = "ready"
        /\ UNCHANGED <<remote, members, active, login, ask, moved, hollow>>
    BY <1>0, <1>2, <2>1 DEF Typed, Insert, SkipStored
  <2>3. Onward(w)
    <3>1. CASE Goto(w, "add")
      <4> DEFINE s == [j EXCEPT !.at = "add"]
      <4>1. /\ DOMAIN s = DOMAIN j /\ s.at = "add" /\ s.list = j.list /\ s.e = j.e
            /\ s.todo = j.todo /\ s.got = j.got /\ s.seen = j.seen
            /\ work' = [work EXCEPT ![w] = s]
        BY <1>0, <3>1 DEF Fit, Carried, Goto
      <4> HIDE DEF s
      <4>2. Fit(s)
        BY <1>0, <2>1, <4>1 DEF Fit, Carried
      <4>3. QED
        BY <1>2, <4>1, <4>2 DEF Onward, Filling, Insert, SkipStored
    <3>2. CASE Ended(w, j.e, "skipped")
      BY <1>0, <1>2, <3>2, EndedOnward DEF Insert, SkipStored, Filling
    <3>3. QED
      BY <1>2, <3>1, <3>2 DEF Insert, SkipStored
  <2>4. QED
    BY <1>0, <2>2, <2>3, OnwardKeeps, WorkerStep DEF Typed
<1>3. CASE Add(w)
  <2>1. /\ j.e \in Emotes /\ j.list \in Sets /\ members[j.list] # None
        /\ members[j.list] \in SUBSET Emotes
        /\ members' = [members EXCEPT ![j.list] = members[j.list] \cup {j.e}]
    BY <1>0, <1>3 DEF Fit, Furnished, Filling, Add, Typed
  <2>2. members[j.list] \cup {j.e} \in SUBSET Emotes /\ members[j.list] \cup {j.e} # None
    BY <2>1, SeedingAssumption
  <2>3. /\ members' \in [Sets -> (SUBSET Emotes) \cup {None}]
        /\ \A l \in Sets : members[l] # None =>
                             members'[l] # None /\ members[l] \subseteq members'[l]
    BY <1>0, <2>1, <2>2 DEF Typed
  <2>4. Onward(w)
    BY <1>0, <1>3, EndedOnward DEF Add, Filling
  <2>5. QED
    BY <1>0, <1>3, <2>3, <2>4, OnwardKeeps, WorkerStep DEF Add, Typed
<1>4. QED
  BY <1>1, <1>2, <1>3

-----------------------------------------------------------------------------
(* Who seeds besides the request, and the world.                            *)

LEMMA BeginKeeps ==
  ASSUME Working, NEW w, NEW l \in Sets, NEW todo \in SUBSET Providers, Begin(w, l, todo),
         members' = members
  PROVE  Working'
<1> DEFINE j == [NoWork EXCEPT !.at = "prepare", !.list = l, !.todo = todo]
<1>1. Fit(j) /\ j.at = "prepare" /\ j.list = l
  BY DEF NoWork, Fit, Carried
<1>2. work' = [work EXCEPT ![w] = j]
  BY DEF Begin
<1> HIDE DEF j
<1>3. QED
  BY <1>1, <1>2, WorkNow DEF Filling

LEMMA OtherSteps ==
  ASSUME SeedingInv, Preload \/ EventSync \/ Repair \/ Unmark \/ Change \/ Rendered
  PROVE  SeedingInv'
<1> USE DEF At
<1>0. Working /\ Typed
  BY DEF SeedingInv
<1>1. CASE Preload
  <2>1. Preloaded \in Sets /\ Preloaded \in SUBSET Providers
    BY SeedingAssumption DEF Sets
  <2>2. QED
    BY <1>0, <1>1, <2>1, BeginKeeps, PlainStep DEF Preload, data
<1>2. CASE EventSync
  <2> DEFINE j == [NoWork EXCEPT !.at = "sync", !.list = active, !.p = "7tv",
                                 !.seen = remote["7tv"]]
  <2>1. remote["7tv"] \subseteq Emotes
    BY <1>0, <1>2, SeedingAssumption DEF EventSync, Typed
  <2>2. Fit(j) /\ j.at = "sync" /\ j.list = active
    BY <2>1 DEF NoWork, Fit, Carried
  <2>3. work' = [work EXCEPT !["event"] = j] /\ members' = members
    BY <1>2 DEF EventSync, data
  <2> HIDE DEF j
  <2>4. Working'
    BY <1>0, <1>2, <2>2, <2>3, WorkNow DEF EventSync, SeedingInv, Live
  <2>5. QED
    BY <1>2, <2>4, PlainStep DEF EventSync, data
<1>3. CASE Repair
  <2>1. Working'
    <3>1. CASE "seed" \in Workers
      BY <1>0, <1>3, <3>1, GotoOnward, OnwardKeeps DEF Repair, Filling
    <3>2. CASE "seed" \notin Workers
      BY <1>0, <1>3, <3>2 DEF Repair, Goto, Working, Fit, Carried, Furnished
    <3>3. QED
      BY <3>1, <3>2
  <2>2. QED
    BY <1>0, <1>3, <2>1, WorkerStep DEF Repair, Typed
<1>4. CASE Unmark
  <2>1. Fit(NoWork) /\ NoWork.at = "idle"
    BY DEF NoWork, Fit, Carried
  <2>2. Working'
    BY <1>0, <1>4, <2>1, WorkNow DEF Unmark, Filling, data
  <2>3. QED
    BY <1>4, <2>2, PlainStep DEF Unmark, data
<1>5. CASE Change
  <2>1. remote' \in [Providers -> (SUBSET Emotes) \cup {None}]
    BY <1>0, <1>5 DEF Change, Typed, Of
  <2>2. UNCHANGED <<rows, members, active, login, work, ask, moved, hollow>>
    BY <1>5 DEF Change, data
  <2>3. QED
    BY <2>1, <2>2 DEF SeedingInv, Typed, Live, Working, Fit, Carried, Furnished, Asked, Showing,
                      Shows, Ready, ActiveMembers, NeverHollow
<1>6. CASE Rendered
  <2>1. /\ rows' \in [Emotes -> {"none", "pending", "ready"}]
        /\ \A e \in Emotes : rows[e] = "ready" => rows'[e] = "ready"
    BY <1>0, <1>6 DEF Rendered, Typed
  <2>2. Working'
    BY <1>0, <1>6 DEF Rendered, Working, Fit, Carried, Furnished
  <2>3. QED
    BY <1>0, <1>6, <2>1, <2>2, WorkerStep DEF Rendered, Typed
<1>7. QED
  BY <1>1, <1>2, <1>3, <1>4, <1>5, <1>6

-----------------------------------------------------------------------------
(* The request.                                                             *)

\* A step that changes the request, and at most the mark and the worker it starts.
LEMMA AskStep ==
  ASSUME SeedingInv, UNCHANGED <<remote, rows, members, active>>, moved' \in BOOLEAN,
         Working', Asked', Showing', NeverHollow'
  PROVE  SeedingInv'
BY DEF SeedingInv, Typed, Live

LEMMA WorkSame ==
  ASSUME SeedingInv, UNCHANGED <<work, members>>
  PROVE  Working'
BY DEF SeedingInv, Working, Fit, Carried, Furnished

LEMMA Replied ==
  ASSUME NEW x, Reply(x)
  PROVE  Asked' /\ Showing'
<1>1. /\ {"at", "list", "known", "pend", "full", "ready", "partial", "bare", "included", "todo",
           "got", "state"} \subseteq DOMAIN ask'
      /\ ask'.at = "answer"
  BY DEF Reply, NoAsk
<1>2. QED
  BY <1>1 DEF Asked, Showing

LEMMA RequestSteps ==
  ASSUME SeedingInv,
         Ask \/ ReadProviders \/ ReadLoads \/ ReadActive \/ Decide \/ AskCollect \/ Answer
  PROVE  SeedingInv'
<1> USE DEF Asking
<1>0. /\ Asked /\ Showing /\ NeverHollow /\ moved \in BOOLEAN /\ Working'
      /\ UNCHANGED <<remote, rows, members, active, login, work, hollow>>
  <2>1. UNCHANGED <<remote, rows, members, active, login, work, hollow>>
    BY DEF Ask, ReadProviders, ReadLoads, ReadActive, Decide, AskCollect, Answer, data
  <2>2. QED
    BY <2>1, WorkSame DEF SeedingInv, Typed
<1>1. NeverHollow' /\ \A p : Shows(p)' <=> Shows(p)
  BY <1>0 DEF NeverHollow, Shows, Ready, ActiveMembers, Of
<1>2. CASE Ask
  <2>1. PICK l \in Lists :
          ask' = [NoAsk EXCEPT !.at = "providers", !.list = l,
                               !.known = active # None /\ login = "own",
                               !.pend = \E e \in ActiveMembers : rows[e] = "pending"]
    BY <1>2 DEF Ask
  <2>2. Asked' /\ ask'.at = "providers"
    BY <2>1 DEF NoAsk, Asked
  <2>3. Showing'
    BY <2>2 DEF Showing
  <2>4. QED
    BY <1>0, <1>1, <1>2, <2>2, <2>3, AskStep DEF Ask
<1>3. CASE ReadProviders
  <2>1. /\ DOMAIN ask' = DOMAIN ask /\ ask'.at = "loads"
        /\ ask'.list = ask.list /\ ask'.todo = ask.todo
        /\ ask'.full = {p \in Providers : /\ \E e \in Ready : From[e] = p
                                          /\ \A e \in ActiveMembers \cap Of(p) : rows[e] = "ready"}
    BY <1>0, <1>3 DEF ReadProviders, Asked
  <2>2. Asked'
    BY <1>0, <1>3, <2>1 DEF Asked, ReadProviders
  <2>3. \A p \in ask'.full : Shows(p)
    <3>1. \A e \in Ready : e \in Emotes
      BY DEF SeedingInv, Typed, Live, Ready, ActiveMembers
    <3>2. QED
      BY <2>1, <3>1 DEF Shows, Of
  <2>4. Showing'
    BY <1>1, <2>1, <2>3 DEF Showing
  <2>5. QED
    BY <1>0, <1>1, <1>3, <2>2, <2>4, AskStep DEF ReadProviders
<1>4. CASE ReadLoads
  <2>1. /\ DOMAIN ask' = DOMAIN ask /\ ask'.at = "active" /\ ask'.list = ask.list
        /\ ask'.todo = {p \in ask.list : Load(p).how # "empty" /\ p \notin ask.full}
        /\ ask'.bare = {p \in ask.list : Load(p).how = "empty"}
    BY <1>0, <1>4 DEF ReadLoads, Asked
  <2>2. Asked'
    BY <1>0, <1>4, <2>1, SeedingAssumption DEF Asked, ReadLoads
  <2>3. ~moved => \A p \in ask'.list : p \in ask'.todo \cup ask'.bare \/ Shows(p)
    BY <1>0, <1>4, <2>1 DEF Showing, ReadLoads
  <2>4. Showing'
    BY <1>1, <1>4, <2>1, <2>3 DEF Showing, ReadLoads
  <2>5. QED
    BY <1>0, <1>1, <1>4, <2>2, <2>4, AskStep DEF ReadLoads
<1>5. CASE ReadActive
  <2>1. /\ DOMAIN ask' = DOMAIN ask /\ ask'.at = "decide" /\ ask'.list = ask.list
        /\ ask'.todo \in {ask.todo, ask.list} /\ ask'.bare = ask.bare
    BY <1>0, <1>5 DEF ReadActive, Asked
  <2>2. Asked'
    BY <1>0, <1>5, <2>1, SeedingAssumption DEF Asked, ReadActive
  <2>3. ~moved => \A p \in ask'.list : p \in ask'.todo \cup ask'.bare \/ Shows(p)
    BY <1>0, <1>5, <2>1 DEF Showing, ReadActive
  <2>4. Showing'
    BY <1>1, <1>5, <2>1, <2>3 DEF Showing, ReadActive
  <2>5. QED
    BY <1>0, <1>1, <1>5, <2>2, <2>4, AskStep DEF ReadActive
<1>6. CASE Decide
  <2>1. CASE Reply("processing")
    BY <1>0, <1>1, <1>6, <2>1, Replied, AskStep DEF Decide
  <2>2. CASE ~Reply("processing")
    <3>1. /\ DOMAIN ask' = DOMAIN ask /\ ask'.at = "start" /\ ask'.list = ask.list
          /\ ask.todo \subseteq ask'.todo /\ ask'.todo \subseteq ask.todo \cup {"7tv"}
          /\ ask'.bare = ask.bare
      BY <1>0, <1>6, <2>2 DEF Decide, Asked
    <3>2. Asked'
      BY <1>0, <1>6, <3>1, SeedingAssumption DEF Asked, Decide
    <3>3. ~moved => \A p \in ask'.list : p \in ask'.todo \cup ask'.bare \/ Shows(p)
      BY <1>0, <1>6, <3>1 DEF Showing, Decide
    <3>4. Showing'
      BY <1>1, <1>6, <3>1, <3>3 DEF Showing, Decide
    <3>5. QED
      BY <1>0, <1>1, <1>6, <3>2, <3>4, AskStep DEF Decide
  <2>3. QED
    BY <2>1, <2>2
<1>7. CASE AskCollect
  <2>1. CASE Reply("error")
    BY <1>0, <1>1, <1>7, <2>1, Replied, AskStep DEF AskCollect
  <2>2. CASE ~Reply("error")
    <3>1. /\ DOMAIN ask' = DOMAIN ask /\ ask'.at = "rebuild" /\ ask'.list = ask.list
          /\ ask'.todo = ask.todo /\ ask'.bare = ask.bare /\ ask'.got = Visible
      BY <1>0, <1>7, <2>2 DEF AskCollect, Asked
    <3>2. Asked'
      BY <1>0, <1>7, <3>1 DEF Asked, AskCollect
    <3>3. ~moved => \A p \in ask'.list \ ask'.bare : ask'.got \cap Of(p) # {}
      BY <1>0, <1>7, <3>1 DEF Showing, AskCollect, Shows, Visible
    <3>4. Showing'
      BY <1>7, <3>1, <3>3 DEF Showing, AskCollect, Of
    <3>5. QED
      BY <1>0, <1>1, <1>7, <3>2, <3>4, AskStep DEF AskCollect
  <2>3. QED
    BY <2>1, <2>2
<1>8. CASE Answer
  <2>1. Asked' /\ Showing'
    BY <1>8 DEF Answer, Asked, Showing, NoAsk
  <2>2. QED
    BY <1>0, <1>1, <1>8, <2>1, AskStep DEF Answer
<1>9. QED
  BY <1>2, <1>3, <1>4, <1>5, <1>6, <1>7, <1>8

LEMMA StartStep == ASSUME SeedingInv, StartSeed PROVE SeedingInv'
<1>1. Asked' /\ Showing' /\ NeverHollow'
  BY Replied DEF StartSeed, SeedingInv, NeverHollow
<1>2. Working'
  <2>1. CASE UNCHANGED work
    BY <2>1, WorkSame DEF StartSeed, data
  <2>2. CASE Begin("seed", ask.list, ask.todo)
    <3>1. ask.list \in Sets /\ ask.todo \in SUBSET Providers
      BY DEF StartSeed, SeedingInv, Asked, Asking, Sets
    <3>2. QED
      BY <2>2, <3>1, BeginKeeps DEF StartSeed, data, SeedingInv
  <2>3. QED
    BY <2>1, <2>2 DEF StartSeed
<1>3. QED
  BY <1>1, <1>2, AskStep DEF StartSeed, data, SeedingInv, Typed

\* The answer: what was read is what the dictionary is built from.
LEMMA AnswerStep == ASSUME SeedingInv, AskRebuild PROVE SeedingInv'
<1>1. Asked' /\ Showing'
  BY Replied DEF AskRebuild
<1>2. NeverHollow'
  <2>1. moved \/ \A p \in ask.list \ ask.bare : ask.got \cap Of(p) # {}
    BY DEF SeedingInv, Showing, AskRebuild, Asking
  <2>2. QED
    BY <2>1 DEF AskRebuild, SeedingInv, NeverHollow
<1>3. QED
  BY <1>1, <1>2, AskStep, WorkSame DEF AskRebuild, SeedingInv, Typed

LEMMA SeedingStep == SeedingInv /\ [Next]_vars => SeedingInv'
<1> SUFFICES ASSUME SeedingInv, [Next]_vars PROVE SeedingInv'
  OBVIOUS
<1>1. ASSUME NEW w \in Workers, Seed(w) PROVE SeedingInv'
  BY <1>1, PrepareStep, ActivateStep, FetchStep, MovingSteps, PruneStep,
     EmoteSteps
     DEF Seed, Provider, Import
<1>2. CASE Request
  BY <1>2, RequestSteps, StartStep, AnswerStep DEF Request
<1>3. CASE UNCHANGED vars
  BY <1>3 DEF vars, data, SeedingInv, Typed, Live, Working, Fit, Carried, Furnished, Asked, Showing,
              Shows, Ready, ActiveMembers, NeverHollow
<1>4. QED
  BY <1>1, <1>2, <1>3, OtherSteps DEF Next

(***************************************************************************)
(* Whatever seeds, syncs and preloads run beside it, however many calls    *)
(* fail, and whichever providers a request names, it is told "ready" only  *)
(* when the dictionary it leaves has an emote of each of them, but for     *)
(* those recorded to have none and for a set, or a login, that another     *)
(* moved meanwhile                                                         *)
(* (ensureEmotes, providersNeedingSeed and the import of the seeder).      *)
(***************************************************************************)
THEOREM ReadyIsFull == Spec => []NeverHollow
<1>1. SeedingInv => NeverHollow
  BY DEF SeedingInv
<1>2. QED
  BY SeedingInit, SeedingStep, <1>1, PTL DEF Spec

=============================================================================
