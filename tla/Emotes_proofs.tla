---------------------------- MODULE Emotes_proofs ----------------------------
(***************************************************************************)
(* Proofs about the emotes: first EmoteDict, for any emotes, handlers and  *)
(* bounds; then the subscriber of 7TV's events, the object stores and the  *)
(* render hints, for any of their constants.                               *)
(*                                                                         *)
(* Of the dictionaries: what is true of the one in Redis, what the         *)
(* enricher knows of it, and that neither its entries nor its expiry are   *)
(* lost.  Truthful and StaleIsKnown are not inductive: Held says of the    *)
(* one that an entry which is missing waits for the handler that adds it,  *)
(* not for one that removes its emote under another name; Awaited says     *)
(* of the other the same of an enricher before its subscription and within *)
(* a reload, and NothingYet what NeverBlanked needs of the dictionaries    *)
(* read.                                                                   *)
(***************************************************************************)
EXTENDS EmoteDict, EmoteParts, Sequences, TLAPS

Publishing == \E w \in Writers : wpc[w] = "publish"

\* What the enricher has read and not subscribed to, or not put to use, differs from
\* Redis only by a delta that has come or will.
Awaited ==
  faults = 0 /\ ~gap /\ hash # {} =>
    /\ epc = "loaded" => trie = hash \/ Publishing
    /\ epc = "subscribe" => served = hash \/ Publishing
    /\ epc = "swap" => trie = hash \/ inbox > 0 \/ Publishing

NothingYet ==
  /\ epc \in {"none", "load", "loaded"} => served = {}
  /\ epc = "swap" => trie # {}

Known == StaleIsKnown /\ Awaited

Rebuilding ==
  \/ queued > 0 \/ dirty
  \/ \E w \in Writers : wpc[w] \in {"sync", "read", "exec"}

\* Truthful, with who is on the way for an entry that is missing: somebody who adds it.
Held ==
  faults = 0 /\ ~outdated /\ hash # {} =>
    /\ \A x \in ChannelEmotes \ hash :
         \/ x[1] \in owed \/ Rebuilding
         \/ \E h \in Handlers : wpc[h] = "add" /\ todo[h] = x
    /\ \A x \in hash \ items : x \in left \/ Coming(x[1])

IInv == TypeOK /\ Held /\ Known /\ NothingYet

\* What NeverBlanked and StaysBounded say of a step.
StillServes  == served # {} => served' # {}
StillBounded == hash' # {} /\ (hash = {} \/ bounded) => bounded'

-----------------------------------------------------------------------------

LEMMA InvInit == Init => IInv
<1> SUFFICES ASSUME Init PROVE IInv
  OBVIOUS
<1>1. TypeOK
  <2>1. bounded \in BOOLEAN /\ (bounded => hash # {})
    BY DEF Init
  <2>2. /\ hash \in SUBSET Entries /\ items \in SUBSET Entries /\ ready \in SUBSET Emotes
        /\ left \in SUBSET Entries
    BY DEF Init, ChannelEmotes, ItemSets
  <2>3. \A w \in Writers : wpc[w] = "idle"
    BY DEF Init
  <2>4. /\ wpc \in [Writers -> {"idle", "add", "remove", "sync", "read", "exec", "publish"}]
        /\ todo \in [Handlers -> (Emotes \X {"own", "alias", "id"}) \cup {Loop}]
        /\ got \in [Writers -> SUBSET Entries]
    BY DEF Init
  <2>5. /\ edits \in 0 .. MaxEdits /\ expiries \in 0 .. MaxExpiries
        /\ faults \in 0 .. MaxFaults /\ queued \in Nat /\ inbox \in Nat
    BY EmoteDictAssumption DEF Init
  <2>6. QED
    BY <2>1, <2>2, <2>3, <2>4, <2>5 DEF Init, TypeOK, Writers
<1>2. Held
  BY DEF Init, Held, ChannelEmotes
<1>3. Known /\ NothingYet
  BY DEF Init, Known, StaleIsKnown, Awaited, NothingYet, Subscribed
<1>4. QED
  BY <1>1, <1>2, <1>3 DEF IInv

LEMMA TypeStep == TypeOK /\ [Next]_vars => TypeOK'
<1> SUFFICES ASSUME TypeOK, [Next]_vars PROVE TypeOK'
  OBVIOUS
<1> DEFINE Wpcs == {"idle", "add", "remove", "sync", "read", "exec", "publish"}
           Todos == (Emotes \X {"own", "alias", "id"}) \cup {Loop}
<1>0. /\ \A S \in ItemSets : S \in SUBSET Entries
      /\ \A x \in Entries : x \in Todos
      /\ \A e \in Emotes : <<e, "own">> \in Todos /\ <<e, "id">> \in Todos
      /\ \A S \in SUBSET items : S \in SUBSET Entries
  BY EmoteDictAssumption DEF ItemSets, Entries, TypeOK
<1> HIDE DEF Todos
<1> USE EmoteDictAssumption DEF TypeOK, Writers, ChannelEmotes, dbVars, redisVars,
         writerVars, queueVars, enricherVars
<1>1. ASSUME NEW w \in Writers, Read(w) PROVE TypeOK'
  BY <1>1 DEF Read, Goto
<1>2. ASSUME NEW w \in Writers, Rebuild(w) PROVE TypeOK'
  BY <1>2 DEF Rebuild, Goto
<1>3. ASSUME NEW w \in Writers, RebuildRejected(w) PROVE TypeOK'
  <2>1. bounded' \in BOOLEAN /\ (bounded' => hash # {})
    BY <1>3 DEF RebuildRejected
  <2>2. QED
    BY <1>3, <2>1 DEF RebuildRejected, Fault, Goto
<1>4. ASSUME NEW w \in Writers, Publish(w) PROVE TypeOK'
  BY <1>4 DEF Publish, Goto
<1>5. ASSUME NEW w \in Writers, Fails(w) PROVE TypeOK'
  BY <1>5 DEF Fails, Fault, Goto
<1>6. ASSUME NEW h \in Handlers, NEW x \in Entries, AddItem(h, x) PROVE TypeOK'
  <2>1. todo' \in [Handlers -> Todos]
    BY <1>0, <1>6 DEF AddItem, Todos
  <2>2. items' \in SUBSET Entries
    BY <1>0, <1>6 DEF AddItem, Without
  <2>4. \A g \in Handlers : wpc'[g] = "add" => todo'[g] \in Entries
    BY <1>6, <2>1 DEF AddItem, Edit, Goto
  <2>5. edits' \in 0 .. MaxEdits /\ wpc' \in [Writers -> Wpcs] /\ wpc'[Loop] = wpc[Loop]
    BY <1>6 DEF AddItem, Edit, Goto
  <2>6. faults' \in 0 .. MaxFaults
    BY <1>6 DEF AddItem, Fault
  <2>7. UNCHANGED <<ready, hash, bounded, left, got, owed, queued, dirty, epc, trie, served,
                   inbox, timer, expiries, outdated, gap>>
    BY <1>6 DEF AddItem, Edit
  <2>8. QED
    BY <2>1, <2>2, <2>4, <2>5, <2>6, <2>7 DEF Todos
<1>7. ASSUME NEW h \in Handlers, NEW e \in Emotes, RemoveItem(h, e) PROVE TypeOK'
  <2>1. todo' \in [Handlers -> Todos]
    BY <1>0, <1>7 DEF RemoveItem, Todos
  <2>2. items' \in SUBSET Entries
    BY <1>0, <1>7 DEF RemoveItem, Without
  <2>4. \A g \in Handlers : wpc'[g] = "add" => todo'[g] \in Entries
    BY <1>7, <2>1 DEF RemoveItem, Edit, Goto
  <2>5. edits' \in 0 .. MaxEdits /\ wpc' \in [Writers -> Wpcs] /\ wpc'[Loop] = wpc[Loop]
    BY <1>7 DEF RemoveItem, Edit, Goto
  <2>6. faults' \in 0 .. MaxFaults
    BY <1>7 DEF RemoveItem, Fault
  <2>7. UNCHANGED <<ready, hash, bounded, left, got, owed, queued, dirty, epc, trie, served,
                   inbox, timer, expiries, outdated, gap>>
    BY <1>7 DEF RemoveItem, Edit
  <2>8. QED
    BY <2>1, <2>2, <2>4, <2>5, <2>6, <2>7 DEF Todos
<1>8. ASSUME NEW h \in Handlers, NEW S \in ItemSets, SetItems(h, S) PROVE TypeOK'
  <2>1. todo' \in [Handlers -> Todos]
    BY <1>8 DEF SetItems, Todos
  <2>2. items' \in SUBSET Entries
    BY <1>0, <1>8 DEF SetItems
  <2>4. \A g \in Handlers : wpc'[g] = "add" => todo'[g] \in Entries
    BY <1>8, <2>1 DEF SetItems, Edit, Goto
  <2>5. edits' \in 0 .. MaxEdits /\ wpc' \in [Writers -> Wpcs] /\ wpc'[Loop] = wpc[Loop]
    BY <1>8 DEF SetItems, Edit, Goto
  <2>6. faults' \in 0 .. MaxFaults
    BY <1>8 DEF SetItems, Fault
  <2>7. UNCHANGED <<ready, hash, bounded, left, got, owed, queued, dirty, epc, trie, served,
                   inbox, timer, expiries, outdated, gap>>
    BY <1>8 DEF SetItems, Edit
  <2>8. QED
    BY <2>1, <2>2, <2>4, <2>5, <2>6, <2>7 DEF Todos
<1>9. ASSUME NEW h \in Handlers, SetDone(h) PROVE TypeOK'
  BY <1>9 DEF SetDone, Goto
<1>10. ASSUME NEW h \in Handlers, Patch(h) PROVE TypeOK'
  <2>1. hash' \in SUBSET Entries
    BY <1>10 DEF Patch
  <2>2. left' \in SUBSET Entries
    BY <1>10, <2>1 DEF Patch, Strays
  <2>3. bounded' \in BOOLEAN /\ (bounded' => hash' # {}) /\ outdated' \in BOOLEAN
    BY <1>10 DEF Patch
  <2>4. /\ wpc' \in [Writers -> Wpcs] /\ wpc'[Loop] = wpc[Loop]
        /\ \A g \in Handlers : wpc'[g] = "add" => wpc[g] = "add"
    BY <1>10 DEF Patch, Goto
  <2>5. UNCHANGED <<items, ready, todo, got, owed, queued, dirty, epc, trie, served, inbox,
                   timer, edits, expiries, faults, gap>>
    BY <1>10 DEF Patch
  <2>6. QED
    BY <2>1, <2>2, <2>3, <2>4, <2>5
<1>11. ASSUME NEW h \in Handlers, PatchMissing(h) PROVE TypeOK'
  BY <1>11 DEF PatchMissing, Goto
<1>12. ASSUME NEW e \in Emotes, Activate(e) PROVE TypeOK'
  BY <1>12 DEF Activate, Status
<1>13. ASSUME NEW e \in Emotes, GiveUp(e) PROVE TypeOK'
  BY <1>13 DEF GiveUp, Status
<1>14. ASSUME NEW e \in Emotes, MetadataReady(e) PROVE TypeOK'
  BY <1>14 DEF MetadataReady, Status
<1>15. ASSUME NEW e \in Emotes, QueueAffected(e) PROVE TypeOK'
  BY <1>15 DEF QueueAffected
<1>16. ASSUME NEW e \in Emotes, QueueDrops(e) PROVE TypeOK'
  BY <1>16 DEF QueueDrops, Fault
<1>17. CASE TakeDirty
  BY <1>17 DEF TakeDirty
<1>18. CASE RebuildDirty
  BY <1>18 DEF RebuildDirty, Goto
<1>19. CASE Expire
  <2>1. hash' = {} /\ bounded' = FALSE
    BY <1>19 DEF Expire
  <2>2. expiries' \in 0 .. MaxExpiries
    BY <1>19 DEF Expire
  <2>3. QED
    BY <1>19, <2>1, <2>2 DEF Expire
<1>20. CASE Backfill
  BY <1>20 DEF Backfill
<1>21. CASE Restart
  <2>1. wpc' \in [Writers -> {"idle"}]
    BY <1>21 DEF Restart
  <2>2. \A w \in Writers : wpc'[w] = "idle"
    BY <2>1
  <2>3. faults' \in 0 .. MaxFaults /\ queued' = 0 /\ owed' = {} /\ dirty' = FALSE
    BY <1>21 DEF Restart, Fault
  <2>4. UNCHANGED <<items, ready, hash, bounded, left, todo, got, epc, trie, served, inbox, timer,
                   edits, expiries, outdated, gap>>
    BY <1>21 DEF Restart
  <2>5. wpc' \in [Writers -> {"idle", "add", "remove", "sync", "read", "exec", "publish"}]
    BY <2>1
  <2>6. QED
    BY <2>2, <2>3, <2>4, <2>5
<1>22. CASE Ensure
  BY <1>22 DEF Ensure, Enrich
<1>23. CASE Load
  BY <1>23 DEF Load, Enrich
<1>24. CASE LoadFails
  BY <1>24 DEF LoadFails, Enrich, Fault
<1>25. CASE FirstSwap
  BY <1>25 DEF FirstSwap, Enrich
<1>26. CASE Subscribe
  BY <1>26 DEF Subscribe, Enrich
<1>27. CASE Receive
  BY <1>27 DEF Receive, Enrich
<1>28. CASE TimerFires
  BY <1>28 DEF TimerFires, Enrich
<1>29. CASE Reload
  BY <1>29 DEF Reload, Enrich
<1>30. CASE ReloadMissing
  BY <1>30 DEF ReloadMissing, Enrich
<1>31. CASE ReloadFails
  BY <1>31 DEF ReloadFails, Enrich, Fault
<1>32. CASE Swap
  BY <1>32 DEF Swap, Enrich
<1>33. CASE UNCHANGED vars
  BY <1>33 DEF vars
<1>34. ASSUME NEW S \in ItemSets, ItemsElsewhere(S) PROVE TypeOK'
  <2>1. items' \in SUBSET Entries
    BY <1>0, <1>34 DEF ItemsElsewhere
  <2>2. edits' \in 0 .. MaxEdits /\ outdated' \in BOOLEAN
    BY <1>34 DEF ItemsElsewhere
  <2>3. UNCHANGED <<ready, hash, bounded, left, wpc, todo, got, owed, queued, dirty, epc, trie,
                   served, inbox, timer, expiries, faults, gap>>
    BY <1>34 DEF ItemsElsewhere
  <2>4. QED
    BY <2>1, <2>2, <2>3
<1>35. QED
  BY <1>1, <1>2, <1>3, <1>4, <1>5, <1>6, <1>7, <1>8, <1>9, <1>10, <1>11, <1>12, <1>13,
       <1>14, <1>15, <1>16, <1>17, <1>18, <1>19, <1>20, <1>21, <1>22, <1>23, <1>24,
       <1>25, <1>26, <1>27, <1>28, <1>29, <1>30, <1>31, <1>32, <1>33, <1>34
     DEF Next, Writer, Handler, Enricher

-----------------------------------------------------------------------------
(* The dictionary and PostgreSQL.                                          *)

LEMMA HeldStep == TypeOK /\ Held /\ [Next]_vars => Held'
<1> SUFFICES ASSUME TypeOK, Held, [Next]_vars PROVE Held'
  OBVIOUS
<1> DEFINE Wpcs == {"idle", "add", "remove", "sync", "read", "exec", "publish"}
<1>0. /\ wpc \in [Writers -> Wpcs] /\ faults \in Nat /\ queued \in Nat
      /\ \A h \in Handlers : h \in Writers /\ h \in DOMAIN todo
  BY EmoteDictAssumption DEF TypeOK, Writers
<1> HIDE DEF Wpcs
<1> USE <1>0 DEF Held, Coming, Rebuilding, ChannelEmotes,
         dbVars, redisVars, writerVars, queueVars, enricherVars
<1>1. ASSUME NEW w \in Writers, Read(w) PROVE Held'
  BY <1>1 DEF Read, Goto
<1>2. ASSUME NEW w \in Writers, Rebuild(w) PROVE Held'
  BY <1>2 DEF Rebuild, Goto
<1>3. ASSUME NEW w \in Writers, RebuildRejected(w) PROVE Held'
  BY <1>3 DEF RebuildRejected, Fault, Goto
<1>4. ASSUME NEW w \in Writers, Publish(w) PROVE Held'
  BY <1>4 DEF Publish, Goto
<1>5. ASSUME NEW w \in Writers, Fails(w) PROVE Held'
  BY <1>5 DEF Fails, Fault, Goto
<1>6. ASSUME NEW h \in Handlers, NEW x \in Entries, AddItem(h, x) PROVE Held'
  <2>1. /\ wpc[h] = "idle" /\ wpc'[h] = "add" /\ todo' = [todo EXCEPT ![h] = x]
        /\ \A w \in Writers : w # h => wpc'[w] = wpc[w]
        /\ items' = Without(x[1]) \cup {x}
        /\ UNCHANGED <<ready, hash, left, outdated, faults, owed, queued, dirty>>
    BY <1>6 DEF AddItem, Edit, Goto
  <2>2. todo'[h] = x /\ \A g \in Handlers : g # h => todo'[g] = todo[g]
    BY <2>1, <1>0
  <2>3. QED
    BY <2>1, <2>2 DEF Without
<1>7. ASSUME NEW h \in Handlers, NEW e \in Emotes, RemoveItem(h, e) PROVE Held'
  <2>1. /\ wpc[h] = "idle" /\ wpc'[h] = "remove"
        /\ \E n \in {"own", "id"} : todo' = [todo EXCEPT ![h] = <<e, n>>]
        /\ \A w \in Writers : w # h => wpc'[w] = wpc[w]
        /\ items' = Without(e)
        /\ faults' = 0 => faults = 0
        /\ UNCHANGED <<ready, hash, left, outdated, owed, queued, dirty>>
    BY <1>7 DEF RemoveItem, Edit, Goto, Fault
  <2>2. todo'[h][1] = e /\ \A g \in Handlers : g # h => todo'[g] = todo[g]
    BY <2>1, <1>0
  <2>3. QED
    BY <2>1, <2>2 DEF Without
<1>8. ASSUME NEW h \in Handlers, NEW S \in ItemSets, SetItems(h, S) PROVE Held'
  BY <1>8 DEF SetItems, Edit, Goto
<1>9. ASSUME NEW h \in Handlers, SetDone(h) PROVE Held'
  BY <1>9 DEF SetDone, Goto
<1>10. ASSUME NEW h \in Handlers, Patch(h) PROVE Held'
  <2> SUFFICES ASSUME faults' = 0, ~outdated' PROVE Held'
    OBVIOUS
  <2>1. /\ wpc[h] \in {"add", "remove"} /\ wpc'[h] = "publish"
        /\ \A w \in Writers : w # h => wpc'[w] = wpc[w]
        /\ left' = left \cup Strays(todo[h], hash') /\ hash # {}
        /\ hash' = IF wpc[h] = "add" THEN hash \cup {todo[h]} ELSE hash \ {todo[h]}
        /\ wpc[h] = "add" <=> todo[h] \in items
        /\ ~outdated /\ faults = 0
        /\ UNCHANGED <<items, ready, owed, queued, dirty, todo>>
    BY <1>10 DEF Patch, Goto
  <2>2. Rebuilding => Rebuilding'
    BY <2>1
  <2>3. ASSUME NEW x \in ChannelEmotes, x \notin hash'
        PROVE  \/ x[1] \in owed \/ Rebuilding'
               \/ \E g \in Handlers : wpc'[g] = "add" /\ todo[g] = x
    <3>1. x \notin hash /\ (wpc[h] = "add" => x # todo[h])
      BY <2>1, <2>3
    <3>2. \/ x[1] \in owed \/ Rebuilding
          \/ \E g \in Handlers : wpc[g] = "add" /\ todo[g] = x
      BY <2>1, <2>3, <3>1
    <3>3. QED
      BY <2>1, <2>2, <3>1, <3>2
  <2>4. ASSUME NEW x \in hash', x \notin items, x \notin left' PROVE Coming(x[1])'
    <3>1. x # todo[h] /\ x \in hash /\ x \notin left
      BY <2>1, <2>4
    <3>2. x[1] # todo[h][1]
      BY <2>1, <2>4, <3>1 DEF Strays
    <3>3. Coming(x[1])
      BY <2>1, <2>4, <3>1
    <3>4. QED
      BY <2>1, <3>2, <3>3
  <2>5. \A x \in ChannelEmotes' \ hash' :
          \/ x[1] \in owed' \/ Rebuilding'
          \/ \E g \in Handlers : wpc'[g] = "add" /\ todo'[g] = x
    BY <2>1, <2>3
  <2>6. \A x \in hash' \ items' : x \in left' \/ Coming(x[1])'
    BY <2>1, <2>4
  <2>7. QED
    BY <2>5, <2>6
<1>11. ASSUME NEW h \in Handlers, PatchMissing(h) PROVE Held'
  BY <1>11 DEF PatchMissing, Goto
<1>12. ASSUME NEW e \in Emotes, Activate(e) PROVE Held'
  BY <1>12 DEF Activate, Status
<1>13. ASSUME NEW e \in Emotes, GiveUp(e) PROVE Held'
  BY <1>13 DEF GiveUp, Status
<1>14. ASSUME NEW e \in Emotes, MetadataReady(e) PROVE Held'
  <2>1. /\ ready' = ready \cup {e} /\ outdated' = (outdated \/ Without(e) # items)
        /\ UNCHANGED <<items, hash, left, faults, wpc, todo, owed, queued, dirty>>
    BY <1>14 DEF MetadataReady, Status
  <2>2. ~outdated' => \A x \in items : x[1] # e
    BY <2>1 DEF Without
  <2>3. QED
    BY <2>1, <2>2
<1>15. ASSUME NEW e \in Emotes, QueueAffected(e) PROVE Held'
  <2>1. /\ owed' = owed \ {e} /\ (Without(e) # items => queued' = queued + 1)
        /\ Without(e) = items => queued' = queued
        /\ UNCHANGED <<items, ready, hash, left, outdated, faults, wpc, todo, dirty>>
    BY <1>15 DEF QueueAffected
  <2>2. CASE Without(e) # items
    BY <2>1, <2>2
  <2>3. CASE Without(e) = items
    <3>1. \A x \in items : x[1] # e
      BY <2>3 DEF Without
    <3>2. QED
      BY <2>1, <2>3, <3>1
  <2>4. QED
    BY <2>2, <2>3
<1>16. ASSUME NEW e \in Emotes, QueueDrops(e) PROVE Held'
  BY <1>16 DEF QueueDrops, Fault
<1>17. CASE TakeDirty
  BY <1>17 DEF TakeDirty
<1>18. CASE RebuildDirty
  <2>1. Loop \in Writers
    BY DEF Writers
  <2>2. wpc'[Loop] = "read"
    BY <1>18, <2>1 DEF RebuildDirty, Goto
  <2>3. UNCHANGED <<items, ready, hash, left, outdated, faults, owed>>
    BY <1>18 DEF RebuildDirty
  <2>4. Rebuilding' /\ \A e : Coming(e)'
    BY <2>1, <2>2
  <2>5. QED
    BY <2>3, <2>4
<1>19. CASE Expire
  BY <1>19 DEF Expire
<1>20. CASE Backfill
  BY <1>20 DEF Backfill
<1>21. CASE Restart
  BY <1>21 DEF Restart, Fault
<1>22. CASE Ensure
  BY <1>22 DEF Ensure, Enrich
<1>23. CASE Load
  BY <1>23 DEF Load, Enrich
<1>24. CASE LoadFails
  BY <1>24 DEF LoadFails, Enrich, Fault
<1>25. CASE FirstSwap
  BY <1>25 DEF FirstSwap, Enrich
<1>26. CASE Subscribe
  BY <1>26 DEF Subscribe, Enrich
<1>27. CASE Receive
  BY <1>27 DEF Receive, Enrich
<1>28. CASE TimerFires
  BY <1>28 DEF TimerFires, Enrich
<1>29. CASE Reload
  BY <1>29 DEF Reload, Enrich
<1>30. CASE ReloadMissing
  BY <1>30 DEF ReloadMissing, Enrich
<1>31. CASE ReloadFails
  BY <1>31 DEF ReloadFails, Enrich, Fault
<1>32. CASE Swap
  BY <1>32 DEF Swap, Enrich
<1>33. CASE UNCHANGED vars
  BY <1>33 DEF vars
<1>34. ASSUME NEW S \in ItemSets, ItemsElsewhere(S) PROVE Held'
  BY <1>34 DEF ItemsElsewhere
<1>35. QED
  BY <1>1, <1>2, <1>3, <1>4, <1>5, <1>6, <1>7, <1>8, <1>9, <1>10, <1>11, <1>12, <1>13,
       <1>14, <1>15, <1>16, <1>17, <1>18, <1>19, <1>20, <1>21, <1>22, <1>23, <1>24,
       <1>25, <1>26, <1>27, <1>28, <1>29, <1>30, <1>31, <1>32, <1>33, <1>34
     DEF Next, Writer, Handler, Enricher

-----------------------------------------------------------------------------
(* The enricher and the dictionary.                                        *)

LEMMA KnownStep == TypeOK /\ Known /\ [Next]_vars => Known'
<1> SUFFICES ASSUME TypeOK, Known, [Next]_vars PROVE Known'
  OBVIOUS
<1> USE EmoteDictAssumption DEF TypeOK, Known, StaleIsKnown, Awaited, Publishing,
         Subscribed, Writers, dbVars, redisVars, writerVars, queueVars, enricherVars
<1>1. ASSUME NEW w \in Writers, Read(w) PROVE Known'
  BY <1>1 DEF Read, Goto
<1>2. ASSUME NEW w \in Writers, Rebuild(w) PROVE Known'
  BY <1>2 DEF Rebuild, Goto
<1>3. ASSUME NEW w \in Writers, RebuildRejected(w) PROVE Known'
  BY <1>3 DEF RebuildRejected, Fault, Goto
<1>4. ASSUME NEW w \in Writers, Publish(w) PROVE Known'
  <2>1. CASE Subscribed
    BY <1>4, <2>1 DEF Publish
  <2>2. CASE epc \in {"loaded", "subscribe"}
    BY <1>4, <2>2 DEF Publish
  <2>3. CASE epc \in {"none", "load"}
    BY <1>4, <2>3 DEF Publish
  <2>4. QED
    BY <2>1, <2>2, <2>3
<1>5. ASSUME NEW w \in Writers, Fails(w) PROVE Known'
  BY <1>5 DEF Fails, Fault, Goto
<1>6. ASSUME NEW h \in Handlers, NEW x \in Entries, AddItem(h, x) PROVE Known'
  BY <1>6 DEF AddItem, Edit, Goto
<1>7. ASSUME NEW h \in Handlers, NEW e \in Emotes, RemoveItem(h, e) PROVE Known'
  <2>1. /\ wpc[h] = "idle" /\ wpc' = [wpc EXCEPT ![h] = "remove"]
        /\ faults' = 0 => faults = 0
        /\ UNCHANGED <<hash, epc, trie, served, inbox, timer, gap>>
    BY <1>7 DEF RemoveItem, Edit, Goto, Fault
  <2>2. Publishing' <=> Publishing
    BY <2>1
  <2>3. QED
    BY <2>1, <2>2
<1>8. ASSUME NEW h \in Handlers, NEW S \in ItemSets, SetItems(h, S) PROVE Known'
  BY <1>8 DEF SetItems, Edit, Goto
<1>9. ASSUME NEW h \in Handlers, SetDone(h) PROVE Known'
  BY <1>9 DEF SetDone, Goto
<1>10. ASSUME NEW h \in Handlers, Patch(h) PROVE Known'
  BY <1>10 DEF Patch, Goto
<1>11. ASSUME NEW h \in Handlers, PatchMissing(h) PROVE Known'
  BY <1>11 DEF PatchMissing, Goto
<1>12. ASSUME NEW e \in Emotes, Activate(e) PROVE Known'
  BY <1>12 DEF Activate, Status
<1>13. ASSUME NEW e \in Emotes, GiveUp(e) PROVE Known'
  BY <1>13 DEF GiveUp, Status
<1>14. ASSUME NEW e \in Emotes, MetadataReady(e) PROVE Known'
  BY <1>14 DEF MetadataReady, Status
<1>15. ASSUME NEW e \in Emotes, QueueAffected(e) PROVE Known'
  BY <1>15 DEF QueueAffected
<1>16. ASSUME NEW e \in Emotes, QueueDrops(e) PROVE Known'
  BY <1>16 DEF QueueDrops, Fault
<1>17. CASE TakeDirty
  BY <1>17 DEF TakeDirty
<1>18. CASE RebuildDirty
  BY <1>18 DEF RebuildDirty, Goto
<1>19. CASE Expire
  BY <1>19 DEF Expire
<1>20. CASE Backfill
  BY <1>20 DEF Backfill
<1>21. CASE Restart
  BY <1>21 DEF Restart, Fault
<1>22. CASE Ensure
  BY <1>22 DEF Ensure, Enrich
<1>23. CASE Load
  BY <1>23 DEF Load, Enrich
<1>24. CASE LoadFails
  BY <1>24 DEF LoadFails, Enrich, Fault
<1>25. CASE FirstSwap
  BY <1>25 DEF FirstSwap, Enrich
<1>26. CASE Subscribe
  BY <1>26 DEF Subscribe, Enrich
<1>27. CASE Receive
  BY <1>27 DEF Receive, Enrich
<1>28. CASE TimerFires
  BY <1>28 DEF TimerFires, Enrich
<1>29. CASE Reload
  BY <1>29 DEF Reload, Enrich
<1>30. CASE ReloadMissing
  BY <1>30 DEF ReloadMissing, Enrich
<1>31. CASE ReloadFails
  BY <1>31 DEF ReloadFails, Enrich, Fault
<1>32. CASE Swap
  <2>1. epc = "swap" /\ epc' = "listen" /\ served' = trie
    BY <1>32 DEF Swap, Enrich
  <2>2. UNCHANGED <<hash, wpc, inbox, timer, faults, gap>>
    BY <1>32 DEF Swap, Enrich
  <2>3. CASE Publishing
    BY <2>1, <2>2, <2>3
  <2>4. CASE inbox > 0
    BY <2>1, <2>2, <2>4
  <2>5. CASE trie = hash
    BY <2>1, <2>2, <2>5
  <2>6. CASE ~(faults = 0 /\ ~gap /\ hash # {})
    BY <2>1, <2>2, <2>6
  <2>7. QED
    BY <2>1, <2>3, <2>4, <2>5, <2>6
<1>33. CASE UNCHANGED vars
  BY <1>33 DEF vars
<1>34. ASSUME NEW S \in ItemSets, ItemsElsewhere(S) PROVE Known'
  BY <1>34 DEF ItemsElsewhere
<1>35. QED
  BY <1>1, <1>2, <1>3, <1>4, <1>5, <1>6, <1>7, <1>8, <1>9, <1>10, <1>11, <1>12, <1>13,
       <1>14, <1>15, <1>16, <1>17, <1>18, <1>19, <1>20, <1>21, <1>22, <1>23, <1>24,
       <1>25, <1>26, <1>27, <1>28, <1>29, <1>30, <1>31, <1>32, <1>33, <1>34
     DEF Next, Writer, Handler, Enricher

\* Only the enricher's own steps change what it has.
LEMMA OtherSteps == [Next]_vars => Enricher \/ UNCHANGED <<epc, trie, served>>
<1> SUFFICES ASSUME [Next]_vars, ~Enricher PROVE UNCHANGED <<epc, trie, served>>
  OBVIOUS
<1> USE DEF enricherVars
<1>1. ASSUME NEW w \in Writers, Writer(w) PROVE UNCHANGED <<epc, trie, served>>
  BY <1>1 DEF Writer, Read, Rebuild, RebuildRejected, Publish, Fails
<1>2. ASSUME NEW h \in Handlers, Handler(h) PROVE UNCHANGED <<epc, trie, served>>
  BY <1>2 DEF Handler, AddItem, RemoveItem, SetItems, SetDone, Edit, Patch, PatchMissing
<1>3. ASSUME NEW e \in Emotes, \/ Activate(e) \/ GiveUp(e) \/ MetadataReady(e)
                                \/ QueueAffected(e) \/ QueueDrops(e)
      PROVE  UNCHANGED <<epc, trie, served>>
  BY <1>3 DEF Activate, GiveUp, MetadataReady, Status, QueueAffected, QueueDrops
<1>4. CASE TakeDirty \/ RebuildDirty \/ Expire \/ Backfill \/ Restart
  BY <1>4 DEF TakeDirty, RebuildDirty, Expire, Backfill, Restart
<1>5. CASE UNCHANGED vars
  BY <1>5 DEF vars
<1>6. ASSUME NEW S \in ItemSets, ItemsElsewhere(S) PROVE UNCHANGED <<epc, trie, served>>
  BY <1>6 DEF ItemsElsewhere
<1>7. QED
  BY <1>1, <1>2, <1>3, <1>4, <1>5, <1>6 DEF Next

LEMMA BlankStep == NothingYet /\ [Next]_vars => NothingYet' /\ StillServes
<1> SUFFICES ASSUME NothingYet, [Next]_vars PROVE NothingYet' /\ StillServes
  OBVIOUS
<1> USE DEF NothingYet, StillServes
<1>1. CASE Ensure \/ Load \/ LoadFails \/ Subscribe
  BY <1>1 DEF Ensure, Load, LoadFails, Subscribe, Enrich
<1>2. CASE FirstSwap
  BY <1>2 DEF FirstSwap, Enrich
<1>3. CASE Receive \/ TimerFires \/ ReloadMissing \/ ReloadFails
  BY <1>3 DEF Receive, TimerFires, ReloadMissing, ReloadFails, Enrich
<1>4. CASE Reload
  BY <1>4 DEF Reload, Enrich
<1>5. CASE Swap
  BY <1>5 DEF Swap, Enrich
<1>6. CASE UNCHANGED <<epc, trie, served>>
  BY <1>6
<1>7. QED
  BY <1>1, <1>2, <1>3, <1>4, <1>5, <1>6, OtherSteps DEF Enricher

LEMMA BoundedStep == TypeOK /\ [Next]_vars => StillBounded
<1> SUFFICES ASSUME TypeOK, [Next]_vars PROVE StillBounded
  OBVIOUS
<1> USE DEF StillBounded
<1>1. ASSUME NEW w \in Writers, Writer(w) PROVE StillBounded
  <2>1. CASE Rebuild(w)
    BY <2>1 DEF Rebuild
  <2>2. CASE RebuildRejected(w)
    BY <2>2 DEF RebuildRejected
  <2>3. CASE Read(w) \/ Publish(w) \/ Fails(w)
    BY <2>3 DEF Read, Publish, Fails, redisVars
  <2>4. QED
    BY <1>1, <2>1, <2>2, <2>3 DEF Writer
<1>2. ASSUME NEW h \in Handlers, Handler(h) PROVE StillBounded
  <2>1. CASE Patch(h)
    BY <2>1 DEF Patch
  <2>2. CASE ~Patch(h)
    BY <1>2, <2>2
       DEF Handler, AddItem, RemoveItem, SetItems, SetDone, Edit, PatchMissing, redisVars
  <2>3. QED
    BY <2>1, <2>2
<1>3. ASSUME NEW e \in Emotes, \/ Activate(e) \/ GiveUp(e) \/ MetadataReady(e)
                                \/ QueueAffected(e) \/ QueueDrops(e)
      PROVE  StillBounded
  BY <1>3 DEF Activate, GiveUp, MetadataReady, Status, QueueAffected, QueueDrops, redisVars
<1>4. CASE TakeDirty \/ RebuildDirty \/ Restart
  BY <1>4 DEF TakeDirty, RebuildDirty, Restart, redisVars
<1>5. CASE Expire \/ Backfill
  BY <1>5 DEF Expire, Backfill
<1>6. CASE Enricher
  BY <1>6
     DEF Enricher, Ensure, Load, LoadFails, FirstSwap, Subscribe, Receive, TimerFires,
         Reload, ReloadMissing, ReloadFails, Swap, Enrich, redisVars
<1>7. CASE UNCHANGED vars
  BY <1>7 DEF vars, redisVars
<1>8. ASSUME NEW S \in ItemSets, ItemsElsewhere(S) PROVE StillBounded
  BY <1>8 DEF ItemsElsewhere, redisVars
<1>9. QED
  BY <1>1, <1>2, <1>3, <1>4, <1>5, <1>6, <1>7, <1>8 DEF Next


-----------------------------------------------------------------------------

LEMMA InvStep == IInv /\ [Next]_vars => IInv'
  BY TypeStep, HeldStep, KnownStep, BlankStep DEF IInv

\* The strengthening holds in every reachable state.
THEOREM Inductive == Spec => []IInv
  BY InvInit, InvStep, PTL DEF Spec

\* Every variable keeps its type, and a missing dictionary has no expiry.
THEOREM TypeCorrect == Spec => []TypeOK
<1>1. IInv => TypeOK
  BY DEF IInv
<1>2. QED
  BY <1>1, Inductive, PTL

\* Unless a call failed or Redis was left behind (outdated), the dictionary says what
\* PostgreSQL says or a writer is on its way (emote/api/api.go, emote/dict/dict.go,
\* emote/worker/worker.go).
THEOREM NothingLeftOut == Spec => []Truthful
<1>1. IInv => Truthful
  BY DEF IInv, Held, Truthful, Rebuilding, Coming
<1>2. QED
  BY <1>1, Inductive, PTL

\* Without failed calls and a delta missed before it subscribed, the enricher serves the
\* dictionary in Redis or is about to hear of it (chat/enrich/enrich.go).
THEOREM HearsOfChanges == Spec => []StaleIsKnown
<1>1. IInv => StaleIsKnown
  BY DEF IInv, Known
<1>2. QED
  BY <1>1, Inductive, PTL

\* A dictionary once served is never blanked (enrich.go:201-220).
THEOREM KeepsServing == Spec => NeverBlanked
<1>1. IInv /\ [Next]_vars => StillServes
  BY BlankStep DEF IInv
<1>2. QED
  BY <1>1, Inductive, PTL DEF Spec, NeverBlanked, StillServes

\* Every dictionary written has an expiry and keeps it (dict.go:88-156).
THEOREM KeepsExpiry == Spec => StaysBounded
<1>1. TypeOK /\ [Next]_vars => StillBounded
  BY BoundedStep
<1>2. QED
  BY <1>1, TypeCorrect, PTL DEF Spec, StaysBounded, StillBounded

-----------------------------------------------------------------------------
(* EventApi: the subscriptions of the kept connection.                      *)

\* The run loop works on the connection that is kept, keeps none while it dials, and sends
\* nothing but subscriptions to sets.
SubscribedInv ==
  /\ Events!TypeOK
  /\ ev_conn = ev_run.on
  /\ ev_run.at = "dial" => ev_run.on = ev_None
  /\ ev_run.at = "send" => ev_todo \subseteq ev_Sets
  /\ ActiveSubscribed

Outs == [op : {"none", "subscribe", "unsubscribe"}, sets : SUBSET ev_Sets,
         on : ev_Conns \cup {ev_None}]

Runs == [at : {"dial", "send", "serve", "close"}, on : ev_Conns \cup {ev_None}]

LEMMA SilentOut == Events!Silent \in Outs /\ Events!Silent.op = "none" /\ Events!Silent.on = ev_None
BY DEF Events!Silent, Outs

LEMMA SubscribedInit == Events!Init => SubscribedInv
<1> SUFFICES ASSUME Events!Init PROVE SubscribedInv
  OBVIOUS
<1>1. Events!TypeOK
  BY SilentOut, EmotePartsAssumption DEF Events!Init, Events!TypeOK, Outs
<1>2. QED
  BY <1>1 DEF Events!Init, SubscribedInv, ActiveSubscribed, Events!ActiveSubscribed

LEMMA SubscribedStep == SubscribedInv /\ [Events!Next]_(Events!vars) => SubscribedInv'
<1> SUFFICES ASSUME SubscribedInv, [Events!Next]_(Events!vars) PROVE SubscribedInv'
  OBVIOUS
<1> DEFINE Typed == /\ ev_subs \in [ev_Logins -> ev_Sets \cup {ev_None}]
                    /\ ev_idle \in SUBSET ev_Logins
                    /\ ev_up \in SUBSET ev_Conns
                    /\ ev_served \in [ev_Conns -> SUBSET ev_Sets]
                    /\ ev_inbox \in SUBSET ev_Sets
                    /\ ev_run \in Runs
                    /\ ev_todo \in SUBSET (ev_Sets \cup ev_Logins)
                    /\ ev_out \in [Events!Writers -> Outs]
                    /\ ev_remote \in [ev_Sets -> 0 .. ev_MaxChanges]
                    /\ ev_applied \in [ev_Logins -> 0 .. ev_MaxChanges]
                    /\ ev_cut \in SUBSET ev_Sets
           Kept == /\ ev_conn = ev_run.on
                   /\ ev_run.at = "dial" => ev_run.on = ev_None
                   /\ ev_run.at = "send" => ev_todo \subseteq ev_Sets
           \* The set of a channel is subscribed to, about to be, or given up.
           Sub(l) == ev_subs[l] \in ev_served[ev_conn] \/ Events!Underway(ev_subs[l]) \/ ev_subs[l] \in ev_cut
           All == \A l \in ev_Logins : ev_subs[l] # ev_None => Sub(l)
<1>1. Typed /\ Kept /\ (ev_conn # ev_None /\ ev_conn \in ev_up => All)
  BY DEF SubscribedInv, Events!TypeOK, Outs, Runs, ActiveSubscribed, Events!ActiveSubscribed
<1>2. ASSUME Typed', Kept', ev_conn' # ev_None /\ ev_conn' \in ev_up' => All' PROVE SubscribedInv'
  BY <1>2 DEF SubscribedInv, Events!TypeOK, Outs, Runs, ActiveSubscribed, Events!ActiveSubscribed
<1>3. ev_None \notin ev_Sets /\ ev_None \notin ev_Conns /\ (ev_conn # ev_None => ev_conn \in ev_Conns)
  BY <1>1, EmotePartsAssumption DEF Runs
<1> HIDE DEF Typed, Kept, All, Sub
\* A step that takes no subscription, no channel's set and no writer's frame back.
<1>4. ASSUME UNCHANGED <<ev_subs, ev_conn, ev_served, ev_cut, ev_out>>, ev_up' \subseteq ev_up,
             ev_run.at = "send" => ev_run'.at = "send" /\ ev_todo \subseteq ev_todo',
             Typed', Kept'
      PROVE  SubscribedInv'
  BY <1>1, <1>2, <1>4 DEF All, Sub, Events!Underway
<1>5. ASSUME NEW h \in ev_Handlers, NEW l \in ev_Logins, NEW s \in ev_Sets, Events!Register(h, l, s)
      PROVE  SubscribedInv'
  <2> DEFINE o == [op |-> "subscribe", sets |-> {s}, on |-> ev_None]
  <2>1. o \in Outs /\ o.op = "subscribe" /\ o.sets = {s} /\ o.on = ev_None
    BY DEF Outs
  <2>2. /\ ev_out[h] = Events!Silent /\ h \in Events!Writers
        /\ ev_subs' = [ev_subs EXCEPT ![l] = s] /\ ev_idle' = ev_idle \ {l}
        /\ ev_out' = IF ev_subs[l] = s THEN ev_out ELSE [ev_out EXCEPT ![h] = o]
        /\ UNCHANGED <<ev_conn, ev_up, ev_served, ev_inbox, ev_run, ev_todo, ev_remote, ev_applied, ev_cut>>
    BY <1>5 DEF Events!Register, Events!Writers, Events!feed, Events!loop, Events!sync
  <2> HIDE DEF o
  <2>3. Typed' /\ Kept'
    BY <1>1, <2>1, <2>2 DEF Typed, Kept
  <2>4. ASSUME ev_conn' # ev_None /\ ev_conn' \in ev_up', NEW m \in ev_Logins, ev_subs'[m] # ev_None
        PROVE  Sub(m)'
    <3>1. CASE ev_subs[l] = s
      BY <1>1, <2>2, <2>4, <3>1 DEF Typed, All, Sub, Events!Underway
    <3>2. CASE ev_subs[l] # s /\ m = l
      <4>1. Events!Underway(s)'
        BY <1>1, <2>1, <2>2, <3>2 DEF Typed, Events!Underway
      <4>2. QED
        BY <1>1, <2>2, <3>2, <4>1 DEF Typed, Sub
    <3>3. CASE ev_subs[l] # s /\ m # l
      <4>1. Sub(m) /\ ev_subs'[m] = ev_subs[m]
        BY <1>1, <2>2, <2>4, <3>3 DEF Typed, All
      <4>2. Events!Underway(ev_subs[m]) => Events!Underway(ev_subs[m])'
        BY <1>1, <2>2, <3>3, <4>1, SilentOut DEF Typed, Events!Underway
      <4>3. QED
        BY <2>2, <4>1, <4>2 DEF Sub
    <3>4. QED
      BY <3>1, <3>2, <3>3
  <2>5. QED
    BY <1>2, <2>3, <2>4 DEF All
\* A writer that has nothing to do takes on the unsubscriptions of channels that are dropped.
<1>6. ASSUME NEW w \in Events!Writers, ev_out[w] = Events!Silent,
             NEW o \in Outs, ev_out' = [ev_out EXCEPT ![w] = o],
             ev_subs' \in [ev_Logins -> ev_Sets \cup {ev_None}],
             \A m \in ev_Logins : ev_subs'[m] \in {ev_subs[m], ev_None},
             UNCHANGED <<ev_idle, ev_conn, ev_up, ev_served, ev_inbox, ev_run, ev_todo, ev_remote,
                         ev_applied, ev_cut>>
      PROVE  SubscribedInv'
  <2>1. Typed' /\ Kept'
    BY <1>1, <1>6 DEF Typed, Kept
  <2>2. ASSUME ev_conn' # ev_None /\ ev_conn' \in ev_up', NEW m \in ev_Logins, ev_subs'[m] # ev_None
        PROVE  Sub(m)'
    <3>1. Sub(m) /\ ev_subs'[m] = ev_subs[m]
      BY <1>1, <1>6, <2>2 DEF All
    <3>2. Events!Underway(ev_subs[m]) => Events!Underway(ev_subs[m])'
      BY <1>1, <1>6, <3>1, SilentOut DEF Typed, Events!Underway
    <3>3. QED
      BY <1>6, <3>1, <3>2 DEF Sub
  <2>3. QED
    BY <1>2, <2>1, <2>2 DEF All
<1>7. ASSUME NEW h \in ev_Handlers, NEW l \in ev_Logins, Events!Unregister(h, l) PROVE SubscribedInv'
  <2> DEFINE o == [op |-> "unsubscribe", sets |-> {ev_subs[l]}, on |-> ev_None]
  <2>1. o \in Outs /\ h \in Events!Writers
    BY <1>1, <1>7 DEF Outs, Typed, Events!Unregister, Events!Writers
  <2>2. /\ ev_out[h] = Events!Silent /\ ev_out' = [ev_out EXCEPT ![h] = o]
        /\ ev_subs' = [ev_subs EXCEPT ![l] = ev_None]
        /\ UNCHANGED <<ev_idle, ev_conn, ev_up, ev_served, ev_inbox, ev_run, ev_todo, ev_remote,
                       ev_applied, ev_cut>>
    BY <1>7 DEF Events!Unregister, Events!feed, Events!loop, Events!sync
  <2> HIDE DEF o
  <2>3. /\ ev_subs' \in [ev_Logins -> ev_Sets \cup {ev_None}]
        /\ \A m \in ev_Logins : ev_subs'[m] \in {ev_subs[m], ev_None}
    BY <1>1, <2>2 DEF Typed
  <2>4. QED
    BY <1>6, <2>1, <2>2, <2>3
<1>8. CASE Events!Reap
  <2> DEFINE stale == {l \in ev_idle : ev_subs[l] # ev_None}
             o == [op |-> "unsubscribe", sets |-> {ev_subs[l] : l \in stale}, on |-> ev_None]
  <2>1. o \in Outs /\ "reaper" \in Events!Writers
    BY <1>1 DEF Outs, Typed, Events!Writers
  <2>2. /\ ev_out["reaper"] = Events!Silent /\ ev_out' = [ev_out EXCEPT !["reaper"] = o]
        /\ ev_subs' = [l \in ev_Logins |-> IF l \in stale THEN ev_None ELSE ev_subs[l]]
        /\ UNCHANGED <<ev_idle, ev_conn, ev_up, ev_served, ev_inbox, ev_run, ev_todo, ev_remote,
                       ev_applied, ev_cut>>
    BY <1>8 DEF Events!Reap, Events!feed, Events!loop, Events!sync
  <2> HIDE DEF o, stale
  <2>3. /\ ev_subs' \in [ev_Logins -> ev_Sets \cup {ev_None}]
        /\ \A m \in ev_Logins : ev_subs'[m] \in {ev_subs[m], ev_None}
    BY <1>1, <2>2 DEF Typed
  <2>4. QED
    BY <1>6, <2>1, <2>2, <2>3
\* The connection a writer picks is the kept one; when there is none, nothing is claimed.
<1>9. ASSUME NEW w \in Events!Writers, Events!PickConn(w) PROVE SubscribedInv'
  <2>1. /\ ev_out[w].on = ev_None
        /\ UNCHANGED <<ev_subs, ev_idle, ev_conn, ev_up, ev_served, ev_inbox, ev_run, ev_todo, ev_remote,
                       ev_applied, ev_cut>>
    BY <1>9 DEF Events!PickConn, Events!feed, Events!loop, Events!sync
  <2>2. CASE ev_conn = ev_None
    <3>1. \E o \in Outs : ev_out' = [ev_out EXCEPT ![w] = o]
      <4>1. CASE w = "reaper" /\ Events!Cardinality(ev_out[w].sets) > 1
        <5> DEFINE one == CHOOSE s \in ev_out[w].sets : TRUE
                   o == [ev_out[w] EXCEPT !.sets = ev_out[w].sets \ {one}]
        <5>1. ev_out' = [ev_out EXCEPT ![w] = o]
          BY <1>1, <1>9, <2>2, <4>1 DEF Events!PickConn, Typed
        <5> HIDE DEF one
        <5>2. o \in Outs
          BY <1>1 DEF Typed, Outs
        <5>3. QED
          BY <5>1, <5>2
      <4>2. CASE ~(w = "reaper" /\ Events!Cardinality(ev_out[w].sets) > 1)
        BY <1>9, <2>2, <4>2, SilentOut DEF Events!PickConn
      <4>3. QED
        BY <4>1, <4>2
    <3>2. Typed' /\ Kept'
      BY <1>1, <2>1, <3>1 DEF Typed, Kept
    <3>3. QED
      BY <1>2, <2>1, <2>2, <3>2
  <2>3. CASE ev_conn # ev_None
    <3> DEFINE o == [ev_out[w] EXCEPT !.on = ev_conn]
    <3>1. ev_out' = [ev_out EXCEPT ![w] = o]
      BY <1>1, <1>9, <2>3 DEF Events!PickConn, Typed
    <3>2. o \in Outs /\ o.op = ev_out[w].op /\ o.sets = ev_out[w].sets /\ o.on = ev_conn
      BY <1>1, <1>3, <2>3 DEF Typed, Outs
    <3> HIDE DEF o
    <3>3. Typed' /\ Kept'
      BY <1>1, <2>1, <3>1, <3>2 DEF Typed, Kept
    <3>4. \A s : Events!Underway(s) => Events!Underway(s)'
      BY <1>1, <2>1, <3>1, <3>2 DEF Typed, Events!Underway
    <3>5. QED
      BY <1>1, <1>2, <2>1, <3>3, <3>4 DEF All, Sub
  <2>4. QED
    BY <2>2, <2>3
<1>10. ASSUME NEW w \in Events!Writers, Events!Write(w) PROVE SubscribedInv'
  <2> DEFINE k == ev_out[w].on
  <2>1. /\ ev_out[w].op # "none" /\ k # ev_None /\ k \in ev_Conns /\ ev_out[w].sets \subseteq ev_Sets
        /\ UNCHANGED <<ev_subs, ev_idle, ev_conn, ev_up, ev_inbox, ev_run, ev_todo, ev_remote, ev_applied>>
    BY <1>1, <1>10 DEF Typed, Outs, Events!Write, Events!loop, Events!sync
  <2>2. PICK s \in ev_out[w].sets : Events!Frame(w, s)
    BY <1>10 DEF Events!Write
  <2> DEFINE r == [ev_out[w] EXCEPT !.sets = ev_out[w].sets \ {s}, !.on = ev_None]
             o == IF ev_out[w].sets = {s} THEN Events!Silent ELSE r
  <2>3. r \in Outs /\ r.op = ev_out[w].op /\ r.sets = ev_out[w].sets \ {s} /\ r.on = ev_None
    BY <1>1 DEF Typed, Outs
  <2>4. /\ o \in Outs /\ ev_out' = [ev_out EXCEPT ![w] = o]
        /\ ev_out[w].sets # {s} => o = r
    <3>1. ev_out' = [ev_out EXCEPT ![w] = o]
      BY <2>2 DEF Events!Frame
    <3> HIDE DEF r
    <3>2. o \in Outs /\ (ev_out[w].sets # {s} => o = r)
      BY <2>3, SilentOut
    <3>3. QED
      BY <3>1, <3>2
  <2> HIDE DEF r
  <2> HIDE DEF o
  \* The other writers keep their frames, and w has all but s left.
  <2>5. \A x : Events!Underway(x) =>
                 Events!Underway(x)' \/ (x = s /\ ev_out[w].op = "subscribe" /\ k = ev_conn)
    <3>1. SUFFICES ASSUME NEW x, NEW v \in Events!Writers, ev_out[v].op = "subscribe",
                          x \in ev_out[v].sets, ev_out[v].on \in {ev_None, ev_conn}
                   PROVE  Events!Underway(x)' \/ (x = s /\ ev_out[w].op = "subscribe" /\ k = ev_conn)
      BY <2>1 DEF Events!Underway
    <3>2. CASE v # w
      BY <1>1, <2>1, <2>4, <3>1, <3>2 DEF Typed, Events!Underway
    <3>3. CASE v = w /\ x = s
      BY <2>1, <3>1, <3>3
    <3>4. CASE v = w /\ x # s
      <4>1. ev_out'[w] = r /\ x \in r.sets /\ r.op = "subscribe" /\ r.on = ev_None
        BY <1>1, <2>3, <2>4, <3>1, <3>4 DEF Typed
      <4>2. QED
        BY <4>1 DEF Events!Underway
    <3>5. QED
      BY <3>2, <3>3, <3>4
  <2>6. Typed'
    <3>1. ev_served' \in [ev_Conns -> SUBSET ev_Sets] /\ ev_cut' \in SUBSET ev_Sets
      BY <1>1, <2>1, <2>2 DEF Typed, Events!Frame
    <3>2. ev_out' \in [Events!Writers -> Outs]
      BY <1>1, <2>4 DEF Typed
    <3>3. QED
      BY <1>1, <2>1, <3>1, <3>2 DEF Typed
  <2>7. ASSUME ev_conn # ev_None, ev_conn \in ev_up, NEW l \in ev_Logins, ev_subs[l] # ev_None
        PROVE  Sub(l)'
    <3>1. Sub(l) /\ ev_conn \in ev_Conns
      BY <1>1, <1>3, <2>7 DEF All
    <3>2. CASE ev_subs[l] \in ev_cut
      <4>1. ev_subs[l] \in ev_cut' \/ ev_subs[l] \in ev_served'[ev_conn]
        BY <1>1, <2>1, <2>2, <3>1, <3>2 DEF Typed, Events!Frame
      <4>2. QED
        BY <2>1, <4>1 DEF Sub
    <3>3. CASE ev_subs[l] \in ev_served[ev_conn]
      <4>1. ev_subs[l] \in ev_served'[ev_conn] \/ ev_subs[l] \in ev_cut'
        BY <1>1, <2>1, <2>2, <3>1, <3>3 DEF Typed, Events!Frame
      <4>2. QED
        BY <2>1, <4>1 DEF Sub
    <3>4. CASE Events!Underway(ev_subs[l])
      <4>1. CASE Events!Underway(ev_subs[l])'
        BY <2>1, <4>1 DEF Sub
      <4>2. CASE ev_subs[l] = s /\ ev_out[w].op = "subscribe" /\ k = ev_conn
        <5>1. ev_subs[l] \in ev_served'[ev_conn]
          BY <1>1, <2>1, <2>2, <2>7, <4>2 DEF Typed, Events!Frame
        <5>2. QED
          BY <2>1, <5>1 DEF Sub
      <4>3. Events!Underway(ev_subs[l])' \/ (ev_subs[l] = s /\ ev_out[w].op = "subscribe" /\ k = ev_conn)
        <5>1. \A x : x = ev_subs[l] => (Events!Underway(x)' <=> Events!Underway(ev_subs[l])')
          BY <2>1
        <5>2. QED
          BY <2>5, <3>4, <5>1
      <4>4. QED
        BY <4>1, <4>2, <4>3
    <3>5. QED
      BY <3>1, <3>2, <3>3, <3>4 DEF Sub
  <2>8. Kept'
    BY <1>1, <2>1 DEF Kept
  <2>9. QED
    BY <1>2, <2>1, <2>6, <2>7, <2>8 DEF All
<1>11. CASE Events!Connect
  <2>1. PICK k \in ev_Conns \ ev_up :
          /\ ev_up' = ev_up \cup {k} /\ ev_served' = [ev_served EXCEPT ![k] = {}]
          /\ ev_run' = [at |-> "send", on |-> k] /\ ev_conn' = k
    BY <1>11 DEF Events!Connect
  <2>2. /\ ev_todo' = {ev_subs[l] : l \in ev_Logins} \ {ev_None} /\ ev_inbox' = {} /\ ev_cut' = {}
        /\ UNCHANGED <<ev_subs, ev_idle, ev_out, ev_remote, ev_applied>>
    BY <1>11 DEF Events!Connect, Events!Registered, Events!sync
  <2>3. Typed' /\ Kept'
    BY <1>1, <1>3, <2>1, <2>2 DEF Typed, Kept, Runs
  <2>4. ASSUME NEW l \in ev_Logins, ev_subs'[l] # ev_None PROVE Sub(l)'
    <3>1. ev_run'.at = "send" /\ ev_subs'[l] \in ev_todo'
      BY <2>1, <2>2, <2>4
    <3>2. QED
      BY <3>1 DEF Sub, Events!Underway
  <2>5. QED
    BY <1>2, <2>3, <2>4 DEF All
<1>12. CASE Events!Resubscribe
  <2> /\ ev_run.at = "send"
      /\ UNCHANGED <<ev_subs, ev_idle, ev_conn, ev_up, ev_inbox, ev_out, ev_remote, ev_applied>>
    BY <1>12 DEF Events!Resubscribe, Events!sync
  <2>1. CASE ev_todo = {}
    <3>1. ev_run' = [ev_run EXCEPT !.at = "serve"] /\ UNCHANGED <<ev_todo, ev_served, ev_cut>>
      BY <1>12, <2>1 DEF Events!Resubscribe
    <3>2. Typed' /\ Kept'
      BY <1>1, <3>1 DEF Typed, Kept, Runs
    <3>3. \A x : Events!Underway(x) => Events!Underway(x)'
      BY <2>1 DEF Events!Underway
    <3>4. QED
      BY <1>1, <1>2, <3>1, <3>2, <3>3 DEF All, Sub
  <2>2. CASE ev_todo # {} /\ ev_run.on \notin ev_up
    <3>1. ev_run' = [ev_run EXCEPT !.at = "close"] /\ ev_todo' = {} /\ UNCHANGED <<ev_served, ev_cut>>
      BY <1>12, <2>2 DEF Events!Resubscribe
    <3>2. Typed' /\ Kept'
      BY <1>1, <3>1 DEF Typed, Kept, Runs
    <3>3. QED
      BY <1>1, <1>2, <2>2, <3>2 DEF Kept
  <2>3. CASE ev_todo # {} /\ ev_run.on \in ev_up
    <3>1. PICK s \in ev_todo : /\ ev_todo' = ev_todo \ {s} /\ UNCHANGED ev_run
                              /\ ev_served' = [ev_served EXCEPT ![ev_run.on] = @ \cup {s}]
                              /\ ev_cut' = ev_cut \ {s}
      BY <1>12, <2>3 DEF Events!Resubscribe
    <3>2. Typed' /\ Kept'
      BY <1>1, <2>3, <3>1 DEF Typed, Kept
    <3>3. \A x : Events!Underway(x) => Events!Underway(x)' \/ x \in ev_served'[ev_conn]
      BY <1>1, <2>3, <3>1 DEF Typed, Kept, Events!Underway
    <3>4. \A x : x \in ev_served[ev_conn] \/ x \in ev_cut => x \in ev_served'[ev_conn] \/ x \in ev_cut'
      BY <1>1, <2>3, <3>1 DEF Typed, Kept
    <3>5. QED
      BY <1>1, <1>2, <3>2, <3>3, <3>4 DEF All, Sub
  <2>4. QED
    BY <2>1, <2>2, <2>3
<1>13. CASE Events!Receive
  <2>1. /\ ev_run.at = "serve" /\ UNCHANGED <<ev_subs, ev_conn, ev_up, ev_served, ev_run, ev_out, ev_cut>>
        /\ Typed' /\ Kept'
    BY <1>1, <1>13 DEF Typed, Kept, Events!Receive, Events!sync
  <2>2. QED
    BY <1>4, <2>1
<1>14. CASE Events!Apply
  <2>1. /\ ev_run.at = "serve" /\ ev_todo' \subseteq ev_todo
        /\ UNCHANGED <<ev_subs, ev_idle, ev_conn, ev_up, ev_served, ev_inbox, ev_run, ev_out, ev_remote, ev_cut>>
    BY <1>14 DEF Events!Apply, Events!feed
  <2>2. ev_applied' \in [ev_Logins -> 0 .. ev_MaxChanges]
    BY <1>1, <1>14 DEF Typed, Events!Apply
  <2>3. Typed' /\ Kept'
    BY <1>1, <2>1, <2>2 DEF Typed, Kept
  <2>4. QED
    BY <1>4, <2>1, <2>3
<1>15. CASE Events!ReadFails
  <2>1. /\ ev_run.at = "serve" /\ ev_run' = [ev_run EXCEPT !.at = "close"]
        /\ UNCHANGED <<ev_subs, ev_idle, ev_conn, ev_up, ev_served, ev_inbox, ev_todo, ev_out, ev_remote,
                       ev_applied, ev_cut>>
    BY <1>15 DEF Events!ReadFails, Events!feed, Events!sync
  <2>2. Typed' /\ Kept'
    BY <1>1, <2>1 DEF Typed, Kept, Runs
  <2>3. QED
    BY <1>4, <2>1, <2>2
<1>16. CASE Events!Close
  <2>1. Typed' /\ Kept' /\ ev_conn' = ev_None
    BY <1>1, <1>16 DEF Typed, Kept, Runs, Events!Close, Events!sync
  <2>2. QED
    BY <1>2, <2>1
<1>17. ASSUME NEW l \in ev_Logins, Events!GoIdle(l) PROVE SubscribedInv'
  <2>1. UNCHANGED <<ev_subs, ev_conn, ev_up, ev_served, ev_run, ev_todo, ev_out, ev_cut>> /\ Typed' /\ Kept'
    BY <1>1, <1>17 DEF Typed, Kept, Events!GoIdle, Events!feed, Events!loop, Events!sync
  <2>2. QED
    BY <1>4, <2>1
<1>18. CASE Events!Break
  <2>1. /\ UNCHANGED <<ev_subs, ev_conn, ev_served, ev_run, ev_todo, ev_out, ev_cut>>
        /\ ev_up' \subseteq ev_up /\ Typed' /\ Kept'
    BY <1>1, <1>18 DEF Typed, Kept, Events!Break, Events!loop, Events!sync
  <2>2. QED
    BY <1>4, <2>1
<1>19. ASSUME NEW s \in ev_Sets, Events!Change(s) PROVE SubscribedInv'
  <2>1. UNCHANGED <<ev_subs, ev_idle, ev_conn, ev_up, ev_served, ev_run, ev_todo, ev_out, ev_applied, ev_cut>>
    BY <1>19 DEF Events!Change, Events!loop
  <2>2. ev_remote' \in [ev_Sets -> 0 .. ev_MaxChanges] /\ ev_inbox' \in SUBSET ev_Sets
    <3>1. ev_remote[s] + 1 \in 0 .. ev_MaxChanges
      BY <1>1, <1>19, EmotePartsAssumption DEF Typed, Events!Change
    <3>2. QED
      BY <1>1, <1>19, <3>1 DEF Typed, Events!Change
  <2>3. Typed' /\ Kept'
    BY <1>1, <2>1, <2>2 DEF Typed, Kept
  <2>4. QED
    BY <1>4, <2>1, <2>3
<1>20. CASE UNCHANGED Events!vars
  <2>1. UNCHANGED <<ev_subs, ev_conn, ev_up, ev_served, ev_run, ev_todo, ev_out, ev_cut>> /\ Typed' /\ Kept'
    BY <1>1, <1>20 DEF Typed, Kept, Events!vars, Events!feed, Events!loop, Events!sync
  <2>2. QED
    BY <1>4, <2>1
<1>21. QED
  BY <1>5, <1>7, <1>8, <1>9, <1>10, <1>11, <1>12, <1>13, <1>14, <1>15, <1>16, <1>17, <1>18, <1>19, <1>20
    DEF Events!Next, Events!Sending, Events!RunLoop

\* However channels are registered, dropped and registered again while the subscriber
\* connects, writes and reconnects, 7TV is subscribed on the kept connection to the set of
\* every registered channel, or is about to be, unless an unsubscribe has taken the set off
\* this very connection while a channel used it (subscriber.go: Register, connectAndServe,
\* reapIdle): each connection begins with all of them.
THEOREM RegisteredAreSubscribed == Events!Spec => [](Events!TypeOK /\ ActiveSubscribed)
<1>1. SubscribedInv => Events!TypeOK /\ ActiveSubscribed
  BY DEF SubscribedInv
<1>2. QED
  BY SubscribedInit, SubscribedStep, <1>1, PTL DEF Events!Spec

-----------------------------------------------------------------------------
(* ObjectStores: what was put stays readable.                               *)

\* What is written is an object, never none; only reads fall back.
Solid ==
  \A h \in ob_Handlers :
    /\ ob_call[h].op = "put" \/ ob_call[h].at \in {"promote", "stream"} => ob_call[h].val # 0
    /\ ob_call[h].at = "fallback" => ob_call[h].op \in {"get", "open", "stat"}

\* While somebody deletes nothing is claimed to stay, nor will a put that is under way be.
NoClaim ==
  (\E h \in ob_Handlers : ob_call[h].op = "delete") =>
    ~ob_kept /\ \A h \in ob_Handlers : ob_call[h].op = "put" => ~ob_call[h].clean

\* A put that writes its second store has left the object in the first.
FirstWritten ==
  \A h \in ob_Handlers :
    ob_call[h].op = "put" /\ ob_call[h].at = "replica" /\ ob_call[h].clean =>
      Objects!Found(Objects!Primary)

ReadableInv == Objects!TypeOK /\ Solid /\ NoClaim /\ FirstWritten /\ StaysReadable

Calls == [op : {"none", "get", "open", "stat", "put", "delete"},
          at : {"idle", "primary", "fallback", "promote", "stream", "replica"},
          val : 0 .. ob_MaxPuts, clean : BOOLEAN]

LEMMA RestIsCall ==
  /\ Objects!Rest \in Calls /\ Objects!Rest.op = "none" /\ Objects!Rest.at = "idle"
  /\ Objects!Rest.val = 0 /\ Objects!Rest.clean
<1>1. Objects!Rest \in Calls
  BY EmotePartsAssumption DEF Objects!Rest, Calls
<1>2. QED
  BY <1>1 DEF Objects!Rest, Calls

\* What Goto does to a call.
Moved(x, where, v) == [x EXCEPT !.at = where, !.val = v]

LEMMA GotoCall ==
  ASSUME NEW x \in Calls, NEW v \in 0 .. ob_MaxPuts,
         NEW where \in {"idle", "primary", "fallback", "promote", "stream", "replica"}
  PROVE  /\ Moved(x, where, v) \in Calls
         /\ Moved(x, where, v).op = x.op
         /\ Moved(x, where, v).at = where
         /\ Moved(x, where, v).val = v
         /\ Moved(x, where, v).clean = x.clean
BY DEF Calls, Moved

LEMMA ReadableInit == Objects!Init => ReadableInv
<1> SUFFICES ASSUME Objects!Init PROVE ReadableInv
  OBVIOUS
<1>1. /\ ob_conf \in Objects!Configs /\ ob_held \in [Objects!Stores -> 0 .. ob_MaxPuts]
      /\ ob_call \in [ob_Handlers -> Calls] /\ ob_promo \in [ob_Slots -> 0 .. ob_MaxPuts]
      /\ ob_puts \in 0 .. ob_MaxPuts
  BY EmotePartsAssumption, RestIsCall DEF Objects!Init
<1>2. ob_kept \in BOOLEAN /\ ~ob_kept
  BY DEF Objects!Init
<1>3. Objects!TypeOK
  BY <1>1, <1>2 DEF Objects!TypeOK, Calls
<1>4. QED
  BY <1>2, <1>3, RestIsCall DEF Objects!Init, ReadableInv, Solid, NoClaim, FirstWritten,
    StaysReadable, Objects!StaysReadable

LEMMA ReadableStep == ReadableInv /\ [Objects!Next]_(Objects!vars) => ReadableInv'
<1> SUFFICES ASSUME ReadableInv, [Objects!Next]_(Objects!vars) PROVE ReadableInv'
  OBVIOUS
<1>1. /\ ob_conf \in Objects!Configs /\ ob_held \in [Objects!Stores -> 0 .. ob_MaxPuts]
      /\ ob_call \in [ob_Handlers -> Calls] /\ ob_promo \in [ob_Slots -> 0 .. ob_MaxPuts]
      /\ ob_puts \in 0 .. ob_MaxPuts /\ ob_kept \in BOOLEAN
      /\ Solid /\ NoClaim /\ FirstWritten /\ StaysReadable
  BY DEF ReadableInv, Objects!TypeOK, Calls
<1>2. ASSUME /\ ob_conf' \in Objects!Configs /\ ob_held' \in [Objects!Stores -> 0 .. ob_MaxPuts]
             /\ ob_call' \in [ob_Handlers -> Calls] /\ ob_promo' \in [ob_Slots -> 0 .. ob_MaxPuts]
             /\ ob_puts' \in 0 .. ob_MaxPuts /\ ob_kept' \in BOOLEAN
             /\ Solid' /\ NoClaim' /\ FirstWritten' /\ StaysReadable'
      PROVE  ReadableInv'
  BY <1>2 DEF ReadableInv, Objects!TypeOK, Calls
<1>3. /\ Objects!Primary \in Objects!Stores /\ Objects!Other \in Objects!Stores
      /\ Objects!Primary # Objects!Other
      /\ \A s \in Objects!Stores : s = Objects!Primary \/ s = Objects!Other
  BY DEF Objects!Primary, Objects!Other, Objects!Stores
\* A step of h alone that neither begins a put or a delete nor moves a put to its replica.
<1>4. ASSUME NEW h \in ob_Handlers, NEW c \in Calls, ob_call' = [ob_call EXCEPT ![h] = c],
             c.op \notin {"put", "delete"} \/ c.op = ob_call[h].op,
             c.op = "put" => c.at = ob_call[h].at /\ c.clean = ob_call[h].clean,
             c.op = "put" \/ c.at \in {"promote", "stream"} => c.val # 0,
             c.at = "fallback" => c.op \in {"get", "open", "stat"},
             UNCHANGED <<ob_conf, ob_kept>>,
             Objects!Found(Objects!Primary) => Objects!Found(Objects!Primary)'
      PROVE  ob_call' \in [ob_Handlers -> Calls] /\ Solid' /\ NoClaim' /\ FirstWritten'
  BY <1>1, <1>4 DEF Solid, NoClaim, FirstWritten, Objects!Primary
\* The same for a call that is done, and for one that goes on to where nothing is written.
<1>5. ASSUME NEW h \in ob_Handlers, Objects!Done(h), UNCHANGED <<ob_conf, ob_kept>>,
             Objects!Found(Objects!Primary) => Objects!Found(Objects!Primary)'
      PROVE  ob_call' \in [ob_Handlers -> Calls] /\ Solid' /\ NoClaim' /\ FirstWritten'
  BY <1>4, <1>5, RestIsCall DEF Objects!Done
<1>6. ASSUME NEW h \in ob_Handlers, NEW where \in {"fallback", "promote", "stream"},
             NEW v \in 0 .. ob_MaxPuts, Objects!Goto(h, where, v),
             ob_call[h].op \in {"get", "open", "stat"}, where # "fallback" => v # 0,
             UNCHANGED <<ob_conf, ob_kept, ob_held>>
      PROVE  ob_call' \in [ob_Handlers -> Calls] /\ Solid' /\ NoClaim' /\ FirstWritten'
  <2> DEFINE c == Moved(ob_call[h], where, v)
  <2>1. c \in Calls /\ c.op = ob_call[h].op /\ c.at = where /\ c.val = v
    BY <1>1 DEF Calls, Moved
  <2>2. ob_call' = [ob_call EXCEPT ![h] = c]
    BY <1>1, <1>6 DEF Objects!Goto, Moved
  <2> HIDE DEF c
  <2>3. QED
    BY <1>4, <1>6, <2>1, <2>2 DEF Objects!Found, Objects!Primary
<1>7. ASSUME UNCHANGED <<ob_conf, ob_held, ob_kept>> PROVE StaysReadable'
  BY <1>1, <1>7 DEF StaysReadable, Objects!StaysReadable, Objects!Found, Objects!Primary,
    Objects!Other, Objects!HasFallback
\* A put of an object into one of the stores loses nothing.
<1>8. ASSUME NEW s \in Objects!Stores, NEW v \in 1 .. ob_MaxPuts, ob_held' = Objects!Stored(s, v),
             UNCHANGED ob_conf
      PROVE  /\ ob_held' \in [Objects!Stores -> 0 .. ob_MaxPuts]
             /\ Objects!Found(s)'
             /\ Objects!Found(Objects!Primary) => Objects!Found(Objects!Primary)'
             /\ StaysReadable /\ UNCHANGED ob_kept => StaysReadable'
  BY <1>1, <1>3, <1>8 DEF Objects!Stored, Objects!Found, Objects!Primary, Objects!Other,
    Objects!HasFallback, StaysReadable, Objects!StaysReadable
<1>9. ASSUME NEW h \in ob_Handlers, NEW op \in {"get", "open", "stat"}, Objects!Read(h, op)
      PROVE  ReadableInv'
  <2> DEFINE c == [Objects!Rest EXCEPT !.op = op, !.at = "primary", !.val = 0]
  <2>1. c \in Calls /\ c.op = op /\ c.at = "primary"
    BY RestIsCall, EmotePartsAssumption DEF Calls
  <2>2. ob_call' = [ob_call EXCEPT ![h] = c] /\ UNCHANGED <<ob_conf, ob_held, ob_promo, ob_puts, ob_kept>>
    BY <1>9 DEF Objects!Read, Objects!Call
  <2> HIDE DEF c
  <2>3. ob_call' \in [ob_Handlers -> Calls] /\ Solid' /\ NoClaim' /\ FirstWritten'
    BY <1>4, <2>1, <2>2 DEF Objects!Found, Objects!Primary
  <2>4. QED
    BY <1>1, <1>2, <1>7, <2>2, <2>3
<1>10. ASSUME NEW h \in ob_Handlers, Objects!ReadPrimary(h) PROVE ReadableInv'
  <2>1. /\ Objects!Done(h) \/ Objects!Goto(h, "fallback", 0)
        /\ ob_call[h].op \in {"get", "open", "stat"}
        /\ UNCHANGED <<ob_conf, ob_held, ob_promo, ob_puts, ob_kept>>
    BY <1>10 DEF Objects!ReadPrimary
  <2>2. ob_call' \in [ob_Handlers -> Calls] /\ Solid' /\ NoClaim' /\ FirstWritten'
    BY <1>5, <1>6, <2>1, EmotePartsAssumption DEF Objects!Found, Objects!Primary
  <2>3. QED
    BY <1>1, <1>2, <1>7, <2>1, <2>2
<1>11. ASSUME NEW h \in ob_Handlers, Objects!ReadFallback(h) PROVE ReadableInv'
  <2>1. /\ \/ Objects!Done(h)
           \/ /\ Objects!Found(Objects!Other)
              /\ \E where \in {"promote", "stream"} : Objects!Goto(h, where, Objects!Content(Objects!Other))
        /\ ob_call[h].op \in {"get", "open", "stat"}
        /\ UNCHANGED <<ob_conf, ob_held, ob_promo, ob_puts, ob_kept>>
    <3>1. ob_call[h].op \in {"get", "open", "stat"}
      BY <1>1, <1>11 DEF Objects!ReadFallback, Solid
    <3>2. QED
      BY <1>11, <3>1 DEF Objects!ReadFallback
  <2>2. CASE Objects!Done(h)
    BY <1>1, <1>2, <1>5, <1>7, <2>1, <2>2 DEF Objects!Found, Objects!Primary
  <2>3. ASSUME NEW where \in {"promote", "stream"}, Objects!Found(Objects!Other),
               Objects!Goto(h, where, Objects!Content(Objects!Other))
        PROVE  ReadableInv'
    <3>1. Objects!Content(Objects!Other) \in 0 .. ob_MaxPuts /\ Objects!Content(Objects!Other) # 0
      BY <1>1, <1>3, <2>3 DEF Objects!Content, Objects!Found
    <3>2. QED
      BY <1>1, <1>2, <1>6, <1>7, <2>1, <2>3, <3>1
  <2>4. QED
    BY <2>1, <2>2, <2>3
<1>12. ASSUME NEW h \in ob_Handlers, Objects!Promote(h) PROVE ReadableInv'
  <2>1. /\ Objects!Done(h) /\ UNCHANGED <<ob_conf, ob_promo, ob_puts, ob_kept>>
        /\ ob_held' = Objects!Stored(Objects!Primary, ob_call[h].val) \/ UNCHANGED ob_held
        /\ ob_call[h].val \in 1 .. ob_MaxPuts
    BY <1>1, <1>12 DEF Objects!Promote, Objects!Promotes, Solid, Calls
  <2>2. CASE UNCHANGED ob_held
    BY <1>1, <1>2, <1>5, <1>7, <2>1, <2>2 DEF Objects!Found, Objects!Primary
  <2>3. CASE ob_held' = Objects!Stored(Objects!Primary, ob_call[h].val)
    BY <1>1, <1>2, <1>3, <1>5, <1>8, <2>1, <2>3
  <2>4. QED
    BY <2>1, <2>2, <2>3
<1>13. ASSUME NEW h \in ob_Handlers, Objects!Stream(h) PROVE ReadableInv'
  <2>1. Objects!Done(h) /\ UNCHANGED <<ob_conf, ob_held, ob_puts, ob_kept>>
    BY <1>13 DEF Objects!Stream
  <2>2. ob_promo' \in [ob_Slots -> 0 .. ob_MaxPuts]
    BY <1>1, <1>13 DEF Objects!Stream, Calls
  <2>3. QED
    BY <1>1, <1>2, <1>5, <1>7, <2>1, <2>2 DEF Objects!Found, Objects!Primary
<1>14. ASSUME NEW s \in ob_Slots, Objects!PromoteRender(s) PROVE ReadableInv'
  <2> ob_promo' \in [ob_Slots -> 0 .. ob_MaxPuts]
    BY <1>1, <1>14, EmotePartsAssumption DEF Objects!PromoteRender
  <2>1. /\ UNCHANGED <<ob_conf, ob_call, ob_puts, ob_kept>>
        /\ ob_held' = Objects!Stored(Objects!Primary, ob_promo[s]) \/ UNCHANGED ob_held
        /\ ob_promo[s] \in 1 .. ob_MaxPuts
    BY <1>1, <1>14 DEF Objects!PromoteRender, Objects!Promotes
  <2>2. Solid' /\ NoClaim'
    BY <1>1, <2>1 DEF Solid, NoClaim
  <2>3. CASE UNCHANGED ob_held
    BY <1>1, <1>2, <1>7, <2>1, <2>2, <2>3 DEF FirstWritten, Objects!Found, Objects!Primary
  <2>4. CASE ob_held' = Objects!Stored(Objects!Primary, ob_promo[s])
    <3>1. /\ ob_held' \in [Objects!Stores -> 0 .. ob_MaxPuts] /\ StaysReadable'
          /\ Objects!Found(Objects!Primary) => Objects!Found(Objects!Primary)'
      BY <1>1, <1>3, <1>8, <2>1, <2>4
    <3>2. FirstWritten'
      BY <1>1, <2>1, <3>1 DEF FirstWritten
    <3>3. QED
      BY <1>1, <1>2, <2>1, <2>2, <3>1, <3>2
  <2>5. QED
    BY <2>1, <2>3, <2>4
<1>15. ASSUME NEW h \in ob_Handlers, Objects!Put(h) PROVE ReadableInv'
  <2> DEFINE clean == \A g \in ob_Handlers : ob_call[g].op # "delete"
             c == [op |-> "put", at |-> "primary", val |-> ob_puts + 1, clean |-> clean]
  <2> ob_puts + 1 \in 1 .. ob_MaxPuts
    BY <1>1, <1>15, EmotePartsAssumption DEF Objects!Put
  <2>1. /\ ob_call' = [ob_call EXCEPT ![h] = c] /\ ob_puts' = ob_puts + 1
        /\ UNCHANGED <<ob_conf, ob_held, ob_promo, ob_kept>>
    BY <1>15 DEF Objects!Put
  <2>2. clean \in BOOLEAN
    OBVIOUS
  <2> HIDE DEF clean
  <2>3. c \in Calls /\ c.op = "put" /\ c.at = "primary" /\ c.val # 0 /\ c.clean = clean
    BY <2>1, <2>2 DEF Calls
  <2> HIDE DEF c
  <2>4. ob_call' \in [ob_Handlers -> Calls] /\ Solid' /\ FirstWritten'
    BY <1>1, <2>1, <2>3 DEF Solid, FirstWritten, Objects!Found, Objects!Primary
  <2>5. NoClaim'
    <3>1. SUFFICES ASSUME NEW g \in ob_Handlers, ob_call'[g].op = "delete"
                   PROVE  ~ob_kept' /\ \A q \in ob_Handlers : ob_call'[q].op = "put" => ~ob_call'[q].clean
      BY DEF NoClaim
    <3>2. ob_call[g].op = "delete"
      BY <1>1, <2>1, <2>3, <3>1
    <3>3. ~clean
      BY <3>2 DEF clean
    <3>4. QED
      BY <1>1, <2>1, <2>3, <3>2, <3>3 DEF NoClaim
  <2>6. QED
    BY <1>1, <1>2, <1>7, <2>1, <2>4, <2>5
\* A put that is done is claimed to stay when no delete has overlapped it.
<1>16. ASSUME NEW h \in ob_Handlers, ob_call[h].op = "put", Objects!PutOk(h), UNCHANGED ob_conf,
              Objects!Found(Objects!Primary) => Objects!Found(Objects!Primary)'
       PROVE  /\ ob_call' \in [ob_Handlers -> Calls] /\ ob_kept' \in BOOLEAN
              /\ Solid' /\ NoClaim' /\ FirstWritten'
              /\ ob_kept' => ob_kept \/ ob_call[h].clean
  <2>1. ob_call' = [ob_call EXCEPT ![h] = Objects!Rest]
    BY <1>16 DEF Objects!PutOk, Objects!Done
  <2>2. ob_kept' \in BOOLEAN /\ (ob_kept' => ob_kept \/ ob_call[h].clean)
    BY <1>1, <1>16, Zenon DEF Objects!PutOk
  <2>3. ob_call' \in [ob_Handlers -> Calls] /\ Solid' /\ FirstWritten'
    BY <1>1, <1>16, <2>1, RestIsCall DEF Solid, FirstWritten, Objects!Primary
  <2>4. NoClaim'
    BY <1>1, <1>16, <2>1, <2>2, RestIsCall DEF NoClaim
  <2>5. QED
    BY <2>2, <2>3, <2>4
<1>17. ASSUME NEW h \in ob_Handlers, Objects!PutPrimary(h) PROVE ReadableInv'
  <2>1. /\ ob_call[h].op = "put" /\ ob_call[h].val \in 1 .. ob_MaxPuts
        /\ ob_held' = Objects!Stored(Objects!Primary, ob_call[h].val)
        /\ UNCHANGED <<ob_conf, ob_promo, ob_puts>>
    BY <1>1, <1>17 DEF Objects!PutPrimary, Solid, Calls
  <2>2. /\ ob_held' \in [Objects!Stores -> 0 .. ob_MaxPuts]
        /\ Objects!Found(Objects!Primary)'
        /\ StaysReadable'
    BY <1>1, <1>3, <1>8, <2>1 DEF StaysReadable, Objects!StaysReadable, Objects!Found, Objects!Primary
  <2>3. CASE Objects!Goto(h, "replica", ob_call[h].val) /\ UNCHANGED ob_kept
    <3> DEFINE c == Moved(ob_call[h], "replica", ob_call[h].val)
    <3>1. c \in Calls /\ c.op = "put" /\ c.at = "replica" /\ c.val # 0 /\ c.clean = ob_call[h].clean
      <4>1. ob_call[h] \in Calls
        BY <1>1
      <4>2. PICK v \in 0 .. ob_MaxPuts : v = ob_call[h].val
        BY <2>1
      <4>3. /\ Moved(ob_call[h], "replica", v) \in Calls
            /\ Moved(ob_call[h], "replica", v).op = ob_call[h].op
            /\ Moved(ob_call[h], "replica", v).at = "replica"
            /\ Moved(ob_call[h], "replica", v).val = v
            /\ Moved(ob_call[h], "replica", v).clean = ob_call[h].clean
        BY <4>1, GotoCall
      <4>4. QED
        BY <2>1, <4>2, <4>3
    <3>2. ob_call' = [ob_call EXCEPT ![h] = c]
      BY <1>1, <2>3 DEF Objects!Goto, Moved
    <3> HIDE DEF c
    <3>3. ob_call' \in [ob_Handlers -> Calls] /\ Solid' /\ FirstWritten'
      BY <1>1, <2>2, <3>1, <3>2 DEF Solid, FirstWritten
    <3>4. NoClaim'
      BY <1>1, <2>1, <2>3, <3>1, <3>2 DEF NoClaim
    <3>5. QED
      BY <1>1, <1>2, <2>1, <2>2, <2>3, <3>3, <3>4
  <2>4. CASE Objects!PutOk(h)
    BY <1>1, <1>2, <1>16, <2>1, <2>2, <2>4
  <2>5. QED
    BY <1>17, <2>3, <2>4 DEF Objects!PutPrimary
<1>18. ASSUME NEW h \in ob_Handlers, Objects!PutReplica(h) PROVE ReadableInv'
  <2>1. /\ ob_call[h].op = "put" /\ ob_call[h].at = "replica" /\ ob_call[h].val \in 1 .. ob_MaxPuts
        /\ ob_held' = Objects!Stored(Objects!Other, ob_call[h].val)
        /\ Objects!PutOk(h) /\ UNCHANGED <<ob_conf, ob_promo, ob_puts>>
    BY <1>1, <1>18 DEF Objects!PutReplica, Solid, Calls
  <2>2. /\ ob_held' \in [Objects!Stores -> 0 .. ob_MaxPuts]
        /\ Objects!Found(Objects!Primary) => Objects!Found(Objects!Primary)'
    BY <1>3, <1>8, <2>1
  <2>3. /\ ob_call' \in [ob_Handlers -> Calls] /\ ob_kept' \in BOOLEAN
        /\ Solid' /\ NoClaim' /\ FirstWritten'
        /\ ob_kept' => ob_kept \/ ob_call[h].clean
    BY <1>16, <2>1, <2>2
  <2>4. ob_kept' => Objects!Found(Objects!Primary) \/ (Objects!HasFallback /\ Objects!Found(Objects!Other))
    BY <1>1, <2>1, <2>3 DEF FirstWritten, StaysReadable, Objects!StaysReadable
  <2>5. StaysReadable'
    BY <1>1, <2>1, <2>2, <2>4 DEF Objects!Stored, StaysReadable, Objects!StaysReadable, Objects!HasFallback, Objects!Found,
      Objects!Other, Objects!Primary
  <2>6. QED
    BY <1>1, <1>2, <2>1, <2>2, <2>3, <2>5
<1>19. ASSUME NEW h \in ob_Handlers, Objects!PutFails(h) PROVE ReadableInv'
  <2>1. /\ Objects!Done(h) /\ ob_call[h].val \in 1 .. ob_MaxPuts
        /\ UNCHANGED <<ob_conf, ob_promo, ob_puts, ob_kept>>
        /\ UNCHANGED ob_held \/ \E s \in Objects!Stores : ob_held' = Objects!Stored(s, ob_call[h].val)
    BY <1>1, <1>3, <1>19 DEF Objects!PutFails, Solid, Calls
  <2>2. CASE UNCHANGED ob_held
    BY <1>1, <1>2, <1>5, <1>7, <2>1, <2>2 DEF Objects!Found, Objects!Primary
  <2>3. ASSUME NEW s \in Objects!Stores, ob_held' = Objects!Stored(s, ob_call[h].val) PROVE ReadableInv'
    BY <1>1, <1>2, <1>5, <1>8, <2>1, <2>3
  <2>4. QED
    BY <2>1, <2>2, <2>3
<1>20. ASSUME NEW h \in ob_Handlers, Objects!Delete(h) PROVE ReadableInv'
  <2> DEFINE c == [Objects!Rest EXCEPT !.op = "delete", !.at = "primary"]
             unclean(g) == [ob_call[g] EXCEPT !.clean = FALSE]
  <2>1. c \in Calls /\ c.op = "delete" /\ c.at = "primary"
    BY RestIsCall DEF Calls
  <2>2. \A g \in ob_Handlers : /\ unclean(g) \in Calls /\ ~unclean(g).clean
                               /\ unclean(g).op = ob_call[g].op /\ unclean(g).val = ob_call[g].val
                               /\ unclean(g).at = ob_call[g].at
    BY <1>1 DEF Calls
  <2>3. /\ ob_call' = [g \in ob_Handlers |-> IF g = h THEN c
                                            ELSE IF ob_call[g].op = "put" THEN unclean(g) ELSE ob_call[g]]
        /\ ~ob_kept' /\ ob_kept' \in BOOLEAN /\ UNCHANGED <<ob_conf, ob_held, ob_promo, ob_puts>>
    BY <1>20 DEF Objects!Delete
  <2> HIDE DEF c, unclean
  <2>4. ob_call' \in [ob_Handlers -> Calls] /\ Solid' /\ NoClaim' /\ FirstWritten'
    BY <1>1, <2>1, <2>2, <2>3 DEF Solid, NoClaim, FirstWritten
  <2>5. QED
    BY <1>1, <1>2, <2>3, <2>4 DEF StaysReadable, Objects!StaysReadable
\* A step of a delete, of which nobody claims anything.
<1>21. ASSUME NEW h \in ob_Handlers, ob_call[h].op = "delete",
              Objects!Done(h) \/ Objects!Goto(h, "replica", 0),
              NEW s \in Objects!Stores, Objects!Erase(s), UNCHANGED <<ob_conf, ob_promo, ob_puts, ob_kept>>
       PROVE  ReadableInv'
  <2>1. PICK c \in Calls : /\ ob_call' = [ob_call EXCEPT ![h] = c]
                           /\ c.op \in {"none", "delete"} /\ c.at \in {"idle", "replica"}
    <3>1. CASE Objects!Done(h)
      BY <3>1, RestIsCall DEF Objects!Done
    <3>2. CASE Objects!Goto(h, "replica", 0)
      <4> DEFINE c == Moved(ob_call[h], "replica", 0)
      <4>1. c \in Calls /\ c.op = "delete" /\ c.at = "replica"
        <5>1. ob_call[h] \in Calls /\ 0 \in 0 .. ob_MaxPuts
          BY <1>1, EmotePartsAssumption
        <5>2. QED
          BY <1>21, <5>1, GotoCall
      <4>2. ob_call' = [ob_call EXCEPT ![h] = c]
        BY <1>1, <3>2 DEF Objects!Goto, Moved
      <4> HIDE DEF c
      <4>3. QED
        BY <4>1, <4>2
    <3>3. QED
      BY <1>21, <3>1, <3>2
  <2>2. ob_held' \in [Objects!Stores -> 0 .. ob_MaxPuts]
    BY <1>1, <1>21, EmotePartsAssumption DEF Objects!Erase, Objects!Removed
  <2>3. ~ob_kept /\ \A g \in ob_Handlers : ob_call[g].op = "put" => ~ob_call[g].clean
    BY <1>1, <1>21 DEF NoClaim
  <2>4. ob_call' \in [ob_Handlers -> Calls] /\ Solid' /\ NoClaim' /\ FirstWritten'
    BY <1>1, <1>21, <2>1, <2>3 DEF Solid, NoClaim, FirstWritten
  <2>5. QED
    BY <1>1, <1>2, <1>21, <2>2, <2>3, <2>4 DEF StaysReadable, Objects!StaysReadable
<1>22. ASSUME NEW h \in ob_Handlers, Objects!DeletePrimary(h) \/ Objects!DeleteReplica(h)
       PROVE  ReadableInv'
  BY <1>3, <1>21, <1>22 DEF Objects!DeletePrimary, Objects!DeleteReplica
<1>23. CASE Objects!Restart
  <2>1. PICK c \in Objects!Configs : ob_conf' = c /\ ob_kept' = (ob_kept /\ c.second /\ c.through)
    BY <1>23 DEF Objects!Restart
  <2>2. /\ ob_call' = [h \in ob_Handlers |-> Objects!Rest] /\ ob_promo' = [s \in ob_Slots |-> 0]
        /\ UNCHANGED <<ob_held, ob_puts>>
    BY <1>23 DEF Objects!Restart
  <2>3. ob_call' \in [ob_Handlers -> Calls] /\ Solid' /\ NoClaim' /\ FirstWritten'
    BY <2>2, RestIsCall DEF Solid, NoClaim, FirstWritten
  <2>4. ob_kept' \in BOOLEAN /\ (ob_kept' => ob_kept /\ ob_conf'.second /\ ob_conf'.through)
    BY <2>1, Zenon
  <2>5. ob_kept => \E s \in Objects!Stores : ob_held[s] # 0
    BY <1>1, <1>3 DEF StaysReadable, Objects!StaysReadable, Objects!Found
  <2>6. StaysReadable'
    BY <2>2, <2>4, <2>5 DEF StaysReadable, Objects!StaysReadable, Objects!Found, Objects!HasFallback,
      Objects!Primary, Objects!Other, Objects!Stores
  <2>7. ob_promo' \in [ob_Slots -> 0 .. ob_MaxPuts]
    BY <2>2, EmotePartsAssumption
  <2>8. QED
    BY <1>1, <1>2, <2>1, <2>2, <2>3, <2>4, <2>6, <2>7
<1>24. CASE UNCHANGED Objects!vars
  BY <1>1, <1>2, <1>7, <1>24 DEF Objects!vars, Solid, NoClaim, FirstWritten, Objects!Found, Objects!Primary
<1>25. QED
  BY <1>9, <1>10, <1>11, <1>12, <1>13, <1>14, <1>15, <1>17, <1>18, <1>19, <1>20, <1>22, <1>23, <1>24
    DEF Objects!Next

\* Whatever fails and whoever reads, promotes, puts or deletes at the same time: what was put
\* with success, and not deleted since, is in a store that reads go to, as long as no restart
\* since has had one store alone or reads that do not fall back (read_through.go).
THEOREM PutStaysReadable == Objects!Spec => [](Objects!TypeOK /\ StaysReadable)
<1>1. ReadableInv => Objects!TypeOK /\ StaysReadable
  BY DEF ReadableInv
<1>2. QED
  BY ReadableInit, ReadableStep, <1>1, PTL DEF Objects!Spec

-----------------------------------------------------------------------------
(* RenderHints: one hint under one guard.                                   *)

\* Who is about to push has the guard to themselves, and nobody has pushed under it.
Alone ==
  \A p \in hi_Chats, e \in hi_Emotes : hi_pub[p][e] = "push" =>
    /\ e \in hi_guard /\ hi_pushed[e] = 0
    /\ \A q \in hi_Chats : hi_pub[q][e] = "push" => q = p

HintInv == Hints!TypeOK /\ Alone /\ OneHint

LEMMA HintInit == Hints!Init => HintInv
BY EmotePartsAssumption DEF Hints!Init, HintInv, Hints!TypeOK, Alone, OneHint, Hints!OneHint

LEMMA HintStep == HintInv /\ [Hints!Next]_(Hints!vars) => HintInv'
<1> SUFFICES ASSUME HintInv, [Hints!Next]_(Hints!vars) PROVE HintInv'
  OBVIOUS
<1> USE EmotePartsAssumption DEF HintInv, OneHint, Hints!OneHint, Hints!redis
<1>1. ASSUME NEW p \in hi_Chats, NEW e \in hi_Emotes, Hints!TryPublish(p, e) PROVE HintInv'
  BY <1>1 DEF Hints!TryPublish, Hints!TypeOK, Alone
<1>2. ASSUME NEW p \in hi_Chats, NEW e \in hi_Emotes, Hints!WindowEnds(p, e) PROVE HintInv'
  BY <1>2 DEF Hints!WindowEnds, Hints!TypeOK, Alone
\* The goroutine that finds no guard is the only one between its guard and its hint.
<1>3. ASSUME NEW p \in hi_Chats, NEW e \in hi_Emotes, Hints!SetNX(p, e) PROVE HintInv'
  <2>1. CASE e \in hi_guard
    <3>1. /\ hi_pub' = [hi_pub EXCEPT ![p][e] = "none"]
          /\ hi_guard' = hi_guard
          /\ UNCHANGED <<hi_pushed, hi_seen, hi_list, hi_taken, hi_spent>>
      BY <1>3, <2>1 DEF Hints!SetNX, Hints!Ends
    <3>2. QED
      BY <3>1 DEF Hints!TypeOK, Alone
  <2>2. CASE e \notin hi_guard
    <3>1. /\ hi_pub' = [hi_pub EXCEPT ![p][e] = "push"]
          /\ hi_guard' = hi_guard \cup {e}
          /\ hi_pushed' = [hi_pushed EXCEPT ![e] = 0]
          /\ UNCHANGED <<hi_seen, hi_list, hi_taken, hi_spent>>
      BY <1>3, <2>2 DEF Hints!SetNX
    <3>2. \A q \in hi_Chats : hi_pub[q][e] # "push"
      BY <2>2 DEF Alone
    <3>3. Hints!TypeOK'
      BY <3>1 DEF Hints!TypeOK
    <3>4. Alone' /\ OneHint'
      BY <3>1, <3>2 DEF Hints!TypeOK, Alone
    <3>5. QED
      BY <3>3, <3>4
  <2>3. QED
    BY <2>1, <2>2
<1>4. ASSUME NEW p \in hi_Chats, NEW e \in hi_Emotes, Hints!Push(p, e) PROVE HintInv'
  <2>1. hi_list' \in Seq(hi_Emotes) /\ Len(hi_list') <= hi_MaxLen
    BY <1>4 DEF Hints!Push, Hints!TypeOK
  <2>2. Hints!TypeOK'
    BY <1>4, <2>1 DEF Hints!Push, Hints!Ends, Hints!TypeOK
  <2>3. Alone' /\ OneHint'
    BY <1>4 DEF Hints!Push, Hints!Ends, Hints!TypeOK, Alone
  <2>4. QED
    BY <2>2, <2>3
<1>5. ASSUME NEW p \in hi_Chats, NEW e \in hi_Emotes, Hints!PublishFails(p, e) PROVE HintInv'
  BY <1>5 DEF Hints!PublishFails, Hints!Ends, Hints!TypeOK, Alone
<1>6. ASSUME NEW e \in hi_Emotes, Hints!GuardExpires(e) PROVE HintInv'
  BY <1>6 DEF Hints!GuardExpires, Hints!TypeOK, Alone
<1>7. CASE Hints!Pop
  <2>1. hi_list' \in Seq(hi_Emotes) /\ Len(hi_list') <= hi_MaxLen /\ hi_taken' \in hi_Emotes
    BY <1>7 DEF Hints!Pop, Hints!TypeOK
  <2>2. QED
    BY <1>7, <2>1 DEF Hints!Pop, Hints!TypeOK, Alone
<1>8. CASE Hints!Admit \/ Hints!Refuse \/ Hints!MinuteEnds
  BY <1>8 DEF Hints!Admit, Hints!Refuse, Hints!MinuteEnds, Hints!TypeOK, Alone
<1>9. CASE UNCHANGED Hints!vars
  BY <1>9 DEF Hints!vars, Hints!TypeOK, Alone
<1>10. QED
  BY <1>1, <1>2, <1>3, <1>4, <1>5, <1>6, <1>7, <1>8, <1>9 DEF Hints!Next

\* However many chat processes see an emote at the same time, one hint at most is pushed
\* while its guard is set (PublishObserveDeduped in observe_pub.go), and the list stays
\* within its length.
THEOREM OneHintPerGuard == Hints!Spec => [](Hints!TypeOK /\ OneHint)
<1>1. HintInv => Hints!TypeOK /\ OneHint
  BY DEF HintInv
<1>2. QED
  BY HintInit, HintStep, <1>1, PTL DEF Hints!Spec
=============================================================================
