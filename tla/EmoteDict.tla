----------------------------- MODULE EmoteDict -----------------------------
(***************************************************************************)
(* The emote dictionary of one channel: handlers of the emote service      *)
(* change the channel's set in PostgreSQL and patch or rebuild the         *)
(* dictionary in Redis (internal/emote/api/api.go, emote/seeder,           *)
(* emote/dict/dict.go), the render workers have it rebuilt when an emote   *)
(* becomes ready (emote/worker/worker.go), and the enricher of the chat    *)
(* service loads it and follows its deltas (chat/enrich/enrich.go).        *)
(*                                                                         *)
(* A step is one statement of PostgreSQL, one command, script or           *)
(* transaction of Redis, or one turn of a goroutine between two of them.   *)
(* An entry of a dictionary is an emote under a name, its own or an alias  *)
(* of the channel; URLs and two emotes of one name are left out, and so is *)
(* Invalidate, which nothing calls.  A Redis hash without entries does not *)
(* exist, so the empty set is the missing dictionary.                      *)
(***************************************************************************)
EXTENDS Naturals

CONSTANTS
  Emotes,
  Aliased,     (* the emotes that handlers may add under an alias           *)
  Handlers,    (* goroutines of the emote service that change the set       *)
  Loop,        (* dictionaryLoop, which rebuilds for the render workers     *)
  MaxEdits,    (* bound: statements that change items or an emote's status  *)
  MaxExpiries, (* bound: expiries of the dictionary                         *)
  MaxFaults    (* bound: failed calls and restarts of the emote service     *)

ASSUME EmoteDictAssumption ==
  /\ Loop \notin Handlers /\ Aliased \subseteq Emotes
  /\ MaxEdits \in Nat /\ MaxExpiries \in Nat /\ MaxFaults \in Nat

Writers == Handlers \cup {Loop}

\* An item of a set, and a field of the hash: the emote and which name it goes by.
Entries == (Emotes \X {"own"}) \cup (Aliased \X {"alias"})

\* Sets of items: no emote is in one twice, and a global one is nowhere an item.
ItemSets == {S \in SUBSET Entries : \A x, y \in S : x[1] = y[1] => x = y}

VARIABLES
  items, ready,    (* PostgreSQL: the items found under the channel's login with  *)
                   (* the global emotes, and the emotes of status 1         *)
  hash, bounded,   (* Redis: the dictionary, and whether it has an expiry   *)
  left,            (* history: entries a patch left, of its emote by another name *)
  wpc, todo, got,  (* per writer: program counter, entry of a patch, entries read *)
  owed,            (* emotes activated whose channels are not queued yet    *)
  queued, dirty,   (* dirtyChannels, and whether the channel is pending     *)
  epc, trie,       (* the enricher's program counter, and what it has read  *)
  served,          (* the dictionary that messages are tokenized with       *)
  inbox, timer,    (* deltas not yet received, and the debounce timer       *)
  edits, expiries, faults, (* what the bounds count                         *)
  outdated,        (* history: a write to Redis no longer agreed with PostgreSQL,  *)
                   (* or PostgreSQL was changed for another channel         *)
  gap              (* history: a delta went out between first load and subscription  *)

dbVars       == <<items, ready>>
redisVars    == <<hash, bounded, left>>
writerVars   == <<wpc, todo, got>>
queueVars    == <<owed, queued, dirty>>
enricherVars == <<epc, trie, served, timer>>
vars == <<dbVars, redisVars, writerVars, queueVars, enricherVars, inbox,
          edits, expiries, faults, outdated, gap>>

TypeOK ==
  /\ items \in SUBSET Entries /\ ready \in SUBSET Emotes
  /\ hash \in SUBSET Entries /\ bounded \in BOOLEAN /\ left \in SUBSET Entries
  /\ bounded => hash # {}
  /\ wpc \in [Writers -> {"idle", "add", "remove", "sync", "read", "exec", "publish"}]
  /\ wpc[Loop] \notin {"add", "remove", "sync"}
  /\ todo \in [Handlers -> (Emotes \X {"own", "alias", "id"}) \cup {Loop}]
  /\ \A h \in Handlers : wpc[h] = "add" => todo[h] \in Entries
  /\ got \in [Writers -> SUBSET Entries]
  /\ owed \in SUBSET Emotes /\ queued \in Nat /\ dirty \in BOOLEAN
  /\ epc \in {"none", "load", "loaded", "subscribe", "listen", "reload", "swap"}
  /\ trie \in SUBSET Entries /\ served \in SUBSET Entries
  /\ inbox \in Nat /\ timer \in BOOLEAN
  /\ edits \in 0 .. MaxEdits /\ expiries \in 0 .. MaxExpiries /\ faults \in 0 .. MaxFaults
  /\ outdated \in BOOLEAN /\ gap \in BOOLEAN

\* What a rebuild finds: items of the active set whose emote is ready.
ChannelEmotes == {x \in items : x[1] \in ready}

Init ==
  /\ items \in ItemSets /\ ready \in SUBSET Emotes /\ left = {}
  /\ hash \in {{}, ChannelEmotes} /\ bounded \in {FALSE, hash # {}}
  /\ wpc = [w \in Writers |-> "idle"]
  /\ todo = [h \in Handlers |-> Loop]
  /\ got = [w \in Writers |-> {}]
  /\ owed = {} /\ queued = 0 /\ dirty = FALSE
  /\ epc = "none" /\ trie = {} /\ served = {} /\ inbox = 0 /\ timer = FALSE
  /\ edits = 0 /\ expiries = 0 /\ faults = 0
  /\ outdated = FALSE /\ gap = FALSE

-----------------------------------------------------------------------------
(* Handlers change the set.                                                *)

Goto(w, at) == wpc' = [wpc EXCEPT ![w] = at]

Edit(h, from, at) ==
  /\ wpc[h] \in from
  /\ edits < MaxEdits
  /\ edits' = edits + 1
  /\ Goto(h, at)
  /\ UNCHANGED <<ready, redisVars, got, queueVars, enricherVars, inbox, expiries,
                 outdated, gap>>

Fault == faults < MaxFaults /\ faults' = faults + 1

Without(e) == {x \in items : x[1] # e}

\* An emote that is in the set already goes by the new name from now on.
AddItem(h, x) ==
  /\ Edit(h, {"idle"}, "add")
  /\ items' = Without(x[1]) \cup {x}
  /\ todo' = [todo EXCEPT ![h] = x]
  /\ UNCHANGED faults

\* Whatever the item's alias, the patch is to remove the emote's own name, or its id, which
\* no entry goes by, when the emote could not be read before.
RemoveItem(h, e) ==
  /\ Edit(h, {"idle"}, "remove")
  /\ items' = Without(e)
  /\ \/ todo' = [todo EXCEPT ![h] = <<e, "own">>] /\ UNCHANGED faults
     \/ todo' = [todo EXCEPT ![h] = <<e, "id">>] /\ Fault

\* One statement of many (a set synchronised or seeded), or the only one (another
\* active set, or, with the same items, an ensure).
SetItems(h, S) ==
  /\ Edit(h, {"idle", "sync"}, "sync")
  /\ items' = S
  /\ UNCHANGED <<todo, faults>>

\* Another channel's handler changes a set that this channel shares, and patches or rebuilds
\* the other's dictionary only, as it does when it renames an emote; or the channel is put
\* under another login, or back, with no rebuild to follow.
ItemsElsewhere(S) ==
  /\ edits < MaxEdits
  /\ edits' = edits + 1
  /\ items' = S
  /\ outdated' = (outdated \/ S # items)
  /\ UNCHANGED <<ready, redisVars, writerVars, queueVars, enricherVars, inbox, expiries,
                 faults, gap>>

SetDone(h) ==
  /\ wpc[h] = "sync"
  /\ Goto(h, "read")
  /\ UNCHANGED <<dbVars, redisVars, todo, got, queueVars, enricherVars, inbox, edits,
                 expiries, faults, outdated, gap>>

-----------------------------------------------------------------------------
(* Patches and rebuilds.                                                   *)

\* What a patch leaves in the dictionary: its emote by another name than the one patched.
Strays(x, S) == {y \in S : y[1] = x[1] /\ y # x /\ y \notin items}

\* Mutant: a patch creates the dictionary that is not there.
PatchAnyway(h) ==
  /\ wpc[h] \in {"add", "remove"}
  /\ hash' = IF wpc[h] = "add" THEN hash \cup {todo[h]} ELSE hash \ {todo[h]}
  /\ bounded' = (hash' # {})
  /\ left' = left \cup Strays(todo[h], hash')
  /\ outdated' = (outdated \/ (wpc[h] = "add") # (todo[h] \in items))
  /\ Goto(h, "publish")
  /\ UNCHANGED <<dbVars, todo, got, queueVars, enricherVars, inbox, edits, expiries,
                 faults, gap>>

Patch(h) ==
  /\ wpc[h] \in {"add", "remove"}
  /\ hash # {}
  /\ hash' = IF wpc[h] = "add" THEN hash \cup {todo[h]} ELSE hash \ {todo[h]}
  /\ bounded' = (hash' # {})
  /\ left' = left \cup Strays(todo[h], hash')
  /\ outdated' = (outdated \/ (wpc[h] = "add") # (todo[h] \in items))
  /\ Goto(h, "publish")
  /\ UNCHANGED <<dbVars, todo, got, queueVars, enricherVars, inbox, edits, expiries,
                 faults, gap>>

PatchMissing(h) ==
  /\ wpc[h] \in {"add", "remove"}
  /\ hash = {}
  /\ Goto(h, "read")
  /\ UNCHANGED <<dbVars, redisVars, todo, got, queueVars, enricherVars, inbox, edits,
                 expiries, faults, outdated, gap>>

Read(w) ==
  /\ wpc[w] = "read"
  /\ got' = [got EXCEPT ![w] = ChannelEmotes]
  /\ Goto(w, "exec")
  /\ UNCHANGED <<dbVars, redisVars, todo, queueVars, enricherVars, inbox, edits,
                 expiries, faults, outdated, gap>>

\* The transaction: fill a staging key, give it the expiry, rename it over the live key.
Rebuild(w) ==
  /\ wpc[w] = "exec"
  /\ hash' = got[w] /\ left' = {}
  /\ bounded' = (got[w] # {})
  /\ outdated' = (outdated \/ got[w] # ChannelEmotes)
  /\ Goto(w, "publish")
  /\ UNCHANGED <<dbVars, todo, got, queueVars, enricherVars, inbox, edits, expiries,
                 faults, gap>>

\* The transaction is rejected; the old dictionary gets an expiry if Redis still answers.
RebuildRejected(w) ==
  /\ wpc[w] = "exec"
  /\ Fault
  /\ bounded' \in {bounded, hash # {}}
  /\ Goto(w, "idle")
  /\ UNCHANGED <<dbVars, hash, left, todo, got, queueVars, enricherVars, inbox, edits,
                 expiries, outdated, gap>>

Subscribed == epc \in {"listen", "reload", "swap"}

\* The delta reaches the enricher if it has subscribed.
Publish(w) ==
  /\ wpc[w] = "publish"
  /\ inbox' = IF Subscribed THEN inbox + 1 ELSE inbox
  /\ gap' = (gap \/ epc \in {"loaded", "subscribe"})
  /\ Goto(w, "idle")
  /\ UNCHANGED <<dbVars, redisVars, todo, got, queueVars, enricherVars, edits, expiries,
                 faults, outdated>>

\* A statement, a patch or a delta fails: the writer gives up.
Fails(w) ==
  /\ wpc[w] \in {"add", "remove", "sync", "read", "publish"}
  /\ Fault
  /\ Goto(w, "idle")
  /\ UNCHANGED <<dbVars, redisVars, todo, got, queueVars, enricherVars, inbox, edits,
                 expiries, outdated, gap>>

-----------------------------------------------------------------------------
(* Render workers and dictionaryLoop.                                      *)

Status(S) ==
  /\ edits < MaxEdits
  /\ edits' = edits + 1
  /\ ready' = S
  /\ UNCHANGED <<items, redisVars, writerVars, queued, dirty, enricherVars, inbox,
                 expiries, faults, gap>>

Activate(e) ==
  /\ e \notin owed
  /\ Status(ready \cup {e})
  /\ owed' = owed \cup {e}
  /\ UNCHANGED outdated

\* A job of the emote is given up.
GiveUp(e) ==
  /\ e \in ready
  /\ Status(ready \ {e})
  /\ UNCHANGED <<owed, outdated>>

\* An ensure or a synchronisation of another channel makes a provider's emote ready,
\* and has the dictionary of that channel rebuilt, not of this one.
MetadataReady(e) ==
  /\ e \notin ready
  /\ Status(ready \cup {e})
  /\ outdated' = (outdated \/ Without(e) # items)
  /\ UNCHANGED owed

QueueAffected(e) ==
  /\ e \in owed
  /\ owed' = owed \ {e}
  /\ queued' = IF Without(e) # items THEN queued + 1 ELSE queued
  /\ UNCHANGED <<dbVars, redisVars, writerVars, dirty, enricherVars, inbox, edits,
                 expiries, faults, outdated, gap>>

\* The channels cannot be read, or the queue is full.
QueueDrops(e) ==
  /\ e \in owed
  /\ Fault
  /\ owed' = owed \ {e}
  /\ UNCHANGED <<dbVars, redisVars, writerVars, queued, dirty, enricherVars, inbox,
                 edits, expiries, outdated, gap>>

TakeDirty ==
  /\ wpc[Loop] = "idle"
  /\ queued > 0
  /\ queued' = queued - 1
  /\ dirty' = TRUE
  /\ UNCHANGED <<dbVars, redisVars, writerVars, owed, enricherVars, inbox, edits,
                 expiries, faults, outdated, gap>>

\* Mutant: the batch is taken when pending has been cleared, and is empty.
RebuildNothing ==
  /\ wpc[Loop] = "idle"
  /\ dirty
  /\ dirty' = FALSE
  /\ Goto(Loop, "idle")
  /\ UNCHANGED <<dbVars, redisVars, todo, got, owed, queued, enricherVars, inbox, edits,
                 expiries, faults, outdated, gap>>

\* The debounce timer fires.
RebuildDirty ==
  /\ wpc[Loop] = "idle"
  /\ dirty
  /\ dirty' = FALSE
  /\ Goto(Loop, "read")
  /\ UNCHANGED <<dbVars, redisVars, todo, got, owed, queued, enricherVars, inbox, edits,
                 expiries, faults, outdated, gap>>

-----------------------------------------------------------------------------
(* The dictionary expires, gets its expiry, or loses its writers.          *)

Expire ==
  /\ bounded
  /\ expiries < MaxExpiries
  /\ expiries' = expiries + 1
  /\ hash' = {} /\ bounded' = FALSE /\ left' = {}
  /\ UNCHANGED <<dbVars, writerVars, queueVars, enricherVars, inbox, edits, faults,
                 outdated, gap>>

\* BackfillLegacyTTLs comes by a dictionary that has no expiry.
Backfill ==
  /\ hash # {} /\ ~bounded
  /\ bounded' = TRUE
  /\ UNCHANGED <<dbVars, hash, left, writerVars, queueVars, enricherVars, inbox, edits,
                 expiries, faults, outdated, gap>>

\* The emote service ends and comes back.
Restart ==
  /\ Fault
  /\ wpc' = [w \in Writers |-> "idle"]
  /\ owed' = {} /\ queued' = 0 /\ dirty' = FALSE
  /\ UNCHANGED <<dbVars, redisVars, todo, got, enricherVars, inbox, edits, expiries,
                 outdated, gap>>

-----------------------------------------------------------------------------
(* The enricher.                                                           *)

Enrich(from, to) ==
  /\ epc = from
  /\ epc' = to
  /\ UNCHANGED <<dbVars, redisVars, writerVars, queueVars, edits, expiries, outdated,
                 gap>>

\* The first message of the channel: an empty dictionary is there for all to use.
Ensure ==
  /\ Enrich("none", "load")
  /\ UNCHANGED <<trie, served, timer, inbox, faults>>

Load ==
  /\ Enrich("load", "loaded")
  /\ trie' = hash
  /\ UNCHANGED <<served, timer, inbox, faults>>

LoadFails ==
  /\ Enrich("load", "loaded")
  /\ Fault
  /\ trie' = {}
  /\ UNCHANGED <<served, timer, inbox>>

FirstSwap ==
  /\ Enrich("loaded", "subscribe")
  /\ served' = trie
  /\ UNCHANGED <<trie, timer, inbox, faults>>

Subscribe ==
  /\ Enrich("subscribe", "listen")
  /\ UNCHANGED <<trie, served, timer, inbox, faults>>

\* Mutant: a delta that finds no timer running starts none.
ReceiveIdly ==
  /\ Enrich("listen", "listen")
  /\ inbox > 0
  /\ inbox' = inbox - 1
  /\ UNCHANGED <<trie, served, timer, faults>>

\* A delta starts the debounce timer, or starts it again.
Receive ==
  /\ Enrich("listen", "listen")
  /\ inbox > 0
  /\ inbox' = inbox - 1
  /\ timer' = TRUE
  /\ UNCHANGED <<trie, served, faults>>

TimerFires ==
  /\ Enrich("listen", "reload")
  /\ timer
  /\ timer' = FALSE
  /\ UNCHANGED <<trie, served, inbox, faults>>

Reload ==
  /\ Enrich("reload", "swap")
  /\ hash # {}
  /\ trie' = hash
  /\ UNCHANGED <<served, timer, inbox, faults>>

\* The dictionary is missing: what is served stays.
ReloadMissing ==
  /\ Enrich("reload", "listen")
  /\ hash = {}
  /\ UNCHANGED <<trie, served, timer, inbox, faults>>

ReloadFails ==
  /\ Enrich("reload", "listen")
  /\ Fault
  /\ UNCHANGED <<trie, served, timer, inbox>>

Swap ==
  /\ Enrich("swap", "listen")
  /\ served' = trie
  /\ UNCHANGED <<trie, timer, inbox, faults>>

-----------------------------------------------------------------------------

Writer(w) == Read(w) \/ Rebuild(w) \/ RebuildRejected(w) \/ Publish(w) \/ Fails(w)

Handler(h) ==
  \/ \E x \in Entries : AddItem(h, x)
  \/ \E e \in Emotes : RemoveItem(h, e)
  \/ \E S \in ItemSets : SetItems(h, S)
  \/ SetDone(h) \/ Patch(h) \/ PatchMissing(h)

Enricher ==
  \/ Ensure \/ Load \/ LoadFails \/ FirstSwap \/ Subscribe
  \/ Receive \/ TimerFires \/ Reload \/ ReloadMissing \/ ReloadFails \/ Swap

Next ==
  \/ \E w \in Writers : Writer(w)
  \/ \E h \in Handlers : Handler(h)
  \/ \E e \in Emotes : \/ Activate(e) \/ GiveUp(e) \/ MetadataReady(e)
                     \/ QueueAffected(e) \/ QueueDrops(e)
  \/ \E S \in ItemSets : ItemsElsewhere(S)
  \/ TakeDirty \/ RebuildDirty
  \/ Expire \/ Backfill \/ Restart
  \/ Enricher

Spec == Init /\ [][Next]_vars

\* What has begun goes on: requests, the loop, the enricher once a message has come.
\* Nothing makes a request, an activation or an expiry come.
Fairness ==
  /\ \A w \in Writers : WF_vars(Read(w) \/ Rebuild(w) \/ Publish(w))
  /\ \A h \in Handlers : WF_vars(SetDone(h) \/ Patch(h) \/ PatchMissing(h))
  /\ \A e \in Emotes : WF_vars(QueueAffected(e))
  /\ WF_vars(TakeDirty) /\ WF_vars(RebuildDirty)
  /\ WF_vars(Load \/ FirstSwap \/ Subscribe \/ Reload \/ ReloadMissing \/ Swap)
  /\ WF_vars(Receive) /\ WF_vars(TimerFires)

FairSpec == Spec /\ Fairness

-----------------------------------------------------------------------------
(* Properties.                                                             *)

\* A writer is on its way to Redis that will put right what Redis says of e.
Coming(e) ==
  \/ queued > 0 \/ dirty
  \/ \E w \in Writers : wpc[w] \in {"sync", "read", "exec"}
  \/ \E h \in Handlers : wpc[h] \in {"add", "remove"} /\ todo[h][1] = e

\* As long as no call fails, no write to Redis has been overtaken by a change of
\* PostgreSQL and PostgreSQL was not changed for another channel, a dictionary that is
\* there holds every ready emote of the set under the name it has there, and nothing else,
\* or somebody is on the way to put that right (api.go:280-309, 801-834, 922-980,
\* worker.go:178-269): patches, rebuilds and the debounced rebuilds of the render workers
\* together leave nothing out.  What patches do leave, until the next rebuild, is the
\* emote they are about under another name: the alias of an item that is removed, or the
\* name an item had before it was added once more (api.go:300-305, 922-944).
Truthful ==
  faults = 0 /\ ~outdated /\ hash # {} =>
    /\ \A x \in ChannelEmotes \ hash : x[1] \in owed \/ Coming(x[1])
    /\ \A x \in hash \ items : x \in left \/ Coming(x[1])

\* An enricher that has subscribed and serves something else than the dictionary in
\* Redis will hear of it, unless a call failed or a delta went out before it
\* subscribed (dict.go:129-207, enrich.go:147-219): the write comes before its
\* delta, the read after it, and a delta that comes during a reload leads to another.
StaleIsKnown ==
  Subscribed /\ faults = 0 /\ ~gap /\ hash # {} /\ served # hash =>
    \/ inbox > 0 \/ timer \/ epc = "reload"
    \/ epc = "swap" /\ trie = hash
    \/ \E w \in Writers : wpc[w] = "publish"

\* A dictionary once served is never blanked (enrich.go:201-220): expiry, rebuilds and
\* removals of the last entry leave the enricher what it has.
NeverBlanked == [][served # {} => served' # {}]_vars

\* No writer creates a dictionary without an expiry or takes the expiry away
\* (dict.go:88-156), so that only dictionaries older than this code have none.
StaysBounded == [][hash' # {} /\ (hash = {} \/ bounded) => bounded']_vars

\* In the end, a channel whose dictionary is there is served that dictionary, and it
\* holds the ready emotes of the set and none outside it but what patches left under
\* another name, unless a call failed, Redis was left behind (outdated) or a delta was
\* missed: the whole way from PostgreSQL to the messages.
Settles ==
  <>[](\/ faults # 0 \/ outdated \/ gap \/ hash = {} \/ epc = "none"
       \/ served = hash /\ ChannelEmotes \subseteq hash /\ hash \subseteq items \cup left)

\* What a comment says of a channel whose dictionary was not there at the first message
\* (enrich.go:135-136): the delta of the rebuild fills it.
DeltaFills ==
  epc # "none" /\ served = {} /\ hash # {} ~> served # {} \/ hash = {} \/ faults # 0

=============================================================================
