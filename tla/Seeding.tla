------------------------------ MODULE Seeding ------------------------------
(***************************************************************************)
(* How one channel gets its emotes: the ensure request of the emote API    *)
(* (internal/emote/api), the seeder it starts (internal/emote/seeder), the *)
(* roster preloader that seeds on its own (internal/emote/preload), and    *)
(* the sync a 7TV event asks for.  All of them write the same rows.        *)
(*                                                                         *)
(* A step is one statement to the database, one answer of a provider, or   *)
(* one access to the dictionary.  The workers of one import handle emotes  *)
(* of their own: which emote comes next is open, and one at a time is      *)
(* enough.  A list of providers stands for the emote set named after it.   *)
(* An emote is known by its id; names, flags and URLs are left out.        *)
(***************************************************************************)
EXTENDS Naturals, FiniteSets

CONSTANTS
  Emotes,
  Providers,
  From,        (* per emote, the provider that offers it                      *)
  Globals,     (* the emotes a provider offers to every channel               *)
  Shared,      (* the emotes another channel's import wrote a row for before  *)
  Eager,       (* the providers whose emotes are rendered when imported       *)
  Lists,       (* the lists of providers that requests carry                  *)
  Preloaded,   (* the list the preloader seeds                                *)
  Renamed,     (* the providers that may know the channel by another login    *)
  Workers,     (* who may seed: "seed", "preload", "event"                    *)
  MaxFaults,   (* bound: calls that fail, changes of what the providers       *)
               (* offer, runs of the preloader, and event syncs, together     *)
  None

\* There are four providers, 7TV always among them, a list holds some, and None is no set.
ASSUME SeedingAssumption ==
  /\ Providers \subseteq {"7tv", "ffz", "bttv", "twitch"} /\ "7tv" \in Providers
  /\ Lists \cup {Preloaded} \subseteq SUBSET Providers
  /\ \A S \in SUBSET Emotes : S # None

VARIABLES
  remote,      (* per provider, the emotes it offers for this channel; None   *)
               (* when it does not know the channel                           *)
  rows,        (* per emote, its row: "none", "pending", "ready"              *)
  global,      (* emotes whose row was written as a global one                *)
  members,     (* per list, the emotes of its set; None when there is no set  *)
  active,      (* the list of the channel's active set                        *)
  login,       (* whose login the channel's row has, its "own" or an "other"  *)
  loads,       (* per provider, the outcome of its last import and how many   *)
               (* emotes it was to import                                     *)
  dict,        (* the emotes of the channel's dictionary                      *)
  seeding,     (* the handler's mark that a seed of this channel is running   *)
  work,        (* per worker, the seed it is at                               *)
  ask,         (* the ensure request                                          *)
  faults,      (* how many of these there were                                *)
  moved,       (* history: since the request came, the active set was         *)
               (* replaced, lost emotes, or was put under another login       *)
  hollow       (* history: a ready answer came without a provider's emotes    *)

data == <<rows, global, members, active, login, loads, dict>>
vars == <<remote, data, seeding, work, ask, faults, moved, hollow>>

Of(p) == {e \in Emotes : From[e] = p}

Offered(p) == IF remote[p] = None THEN {} ELSE remote[p]

NoWork == [at |-> "idle", list |-> {}, todo |-> {}, p |-> None, phase |-> "user", seen |-> {},
           got |-> {}, e |-> None, wanted |-> 0, some |-> FALSE, missed |-> FALSE, err |-> FALSE, one |-> {}]
NoAsk  == [at |-> "idle", list |-> {}, known |-> FALSE, pend |-> FALSE, full |-> {},
           ready |-> [p \in Providers |-> 0], partial |-> {}, bare |-> {}, included |-> FALSE, todo |-> {},
           got |-> {}, state |-> "none"]

NoLoad == [how |-> "none", wanted |-> 0]

Outcomes == {"none", "ready", "empty", "partial", "failed"}

TypeOK ==
  /\ \A p \in Providers : remote[p] = None \/ remote[p] \subseteq Of(p)
  /\ rows \in [Emotes -> {"none", "pending", "ready"}]
  /\ global \subseteq Emotes
  /\ \A l \in DOMAIN members : members[l] = None \/ members[l] \subseteq Emotes
  /\ active \in Lists \cup {Preloaded} \cup {None} /\ login \in {"own", "other"}
  /\ \A p \in Providers : loads[p].how \in Outcomes /\ loads[p].wanted \in Nat
  /\ dict \subseteq Emotes
  /\ \A w \in Workers : work[w].got \subseteq Emotes /\ work[w].todo \subseteq Providers
  /\ ask.state \in {"none", "ready", "processing", "error"}

Init ==
  /\ remote = [p \in Providers |-> Of(p) \ Globals]
  /\ rows = [e \in Emotes |-> IF e \in Shared THEN "ready" ELSE "none"]
  /\ global = {}
  /\ members = [l \in Lists \cup {Preloaded} |-> None]
  /\ active = None /\ login = "own"
  /\ loads = [p \in Providers |-> NoLoad]
  /\ dict = {}
  /\ seeding = FALSE
  /\ work = [w \in Workers |-> NoWork]
  /\ ask = NoAsk
  /\ faults = 0
  /\ moved = FALSE /\ hollow = FALSE

-----------------------------------------------------------------------------
(* Helpers.                                                                 *)

At(w, where) == work[w].at = where

Goto(w, where) == work' = [work EXCEPT ![w].at = where]

Fault == faults < MaxFaults /\ faults' = faults + 1

\* Mutant: a seed that never had its set returns before its clean-up is deferred.
OverEarly(w) == work' = [work EXCEPT ![w] =
                           [NoWork EXCEPT !.at = IF w = "seed" /\ ~(work[w].at \in {"prepare", "activate"})
                                                   THEN "repair" ELSE "idle"]]

\* The seed is over; the one a request started still has to clean up.
Over(w) == work' = [work EXCEPT ![w] = [NoWork EXCEPT !.at = IF w = "seed" THEN "repair"
                                                              ELSE "idle"]]

\* What is found of the channel when it is looked up by its login (WHERE login=$1).
ActiveMembers == IF active = None \/ login # "own" THEN {} ELSE members[active]
Load(p)       == IF login = "own" THEN loads[p] ELSE NoLoad

Ready == {e \in ActiveMembers : rows[e] = "ready"}

\* GetChannelEmotes: what the dictionary is built from.
Visible == Ready \cup {e \in global : rows[e] = "ready"}

\* The rest of the seed after provider p is done: the next one or the dictionary.
AfterProvider(w) == IF work[w].todo = {} THEN "collect" ELSE "fetch"

\* Where a seed stands when the emotes left to import are known.  With none left it goes on
\* by what was imported: the channel's emotes of 7TV are followed by the sync of the set, the
\* sync by 7TV's emotes for every channel.
Settled(w, s) ==
  LET next == IF s.got # {} THEN "look"
              ELSE IF w = "event" THEN "collect"
              ELSE IF s.err \/ s.p # "7tv" \/ s.phase = "globals" THEN "record"
              ELSE IF s.phase = "user" /\ s.seen # None THEN "sync"
              ELSE "globals"
  IN  [s EXCEPT !.at = next, !.e = None]

\* importRemoteEmotesToSet begins with the emotes offered.  The sync does not count them.
Importing(w, phase, offered) ==
  LET j == work[w] IN
    Settled(w, [j EXCEPT !.phase = phase, !.got = offered,
                  !.wanted = j.wanted + IF phase = "adds" THEN 0 ELSE Cardinality(offered)])

-----------------------------------------------------------------------------
(* SeedChannelProviderSubset.                                               *)

Begin(w, list, todo) ==
  work' = [work EXCEPT ![w] = [NoWork EXCEPT !.at = "prepare", !.list = list, !.todo = todo]]

\* prepareSet: the channel and the set named after the list are made sure of, ...
Prepare(w) ==
  /\ At(w, "prepare")
  /\ members' = [members EXCEPT ![work[w].list] = IF @ = None THEN {} ELSE @]
  /\ login' = "own"
  /\ Goto(w, "activate")
  /\ UNCHANGED <<remote, rows, global, active, loads, dict, seeding, ask, faults, moved, hollow>>

\* ... and the set becomes the channel's active one.
Activate(w) ==
  /\ At(w, "activate")
  /\ active' = work[w].list
  /\ moved' = (moved \/ active # work[w].list)
  /\ Goto(w, "fetch")
  /\ UNCHANGED <<remote, rows, global, members, login, loads, dict, seeding, ask, faults, hollow>>

PrepareFails(w) ==
  /\ work[w].at \in {"prepare", "activate"}
  /\ Fault
  /\ Over(w)
  /\ login' = login \/ (At(w, "prepare") /\ login' = "own")
  /\ UNCHANGED <<remote, rows, global, members, active, loads, dict, seeding, ask, moved, hollow>>

GlobalsOf(p) == Of(p) \cap Globals

\* What a provider's import may start from: what it offers for the channel, nothing when the
\* channel is unknown to it, and what it offers to every channel.  7TV's of these are fetched
\* later; FFZ and BTTV may go without; Twitch must answer to both.
SevenTVAnswers == {Offered("7tv")}
FFZAnswers     == {Offered("ffz"), Offered("ffz") \cup GlobalsOf("ffz")}
BTTVAnswers    == {Offered("bttv"), Offered("bttv") \cup GlobalsOf("bttv")}
TwitchAnswers  == {Offered("twitch") \cup GlobalsOf("twitch")}

Answers(p) ==
  CASE p = "7tv" -> SevenTVAnswers
    [] p = "ffz" -> FFZAnswers
    [] p = "bttv" -> BTTVAnswers
    [] p = "twitch" -> TwitchAnswers

\* 7TV and FFZ name the channel, and its row is put under that login, which need not be the
\* one on Twitch.
Logins(p) == IF p \notin {"7tv", "ffz"} \/ remote[p] = None THEN {login}
             ELSE IF p \in Renamed THEN {"own", "other"} ELSE {"own"}

Fetch(w) ==
  /\ At(w, "fetch")
  /\ \E p \in work[w].todo : \E offered \in Answers(p) :
       /\ LET j == work[w] IN
            work' = [work EXCEPT ![w] =
                       Settled(w, [j EXCEPT !.p = p, !.todo = j.todo \ {p}, !.phase = "user",
                                            !.seen = remote[p], !.got = offered,
                                            !.wanted = Cardinality(offered)])]
       /\ \/ /\ p = "7tv" \/ GlobalsOf(p) \subseteq offered
             /\ login' \in Logins(p) /\ UNCHANGED faults
          \/ Fault /\ login' \in Logins(p) \cup {login}
  /\ moved' = (moved \/ (login = "own" /\ login' # "own"))
  /\ UNCHANGED <<remote, rows, global, members, active, loads, dict, seeding, ask, hollow>>

FetchFails(w) ==
  /\ At(w, "fetch")
  /\ Fault
  /\ \E p \in work[w].todo :
       work' = [work EXCEPT ![w].at = "record", ![w].p = p, ![w].todo = @ \ {p},
                            ![w].err = TRUE]
  /\ UNCHANGED <<remote, data, seeding, ask, moved, hollow>>

\* 7TV's emotes for every channel; without them the import stands as it is.
FetchGlobals(w) ==
  /\ At(w, "globals")
  /\ \/ work' = [work EXCEPT ![w] = Importing(w, "globals", GlobalsOf("7tv"))]
        /\ UNCHANGED faults
     \/ Goto(w, "record") /\ Fault
  /\ UNCHANGED <<remote, data, seeding, ask, moved, hollow>>

\* UpsertChannelProviderLoad; a failure to record is only logged.
Record(w) ==
  /\ At(w, "record")
  /\ LET result == IF work[w].err THEN "failed"
                   ELSE IF work[w].missed THEN "partial"
                   ELSE IF work[w].some THEN "ready" ELSE "empty"
     IN  \/ /\ loads' = [loads EXCEPT ![work[w].p] = [how |-> result, wanted |-> work[w].wanted]]
            /\ UNCHANGED faults
         \/ UNCHANGED loads /\ Fault
  /\ work' = [work EXCEPT ![w] = [NoWork EXCEPT !.at = AfterProvider(w), !.list = work[w].list,
                                    !.todo = work[w].todo]]
  /\ UNCHANGED <<remote, rows, global, members, active, login, dict, seeding, ask, 
                 moved, hollow>>

\* rebuildChannelDictionary: the emotes of the active set are read, ...
Collect(w) ==
  /\ At(w, "collect")
  /\ \/ /\ work' = [work EXCEPT ![w] = [NoWork EXCEPT !.at = "rebuild", !.one = Visible]]
        /\ UNCHANGED faults
     \/ Over(w) /\ Fault
  /\ UNCHANGED <<remote, data, seeding, ask, moved, hollow>>

\* ... and the dictionary is written.
Rebuild(w) ==
  /\ At(w, "rebuild")
  /\ dict' = work[w].one
  /\ Over(w)
  /\ UNCHANGED <<remote, rows, global, members, active, login, loads, seeding, ask,
                 faults, moved, hollow>>

-----------------------------------------------------------------------------
(* importRemoteEmotesToSet, one emote.                                      *)

\* importRemoteEmoteOnce: a row that is there is brought up to date.
Look(w) ==
  /\ At(w, "look")
  /\ \E e \in work[w].got :
       /\ work' = [work EXCEPT ![w].e = e,
                     ![w].at = IF rows[e] = "none" THEN "insert" ELSE "add"]
       /\ rows' = IF rows[e] = "pending" /\ From[e] \notin Eager
                    THEN [rows EXCEPT ![e] = "ready"] ELSE rows
  /\ UNCHANGED <<remote, global, members, active, login, loads, dict, seeding, ask,
                 faults, moved, hollow>>

\* Emote e is done with: it was imported, skipped, or fails the import as a whole.  What the
\* sync imports is not counted.
Ended(w, e, how) ==
  LET j == work[w] IN
    work' = [work EXCEPT ![w] = Settled(w,
               [j EXCEPT !.got = j.got \ {e}, !.err = j.err \/ how = "failed",
                         !.some = j.some \/ (how = "imported" /\ j.phase # "adds"),
                         !.missed = j.missed \/ (how # "imported" /\ j.phase # "adds")])]

\* UpsertEmoteByHash: it looks again; when another import wrote the row since, the insert
\* meets the unique index and the emote is skipped.
Insert(w) ==
  /\ At(w, "insert")
  /\ LET e == work[w].e IN
     \/ /\ rows[e] = "none"
        /\ rows' = [rows EXCEPT ![e] = IF From[e] \in Eager THEN "pending" ELSE "ready"]
        /\ global' = IF work[w].phase = "globals" \/ work[w].seen = None \/ e \notin work[w].seen
                       THEN global \cup {e} ELSE global
        /\ Goto(w, "add")
     \/ rows[e] # "none" /\ Goto(w, "add") /\ UNCHANGED <<rows, global>>
     \/ rows[e] # "none" /\ Ended(w, e, "skipped") /\ UNCHANGED <<rows, global>>
  /\ UNCHANGED <<remote, members, active, login, loads, dict, seeding, ask,
                 faults, moved, hollow>>

\* The download, the database or the store of the source failed, three times if it may pass.
Skip(w) ==
  /\ work[w].at \in {"look", "insert"}
  /\ Fault
  /\ \E e \in work[w].got :
       /\ work[w].e # None => e = work[w].e
       /\ Ended(w, e, "skipped")
  /\ UNCHANGED <<remote, data, seeding, ask, moved, hollow>>

\* The row was written, and then the source or the job could not be stored.
SkipStored(w) ==
  LET e == work[w].e IN
  /\ At(w, "insert") /\ rows[e] = "none" /\ From[e] \in Eager
  /\ Fault
  /\ rows' = [rows EXCEPT ![e] = "pending"]
  /\ Ended(w, e, "skipped")
  /\ UNCHANGED <<remote, global, members, active, login, loads, dict, seeding, ask, moved, hollow>>

\* AddEmoteToSet.
Add(w) ==
  /\ At(w, "add")
  /\ members' = [members EXCEPT ![work[w].list] = @ \cup {work[w].e}]
  /\ Ended(w, work[w].e, "imported")
  /\ UNCHANGED <<remote, rows, global, active, login, loads, dict, seeding, ask,
                 faults, moved, hollow>>

\* Here a failure is the outcome of the whole import, after the rest of it.
AddFails(w) ==
  /\ At(w, "add")
  /\ Fault
  /\ Ended(w, work[w].e, "failed")
  /\ UNCHANGED <<remote, data, seeding, ask, moved, hollow>>

-----------------------------------------------------------------------------
(* syncSevenTVSet.                                                          *)

\* ListSetProviderEmotes: the 7TV emotes of the set that are ready and not global ...
LocalRows(list) ==
  {e \in members[list] : rows[e] = "ready" /\ e \notin global /\ From[e] = "7tv"}

Sync(w) ==
  /\ At(w, "sync")
  /\ \/ work' = [work EXCEPT ![w].at = "prune", ![w].one = LocalRows(work[w].list)]
        /\ UNCHANGED faults
     \/ work' = [work EXCEPT ![w] = Settled(w, [work[w] EXCEPT !.err = TRUE])] /\ Fault
  /\ UNCHANGED <<remote, data, seeding, ask, moved, hollow>>

\* ... that 7TV did not list when it was asked leave the set, and what it listed beyond them
\* is imported.  (diffSevenTVSet)
Prune(w) ==
  /\ At(w, "prune")
  /\ members' = [members EXCEPT ![work[w].list] = @ \ (work[w].one \ work[w].seen)]
  /\ moved' = (moved \/ (active = work[w].list /\ ~(work[w].one \subseteq work[w].seen)))
  /\ work' = [work EXCEPT ![w] = Importing(w, "adds", work[w].seen \ work[w].one)]
  /\ UNCHANGED <<remote, rows, global, active, login, loads, dict, seeding, ask, faults, hollow>>

-----------------------------------------------------------------------------
(* Who seeds besides the request.                                           *)

\* RunOnce of the preloader: it does not look at the mark.
Preload ==
  /\ "preload" \in Workers /\ At("preload", "idle") 
  /\ Begin("preload", Preloaded, Preloaded)
  /\ Fault
  /\ UNCHANGED <<remote, data, seeding, ask, moved, hollow>>

\* ApplyChannelSet for an event about the active set: 7TV is asked, then the set synced.
EventSync ==
  /\ "event" \in Workers /\ At("event", "idle") 
  /\ active # None /\ remote["7tv"] # None
  /\ work' = [work EXCEPT !["event"] = [NoWork EXCEPT !.at = "sync", !.list = active,
                                          !.p = "7tv", !.seen = remote["7tv"]]]
  /\ Fault
  /\ UNCHANGED <<remote, data, seeding, ask, moved, hollow>>

\* RepairProviderMetadataReady at the end of a requested seed.
Repair ==
  /\ At("seed", "repair")
  /\ rows' = [e \in Emotes |-> IF rows[e] = "pending" THEN "ready" ELSE rows[e]]
  /\ Goto("seed", "unmark")
  /\ UNCHANGED <<remote, global, members, active, login, loads, dict, seeding, ask,
                 faults, moved, hollow>>

Unmark ==
  /\ At("seed", "unmark")
  /\ seeding' = FALSE
  /\ work' = [work EXCEPT !["seed"] = NoWork]
  /\ UNCHANGED <<remote, data, ask, faults, moved, hollow>>

-----------------------------------------------------------------------------
(* ensureEmotes.                                                            *)

Asking(at) == ask.at = at

Reply(state) == ask' = [NoAsk EXCEPT !.at = "answer", !.state = state]

\* The request, and GetChannelEmoteSummary.
Ask ==
  /\ Asking("idle")
  /\ \E l \in Lists :
       ask' = [NoAsk EXCEPT !.at = "providers", !.list = l,
                            !.known = active # None /\ login = "own",
                            !.pend = \E e \in ActiveMembers : rows[e] = "pending"]
  /\ moved' = FALSE
  /\ UNCHANGED <<remote, data, seeding, work, faults, hollow>>

\* GetChannelProviderEmoteSummary: the providers with emotes in the set and all of them ready.
ReadProviders ==
  /\ Asking("providers")
  /\ ask' = [ask EXCEPT !.at = "loads",
       !.ready = [p \in Providers |-> Cardinality(Ready \cap Of(p))],
       !.full = {p \in Providers : /\ \E e \in Ready : From[e] = p
                                   /\ \A e \in ActiveMembers \cap Of(p) : rows[e] = "ready"}]
  /\ UNCHANGED <<remote, data, seeding, work, faults, moved, hollow>>

\* providerProgressState: the import was partial, or was to bring more than there is now.
Short(p, ready) == \/ Load(p).how = "partial"
                   \/ Load(p).how = "ready" /\ ready < Load(p).wanted

\* Mutant: a recorded outcome counts as an import, a failed one too.
ReadLoadsFailed ==
  /\ Asking("loads")
  /\ ask' = [ask EXCEPT !.at = "active", !.partial = {p \in ask.list : Short(p, ask.ready[p])},
                     !.bare = {p \in ask.list : Load(p).how = "empty"},
       !.todo = {p \in ask.list : ~(Load(p).how \in {"empty", "failed"}) /\ ~(p \in ask.full)}]
  /\ UNCHANGED <<remote, data, seeding, work, faults, moved, hollow>>

\* GetChannelProviderLoads and providersNeedingSeed.
ReadLoads ==
  /\ Asking("loads")
  /\ ask' = [ask EXCEPT !.at = "active", !.partial = {p \in ask.list : Short(p, ask.ready[p])},
                     !.bare = {p \in ask.list : Load(p).how = "empty"},
       !.todo = {p \in ask.list : Load(p).how # "empty" /\ p \notin ask.full}]
  /\ UNCHANGED <<remote, data, seeding, work, faults, moved, hollow>>

\* activeSetIncludesProviders, and EmoteSetExistsByOwnerName when it does not.
ReadActive ==
  /\ Asking("active")
  /\ LET included == active # None /\ login = "own" /\ ask.list \subseteq active IN
     ask' = [ask EXCEPT !.at = "decide", !.included = included,
               !.todo = IF ~included /\ members[ask.list] = None THEN ask.list ELSE @]
  /\ UNCHANGED <<remote, data, seeding, work, faults, moved, hollow>>

\* ProviderSnapshotNeedsRefresh, with GetChannelProviderSetSnapshot: the channel's 7TV
\* emotes in the active set, and the id of the 7TV set most of their rows carry, which is
\* the one of the channel that wrote them first.  A row of either kind may win a draw.
Refresh ==
  LET local   == (ActiveMembers \cap Of("7tv")) \ global
      foreign == local \cap Shared
  IN  IF remote["7tv"] = None THEN {FALSE}
      ELSE IF local = {} \/ (remote["7tv"] # {} /\ local # remote["7tv"]) THEN {TRUE}
      ELSE {b \in BOOLEAN : IF b THEN 2 * Cardinality(foreign) >= Cardinality(local)
                            ELSE 2 * Cardinality(foreign) <= Cardinality(local)}

\* A seed under way or pending emotes are waited for.  Otherwise what 7TV lists is compared
\* with the set, when 7TV can be asked.
Decide ==
  /\ Asking("decide")
  /\ IF seeding \/ ask.pend
       THEN Reply("processing") /\ UNCHANGED faults
       ELSE \/ Fault /\ ask' = [ask EXCEPT !.at = "start"]
            \/ /\ \E stale \in Refresh :
                    ask' = [ask EXCEPT !.at = "start",
                              !.todo = IF "7tv" \in ask.list /\ stale THEN @ \cup {"7tv"} ELSE @]
               /\ UNCHANGED faults
  /\ UNCHANGED <<remote, data, seeding, work, moved, hollow>>

\* startSeed, which takes the mark if nobody has it.
StartSeed ==
  /\ Asking("start")
  /\ ~(ask.known /\ ask.included /\ ask.todo = {})
  /\ Reply("processing")
  /\ IF ask.todo # {} /\ ~seeding
       THEN seeding' = TRUE /\ Begin("seed", ask.list, ask.todo)
       ELSE UNCHANGED <<seeding, work>>
  /\ UNCHANGED <<remote, data, faults, moved, hollow>>

\* The emotes are there: the dictionary is built from them ...
AskCollect ==
  /\ Asking("start")
  /\ ask.known /\ ask.included /\ ask.todo = {}
  /\ \/ ask' = [ask EXCEPT !.at = "rebuild", !.got = Visible] /\ UNCHANGED faults
     \/ Reply("error") /\ Fault
  /\ UNCHANGED <<remote, data, seeding, work, moved, hollow>>

\* ... and the answer is ready unless an import was recorded as partial.
AskRebuild ==
  /\ Asking("rebuild")
  /\ dict' = ask.got
  /\ LET state == IF ask.partial # {} THEN "processing" ELSE "ready"
     IN  /\ Reply(state)
         /\ hollow' = (hollow \/ (/\ state = "ready" /\ ~moved
                                  /\ \E p \in ask.list \ ask.bare : ask.got \cap Of(p) = {}))
  /\ UNCHANGED <<remote, rows, global, members, active, login, loads, seeding, work, faults, moved>>

Answer ==
  /\ Asking("answer")
  /\ ask' = NoAsk
  /\ UNCHANGED <<remote, data, seeding, work, faults, moved, hollow>>

-----------------------------------------------------------------------------
(* The world.                                                               *)

\* A provider changes what it offers.
Change ==
  /\ Fault
  /\ \E p \in Providers : \E s \in (SUBSET Of(p)) \cup {None} :
       remote' = [remote EXCEPT ![p] = s]
  /\ UNCHANGED <<data, seeding, work, ask, moved, hollow>>

\* The render worker finishes an emote.
Rendered ==
  /\ \E e \in Emotes : rows[e] = "pending" /\ rows' = [rows EXCEPT ![e] = "ready"]
  /\ UNCHANGED <<remote, global, members, active, login, loads, dict, seeding, work, ask, faults,
                 moved, hollow>>

Import(w) == Look(w) \/ Insert(w) \/ Skip(w) \/ SkipStored(w) \/ Add(w) \/ AddFails(w)

Provider(w) == \/ Fetch(w) \/ FetchFails(w) \/ FetchGlobals(w) \/ Record(w)
               \/ Sync(w) \/ Prune(w)

Seed(w) == \/ Prepare(w) \/ Activate(w) \/ PrepareFails(w) \/ Provider(w) \/ Import(w)
           \/ Collect(w) \/ Rebuild(w)

Request == \/ Ask \/ ReadProviders \/ ReadLoads \/ ReadActive \/ Decide \/ StartSeed
           \/ AskCollect \/ AskRebuild \/ Answer

Next ==
  \/ \E w \in Workers : Seed(w)
  \/ Repair \/ Unmark
  \/ Preload \/ EventSync
  \/ Request
  \/ Change \/ Rendered

Spec == Init /\ [][Next]_vars

\* A goroutine that can move does; requests keep coming.
FairSpec ==
  /\ Spec
  /\ \A w \in Workers : WF_vars(Seed(w))
  /\ WF_vars(Repair) /\ WF_vars(Unmark) /\ WF_vars(Request) /\ WF_vars(Rendered)

-----------------------------------------------------------------------------
(* Properties.                                                              *)

\* A request is told "ready" only with emotes of each of its providers in the dictionary,
\* unless the provider has none, or another seed replaced the active set under the request,
\* took emotes out of it, or put the channel under the login a provider knows it by.
NeverHollow == ~hollow

\* Requests that keep coming are told "ready" again and again, whatever failed or changed
\* before, unless a provider counts as partial: its import was (the sync that makes up for it is
\* not counted, and no import but 7TV's is done again), or it has fewer emotes than its last
\* import was to bring, as after a sync that took one out; or 7TV's list and the rows can never
\* compare equal: it is empty, or holds emotes whose rows are global or another channel's;
\* or the last provider to name the channel knows it by another login than Twitch's, under
\* which no request finds it: each one seeds it again and is told to wait (seeder.go:337-339,
\* 561-567, store.go:348-355).
\* (And a provider without emotes is never imported, so that nobody gives the channel back
\* the set the preloader replaced.)
Stalled == \/ \E p \in Providers : Short(p, Cardinality(Ready \cap Of(p)))
           \/ login = "other"
           \/ remote["7tv"] = {}
           \/ active \notin Lists /\ \E p \in Providers : loads[p].how = "empty"
           \/ Offered("7tv") \cap (global \cup Shared) # {}
RequestsSettle == (<>[]~Stalled) => []<>(ask.state = "ready")
=============================================================================
