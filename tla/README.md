# Streamclone: a TLA+ development

This directory holds TLA+ specifications of Streamclone's Go services: the relays,
playlists and tokens of the video service; the IRC connections, the websocket hub, the
batchers, the fragments and the sign-in of the chat service; the render jobs,
dictionaries, seeds, 7TV subscriptions, object stores and hints of the emote service; the
cached views, listings, Reddit searches and rate limits behind the pages. TLC checks them
on small instances; TLAPS proves their safety, every invariant and action property of the
passing runs, for every value of the constants.

`tlc -config X.cfg M` checks a run, `tlapm M_proofs.tla` the proofs of a module.
PROJECT.json lists the components, the runs, the mutants (a plausible bug for each
property, which the property must catch), the source lines of every definition,
the findings, the hazards and the theorems.

## 1. The system

A browser talks through Caddy to four Go services, which share PostgreSQL, Redis
and an object store; MediaMTX serves the HLS that relay workers produce.

| Part | State | Operations | Talks to |
| --- | --- | --- | --- |
| video orchestrator (`video/orchestrator`, `registry`, `worker`) | sessions by channel, slot channel, single flight, worker processes | start, stop-by-quality-change, keepalive, supervise, reap | usher and tokens (HTTP), worker processes, registry map |
| IRC pool (`chat/ircconn/ircconn.go`) | connections, routing table, join counts | Join, Part, dial, readLoop, reconnect | Twitch IRC; the handler of each line |
| IRC senders (`chat/ircconn/sender.go`) | one socket per session | Send, dial, drop, Close | Twitch IRC |
| chat hub (`chat/hub`) | clients, subscribers by channel, Redis unsubscribes | subscribe, unsubscribe, grace teardown, removeClient, broadcast | IRC pool (Join, Part), Redis pub/sub |
| batchers (`chat/batch`) | pending messages and a timer per channel | Add, flush | publish on Redis |
| enrichment (`chat/enrich`, `chat/tokenize`) | dictionary per channel | ensure, reload, Invalidate | Redis hash and deltas |
| emote jobs (`emote/render`, `emote/store`, `emote/worker`) | rows of processing_jobs, objects, emote status, queue of dirty dictionaries | Enqueue, ClaimJob, processOne, failOrRetry, dictionaryLoop | PostgreSQL, object store, dictionaries |
| dictionaries (`emote/dict`) | one Redis hash per channel with a TTL | Rebuild, AddEmote, RemoveEmote, BackfillLegacyTTLs | Redis, deltas to the enrichers |
| 7TV events (`emote/eventapi`, `emote/seeder`, `emote/preload`) | subscriptions, one socket | Register, Unregister, reap, reconnect, apply a set | 7TV, PostgreSQL |
| object stores (`emote/objstore`) | objects in two stores | Get with promotion, Put with dual write, Delete | MinIO, a remote bucket |
| seeding (`emote/api`, `emote/seeder`, `emote/preload`) | rows, sets and their members, outcomes of imports, the mark of a running seed | ensure, SeedChannelProviders, SyncSevenTVSet, RunOnce, status | providers, PostgreSQL, dictionaries |
| hints (`emote/render/observe*.go`) | guard keys and a list in Redis, a budget per minute | publish, consume, admit | Redis, render jobs |
| sign-in (`chat/auth`) | sessions, claims and device authorizations in Redis, cookies | import, prepare, claim, device flow, refresh, logout | Twitch's OAuth |
| playlist proxy (`video/orchestrator/proxy*.go`) | none between requests | fetch, follow redirects, take ads out | Twitch's edge |
| tokens (`video/token`), breaker (`resilience`) | cache of tokens, shared fetches, failures in a row | Live, Vod, Breaker.Do, Retry | Twitch GQL |
| metadata (`metadata/*`) | fresh and stale copies in Redis, shared fetches, marks of warmers | cached views, listings | Helix, GQL, Reddit |
| Reddit (`social/reddit`) | back-off per source, an OAuth token | FetchLSF, through its sources | Reddit, third parties, a browser |
| rate limiter (`httpx/ratelimit.go`) | a bucket per address | allow | |
| frontend | the browser application | | all of the above over HTTP and websockets |

What is hard in it:

* **interleaving**: everything is goroutines with short critical sections; nearly
  every operation reads under a lock, gives the lock up for a call over the
  network, and takes it again to write;
* **ordering**: what is decided under a lock is sent without it, so lines to IRC,
  frames to Redis and deltas can overtake each other;
* **failure**: workers exit, connections break, uploads fail half-way, the emote
  process restarts while jobs run;
* **timeouts and retries**: idle reaping, respawns, dial back-off, the two-minute
  reclaim of a job, grace periods;
* **limits**: the relay cap, channels per socket, retries of a job.

What makes each part correct: the *orchestrator* must give every slot back once, stop every
worker whose slot it gives back, and leave no process of a start that failed; the *proxy* must
connect only where it may, and the *ads* must go without the time going wrong; a *token*
fetched with a viewer's OAuth must not reach who is not signed in; the *pool* must keep a
subscribed channel on a connection and a connection within its limit, and a *session* must
speak over one connection; the *hub* must keep a channel's feed while somebody subscribes and
close it when nobody does, and send a client its frames in order; the *batcher* must hand on
each message once and in order while it waits; *fragments* must hold the whole text; a *login*
must be one browser's, and end with its logout; the *jobs* must not run twice, must not be
lost, must not be retried for ever, and must leave their objects behind when done; a
*dictionary* must never be seen partial and must reach the enricher at last; a *channel told
ready* must have its emotes; the *event subscriber* must keep the sets of active channels
subscribed; an *object* that was put must stay readable while two stores are there and reads
fall back; a *cached view* must not go back in time, nor fail while there is a stale copy; a
*listing* must skip nobody; a *budget* and a *rate* must be kept.

## 2. Modules

| Module | Models | Proofs |
| --- | --- | --- |
| `Relay` | orchestrator, registry and workers: the life of a relay | `Video_proofs` |
| `Startup` | how the processes of one relay come up, are probed, and end | `Video_proofs` |
| `Playlists` | the playlist proxy | `Video_proofs` |
| `Playback` | playback tokens and the breaker around them | `Video_proofs` |
| `Irc` | the anonymous IRC pool | `Irc_proofs` |
| `Sender` | the authenticated IRC connection of one session | `Irc_proofs` |
| `ChatHub` | the chat hub, with the pool reduced to its join counts | `Chat_proofs` |
| `ClientQueue` | what the hub sends one client | `Chat_proofs` |
| `Delivery` | what a batcher promises (abstract) | |
| `Batch` | the batchers; implements `Delivery` | `Batch_proofs` |
| `Tokenize` | how a message becomes fragments | `Chat_proofs` |
| `Accounts` | sign-in | `Services_proofs` |
| `RenderJobs` | the render jobs of one emote | `RenderJobs_proofs` |
| `RenderHints` | hints from chat | `Emotes_proofs` |
| `EmoteDict` | one channel's emote dictionary: the writers of the emote service, Redis, the enricher | `Emotes_proofs` |
| `EventApi` | the subscriptions to 7TV's events | `Emotes_proofs` |
| `Seeding` | how a channel gets its emotes | `Seeding_proofs` |
| `ObjectStores` | the two object stores | `Emotes_proofs` |
| `Metadata` | the cached views | `Services_proofs` |
| `Paging` | the list of live streams, page by page | `Services_proofs` |
| `Reddit` | a search of Reddit through its sources | `Services_proofs` |
| `RateLimit` | the token bucket of an address | `Services_proofs` |
| `VideoParts`, `ChatParts`, `IrcParts`, `EmoteParts`, `ServiceParts` | the parts of a service that share no state with its main module, each an INSTANCE with constants and variables under a prefix of its own, and what is assumed of those constants | |
| `MC*` | instances, sums of parts, symmetry and constant functions for TLC | |

All of them follow one pattern. A process (a handler, a reader, a worker, a grace
goroutine) has a program counter and the locals it carries across steps. A step is
what the code does under one hold of a lock, one atomic statement of the database,
or one call made without a lock. Whatever can happen between two such steps in the
program can happen between them in the model.

### Relay

`at`, `want` and `ref` are a start handler's program counter, request and session;
`phase`, `desc`, `stopped`, `released`, `restarts`, `sup`, `proc` and `cand` belong
to a session (its creation, its request, its two flags, its restart count, the
program counter of its supervisor, the worker it has published and the one it has
spawned and not published yet); `reg` is the registry; `slots` the slots in use;
`reaping` and `victim` the reaper's. Live and VOD relays share the actions and differ
where the code does (a VOD is not restarted, and its miss is another function). The
single flight is a set of handlers with one key, led by one of them; `Lead`, `Acquire`
or `Busy`, `FetchOk`, `Spawn`, `Commit` and their failures are the steps of create;
`ChangeMark` to `ChangeRelease` those of a quality change; `SeeStopped`, `Restart`,
`Respawn`, `Recover`, `SupMark` to `SupRelease` those of supervise; `Reap`, `ReapKill`
and `ReapRelease` those of the reaper. `Exit` is the worker process ending by itself.
Time is left out: a session may be reaped whenever it is registered. Not in it:
listener ids, the stop endpoint's listener logic, diagnostics.

### Startup, Playlists, Playback

`Startup` is what `Relay` takes for one step: `backends` is what is left of the configured
list, `usable` whether the selected rendition has a URL that may be proxied, `sl` and `ff`
the two processes, `writers` who holds the writing end of their pipe (the parent does
until Start closes it), `served` what the media server has, `left` and `since` the probe
loop's clocks, counted in probes. `StartFfmpeg` and `FfmpegFails` are the two ways of
worker.Start, `Probe` a turn of waitForHLS, `GiveUp` the kill before the next backend,
`Wait` Worker.Wait; `StreamlinkEnds`, `FfmpegEnds`, `EndOfInput` and `Publish` are the
world's.

`Playlists` has one request at a time: `Ask`, then `Dial` with whatever addresses DNS
answers, `Redirected` as often as it is allowed, and `Answered`, which takes the ads out:
`ReadLine` is a turn of the loop over the lines in filterTwitchAdSegments, with its two clocks,
and `Drop`, `Keep` and `Splice` are what it does with an ad, a segment and a discontinuity.
`Slide` moves the live window. The playlists are those Twitch can serve by its `layout`:
segments all dated, the first alone or none; ads announced by a date range that ends
early, on time or late, or named by their titles.

`Playback` has the starts that want a token: `Begin`, `Gate` (may the breaker's call be made),
`Look` and `Join` (the cache and the single flight), `Fetched` or `FetchFails` for all who
wait, `Retry`, `Report` (the breaker counts the call). For a VOD a viewer's OAuth token is
tried first and outside the breaker; what is fetched with it is kept, and its fetch shared,
under a key that all who are signed in share (`Key`), so it may be another viewer's that a
start is handed (`token`), while its own OAuth goes on to streamlink (`oauth`), tried or not,
other than the comment at `vod.go:193-194` says. `Leave` is a browser going away, which cancels
a fetch it leads. `Expire` and `CoolDown` are time.

### Irc

`subs`, `conns`, `chans` and `connOf` are the manager's fields; `sock` and `heard`
are the world's (is the socket open, which channels has the server joined). A caller
joins (`JoinCounted`, `JoinPicks`, `JoinDials`, `DialOk` or `DialFails`, `Attach`,
`SendJoin`) or parts (`PartCounted`, `PartLast`, `SendPart`). A connection's reader
starts when it is dialed, before the pool knows the connection; when the socket
`Break`s it runs `Detach`, `Filter`, `Recheck`, `Redial` or `RedialFails`,
`Reattach`, `SendRejoin`. Connection objects are reused when nothing refers to them.

### Sender

`entry` is the map of SenderManager for one session; a client's `Send` looks it up, dials
without the lock, greets, registers its connection (closing the one that it replaces),
and says its message, or drops the entry, by session. `owner` is the client under whose
context a connection was dialed: it ends when that client leaves. `stray` remembers that a
drop has taken out a connection it was not meant for; then two connections of a session
can be open, until their clients leave.

### ChatHub and ClientQueue

A client's read loop handles one frame at a time: `Subscribe`, and for the first
subscriber `JoinUpstream`, `Listen`, `Wire`; then `Tell`. `Drop` is the part of
unsubscribe under the lock; it starts a grace goroutine, counted per phase in
`sleeping`, `parting` and `clearing` (they have no state but their channel, so a count
is all of them). `joins` is the pool's count of the channel and `open` the open Redis
subscriptions. `told` remembers what the client was last told.

`ClientQueue` is one client of it. `at` and `made` are, for each feed and for the read loop,
where it is in `deliver` and how many frames it has delivered; `Deliver`, `SendFirst`,
`DropOldest` and `SendAgain` are deliver's steps, each of which looks at the queue anew.
`wants` is the client's own table of channels and `members` the channels' tables of
clients; they differ after a late teardown (`GraceClear`, ChatHub's). `Close` is the end of
removeClient; a send to a closed queue is a panic, which ends the process (`panicked`).

### Tokenize

The spans of the emotes tag, sorted, cut the text: `SkipSpan` (one that begins before the
cursor or runs past the text), `CutPiece`, `NativeEmote`. A piece is read by `Spaces`,
`WholeWord`, `GluedNames`, `Mentioned`, `Plain`, and `PieceEnds`; `Unloaded` is a channel
without a dictionary. `SplitZeroWidthSuffix` and `Chains` are the greedy search for names
glued together; the reference they are checked against is all ways to cut the word.

### Accounts

A request is a handler that goes through Redis transactions and calls to Twitch one step
at a time. A token is the number of its generation, since Twitch accepts a refresh token
once. `Take` is GETDEL of a claim, `Pick` that of the pointer and then of the claim;
`Destroy` is logout; a request whose token is `aged` refreshes it and saves the session it
had read. `ended` and `revived` remember the logouts, and the refreshes that undid one.

### RenderJobs

The rows of one emote's jobs (`state`, `attempts`, and `late`, the running ones not
written for two minutes), its `objects` and `status`; workers with the job they hold,
the attempts the claim returned (one less than the row's) and what they have uploaded;
callers between the check and the insert of Enqueue. A claim has no owner in the
database: `Outcome` writes to the row of the worker's job whoever holds it. `Lapse` is
time passing; it is split into `LapseAbandoned` and `Overrun` (the claim runs out under
a live worker) so that properties can say which of them they survive. `Crash` ends all
workers and callers at once. `Request` may come at any time, which covers requests for
missing scales and explicit retries.

### RenderHints, ObjectStores

`RenderHints`: a chat process publishes what it has not `seen` lately, `SetNX` sets the
guard key, `Push` pushes and trims the list; the consumer's `Pop`, then `Admit` or `Refuse`
by the budget of the minute. A hint that is popped and refused is lost, as in the code.

`ObjectStores` is one object in two stores under all configurations; a call is `Read` (get,
open, stat), `Put` or `Delete`, each store asked in a step of its own, which may fail with
or without effect. `PromoteRender` is the goroutine that puts a streamed object into the
primary, one of a bounded number. `Restart` may change the configuration; an object is
claimed to stay readable (`kept`) only while there are two stores and reads fall back: a
restart with one store, or without the fallback, ends the claim until the next put.

### EventApi, Seeding

`EventApi`: `subs` is the subscriber's table; `Register`, `Unregister` and `Reap` change it
under the lock and leave what is to be sent in `out`, which is written to the connection
read then; the run loop connects, sends the snapshot it took, and receives events that make
channels fetch their set. The state of 7TV is `served`, per connection. `cut` remembers the
sets that an unsubscribe took off the kept connection while a channel was registered with
them; a set is out of it once it is subscribed to again or the connection is replaced. For a
channel that stays registered only a new connection does so, since registering again sends
nothing: the comment on reapLoop ("Poll-based ensure re-subscribes on next view",
`subscriber.go:270-272`) does not hold of a channel that is ensured while the reaper still has
its unsubscribe to send. (Unregister is called by tests only.)

`Seeding`: a worker (the seed a request started, the preloader, an event's sync) goes through
the providers of its list, writes rows, members, the active set and the outcome of each import
(`loads`), and rebuilds the dictionary; `Request` is the ensure handler with everything it
reads to answer "ready", "processing", "partial" or "failed", and what it starts: a seed, the
repair of the dictionary, or nothing. 7TV and FFZ name the channel they know, and its row is
put under that login (`Logins`, `login`): where it is another than Twitch's (`Renamed`), what
is looked up by login is not found until a seed is prepared again. `moved` remembers that this,
or another active set, came between the statements of a request, and `Stalled` names such a
channel. `Change` is a provider offering other emotes, `Rendered` a render job that is done.

### Metadata, Paging, Reddit, RateLimit

`Metadata`: a request misses, joins or leads a fetch, and falls back on the stale copy;
`Leaves` ends the context of a request, whose browser has gone: the calls upstream of a fetch
that it leads fail, and what it looks for in Redis is not found (`Reaches`), so that it sends
the warmer although posts are kept; the copies it writes are written. The two writes of a copy
are two steps, and Redis may go away (`RedisDown`) between them. The insights, whose fetch asks
for the posts, are in the instance of `background` and in the theorems. The warmer of a
channel's posts is a runner of its own with its mark, `warm`.

`Paging`: `Ask` takes a cursor and a number of streams; `GqlOne`, `GqlPage` and `HelixNext` add
a page to the answer, or `Fail` ends it: with what there is, or, if there is nothing, with an
error, which a failure of Helix always is.
`Move` is the list changing between pages.

`Reddit`: `NextSource` goes to the next source that is configured, not in back-off and allowed;
each source is an action with all its outcomes, and the scraper's pages are counted
(`CanSpend`, `sent`). An interrupted source is not put in back-off and lifts one
(`markRedditBackoff`).

`RateLimit`: time goes by ticks that bring `Rate` units, a request costs `Cost`. `since` and
`passed` count requests from any moment on (`Count`).

### Batch and Delivery

A message is its number on its channel, a frame a set of them. `AddFirst` and
`AddMore` are the branches of Add, `Flush` is the timer, `EmitFirst` and `EmitFlushed`
are the emits made without the lock. `Delivery` keeps only `owed` and `delivered`; the
refinement maps `owed` to what is pending or on its way out, and `delivered` to what
has been emitted.

### EmoteDict

One channel. An entry is an emote and which name it goes by, its own or an alias of the channel
(`Entries`). `items` and `ready` are what PostgreSQL says (the items found under the channel's
login with the global emotes, and the emotes of status 1); `hash` and `bounded` the Redis hash
and whether it has an expiry. A hash without entries does not exist, so the empty set is the
missing dictionary. A writer is a handler of the emote service or `dictionaryLoop`. Handlers
change the set (`AddItem`, `RemoveItem`, or `SetItems` any number of times and then `SetDone`:
seeding, synchronising, activating a set, ensure) and then `Patch` the hash, or, when it is
missing, `Read` PostgreSQL and `Rebuild`; both `Publish` a delta. A patch that adds puts the
new name and leaves the old one, and one that removes takes out the emote's own name, whatever
alias the item had; what stays is in `left` until the next rebuild. Render workers `Activate`
an emote and `QueueAffected` channels; the loop does `TakeDirty` and, when its timer fires,
`RebuildDirty`. The enricher's goroutine goes through `Ensure`, `Load`, `FirstSwap`,
`Subscribe`, and then `Receive`, `TimerFires`, `Reload`, `Swap`; `inbox` are deltas under way
to it. `ItemsElsewhere` is PostgreSQL changed with no patch for this channel: another one that
shares its set is patched in its place, or the channel is put under another login. `Expire`,
`Backfill` and `Restart` are the world's.

Two more history variables say when the properties make no claim. `outdated`: a writer wrote to
Redis what no longer agreed with PostgreSQL (its read or its change was overtaken by another),
or PostgreSQL was changed for another channel, which is then the only one rebuilt
(`ItemsElsewhere`, and `MetadataReady`: its ensure makes a provider's emote ready). `gap`: a
delta went out after the enricher's first load and before its subscription. Both do happen in
the code, and the dictionary then stays wrong until the next rebuild; what is shown is that
nothing *else* makes it wrong.

## 3. Runs

A run takes the modules of one service together. Modules whose parts do not share state in the
code are checked side by side: the MC module EXTENDS one of them and a parts module, which
INSTANCEs the others with constants and variables of their own, and a variable `turn`, chosen
at first and never changed, says whose steps are taken. That is the disjoint sum of their
state graphs: each part is checked on its own graph, and nothing is claimed of their
interleavings. The proof module of the service EXTENDS the same two, so that what is proved is
the formula the run checks. What does interact is in one module: the hub with its feeds and
the pool's counts, the writers of the emote service with Redis and the enricher, requests with
seeds, the preloader and events.

| Run | Parts and instance | Shows |
| --- | --- | --- |
| `video` | Relay: a channel and a VOD, 2 handlers, 2 sessions, 2 slots, 1 restart, a fallback backend. Playlists: 6 segments, window of 4, 1 redirect, a URL per check. Playback: 2 starts, 2 viewers, threshold 2, 2 faults. Startup: 3 lists of backends, 3 listings, 5 probes | SlotAccounting, LeakNeedsRestart; FollowsApproved, Cleaned; AnonymousIsAnonymous; NothingLeftRunning |
| `video_progress` | Relay: 1 channel, 2 handlers, 2 sessions, 1 slot. Startup as above | StartsAnswered, StoppedReleased; EndIsNoticed |
| `relay_reaper` (violation) | Relay itself, without an MC module: 1 channel, 2 sessions | a session the reaper cannot see |
| `chat` | ChatHub: 1 channel, 2 clients, 2 feeds, 2 grace goroutines per phase, 3 joins. ClientQueue: 2 feeds and the read loop, 3 frames each, a queue of 2. Tokenize: every text of up to 5 runes over 4, every dictionary of up to 3 names, 3 tags | NoFeedLeaks, SubscribersServed; InOrder, ClosedIsLeft; Tokenized |
| `chat_progress` | Irc: 2 channels, 2 callers, 2 connections. ChatHub: 2 clients, 1 grace goroutine per phase. Sender: 2 clients, 2 connections | OnlyGivingUpStrands, Rejoined; IdleFeedsClose; SingleConnection, SocketsClose |
| `hub_told` (violation) | ChatHub itself, as in `chat` | a client told "subscribed" that is not |
| `jobs` | RenderJobs: 2 jobs sharing a scale, 2 workers, 2 callers, 1 retry, 1 fault, 1 overrun | OneHolder, DoneIsRendered |
| `emotes` | EmoteDict: 2 emotes, one of which may go by an alias, 1 handler and the loop, 2 changes, 1 expiry, 1 fault. EventApi: 2 channels of 1 set, 2 connections. ObjectStores: 2 calls, 2 puts, 1 promotion. RenderHints: 2 emotes, 2 chat processes, a list of 1 | Truthful, StaleIsKnown, Settles; ActiveSubscribed; StaysReadable; OneHint |
| `dict_fill` (violation) | EmoteDict itself: 1 emote, 1 handler, 1 change | a delta that goes out before the enricher has subscribed |
| `seeding` | 2 providers of 1 emote each, one rendered at once, the other may know the channel by another login; 3 who seed, 1 fault or change | NeverHollow, RequestsSettle |
| `background` | Batch: 2 channels, 2 readers, 4 messages each. RenderJobs: 1 job of 2 scales, 2 workers, 1 caller, 1 fault, 1 overrun. Metadata: 1 request at a time, insights and posts, 1 outage, no change | NotOvertaken, Delivers; JobsSettle; RequestsEnd |
| `services` | RateLimit: 2 addresses, a bucket of 2 requests, 4 ticks. Reddit: 2 searches, 2 settings, a budget of 1. Paging: 4 streams, pages of 2, 1 move, 1 fault. Accounts: 2 browsers, 2 requests, 1 session, 2 generations. Metadata: 2 requests, 2 views, 1 change, 1 outage | Bounded; BudgetKept; NothingSkipped; SessionNotShared, LogoutRevokes; NeverBack, StaleStandsIn |

Why these bounds are enough to see something: two handlers are needed for the double create and
for a quality change under a keepalive, two sessions for a predecessor that tears down its
successor, two slots to tell a slot given back twice from one given back once. Two connections
let one be the successor of the other. Two clients and two grace goroutines are the overlap of
a subscribe with a late teardown; one channel is enough because the hub keeps nothing across
channels. A queue of two frames and three senders let two of them find it full at the same
time, and three frames let one be dropped in the middle. Two jobs that share one scale but not
the other tell shared clean-up from private; one retry, one fault and one overrun are each one
more than the normal case, and their combinations are explored; for liveness one job is enough
to be held by two workers, which takes the overrun (two jobs with one would take more than five
minutes). Four messages make two windows and the frames of both in flight. One handler, the
loop and the render workers already overtake each other on their way to Redis, and one emote
with an alias beside one without tells a patch that finds its entry from one that misses it; at
first both emotes are rendered or only the one without an alias is, and a dictionary without
an expiry is empty or full (`SumInit`); the other cases come in the states that follow. Two changes give a patch or a rebuild something to be
overtaken by. Two channels share a set, so that dropping one can cut the other. One feed of one
channel per sender is enough for the order of a queue, which is kept per sender. Six segments
move an ad break of any length through a window of four. A word of five runes can be cut into
three names, and no rule of the tokenizer looks further than one emote back. Two requests are
what it takes to share a fetch, to lead one and leave, to claim one token twice, or to refresh
during a logout. Four streams in pages of two, asked for by one or three, end an answer in the
middle of a page. The bounds themselves are the constants whose comment begins with "bound",
and each is named in the guard that applies it.

The types are no property of the runs, and neither are RegisteredHolds, SomeoneReleases,
OnlyStoppedFreed, Capacity, AttemptsBounded, WaitsForTimer, NeverBlanked and StaysBounded: the
proofs have them for all instances (section 4 says which `TypeOK` are proved).

Deadlock is not checked: every one of these systems may rest, when no request comes
or a bound of the model is used up.

### Fairness

Weak fairness of every goroutine that is under way (Go runs it on; every blocking call
returns or fails, and both are steps), of timers, and of polling loops. Nobody outside
has to do anything: no request, subscribe, message, break, crash or overrun is fair. The
one strong fairness is of `Redial`: a reconnect loop dials for ever, and a server that
can be reached again and again is reached in the end. In `EmoteDict` no change,
activation, expiry, backfill or first message is fair, only what follows from one.
`LapseAbandoned` is fair because it is time passing. An idle session need not be reaped;
what is fair is the reaper finishing what it has begun. In `Startup` the start itself goes on,
ffmpeg sees the end of its input, and Wait is called; no process has to end. In `Sender` a
Send runs to its end (its calls have time limits) and so does a reader. In `Metadata` every
runner goes on, since calls upstream have timeouts; in `Seeding` seeds, repairs and renders go
on, and requests keep coming: that is what RequestsSettle is about, under the condition that
nothing the code never repairs stands in the way (`Stalled` names those states).

### What the violations show

* `relay_reaper`: two starts that both miss the registry create one session after the
  other; the first is overwritten, unstopped, where the reaper cannot see it.
* `hub_told`: a grace goroutine that has seen no subscribers deletes the entry of a
  client that subscribed while it was parting.
* `dict_fill`: the comment at `enrich.go:135-136` relies on the delta of a rebuild to fill a
  dictionary that was missing at the first message; the enricher subscribes only after its
  first load, so the delta can be gone before, and nothing reloads.

Two more comments are not kept by the models, and the properties say so without a run of their
own: `subscriber.go:270-272`, that an ensure subscribes an idle channel again (it does not help
when the reaper's unsubscribe is sent after it: `cut`, EventApi), and `vod.go:193-194`, that the
OAuth token given to streamlink worked for the VOD (not when the token came from another viewer
through the shared key: `AnonymousIsAnonymous`, Playback).

## 4. Proofs

Each proof module EXTENDS the components of one service and proves its theorems for every
value of the constants, from one named assumption per module that declares constants (finite
sets where something is counted, bounds that are numbers, `None` outside the other sets). The
argument is always an inductive invariant, with one lemma per conjunct or per action and one
step per action; TLC checked each of them on the instance of its run before it was proved.
The initial states and the steps are those of the component alone, since the parts share no
state: `Spec`, or the specification of its instance, such as `Pages!Spec`.

* **Relay**: that the count of slots is exact (`SlotAccounting`) is not inductive by
  itself. `Shapes` says which sessions handlers, the reaper and supervisors can be
  holding in each phase, and `Registered` that a session found in the registry is not
  being killed or released. The second invariant, `Stopping /\ SomeoneReleases /\ Killed`,
  is about ownership: the compare-and-swap on release and the order mark, remove, kill,
  release leave exactly one path that returns the slot. The action property
  `OnlyStoppedFreed` follows from the first.
* **Irc**: `Capacity` needs `Dialed` (a connection that is dialed but not attached is
  empty and known to one process) and `Moved` (what a reconnect moves came from one
  connection, so it fits on one). `OnlyGivingUpStrands` is proved step by step from the
  same invariant: each action either keeps the channel routed or leaves a process at
  work for it.
* **Sender**: two connections of a session at once take a drop that took out the wrong one
  (`stray`); until then an open connection that is read is the one in the map (`Mapped`), and
  a send drops only what it has seen closed (`Given`). `SingleConnection` is `Mapped` for two.
* **Playlists**: `FollowsApproved` is about the last dial, `Approved` about the URL that is
  fetched too: it passed allowedProxyURL before it is dialled, also after a redirect. `Cleaned`
  is about a loop, whose invariant is `Cut`: before each segment no time is pending, the clock
  shows the time of that segment, and the lines kept so far are clean and end without a
  segment, with the segment just before, or with the one before the break and its
  discontinuity. The last part is why two segments never have two discontinuities between
  them; that the clock is right is why `IsAd` knows every ad, also when a date range
  ends a tenth early or late (`KnowsAds`). The playlist is read in one way (`ReadOnce`), and
  from one segment to the next `Cut` holds again (`SegmentRead`), by induction over the
  segments shown. The theorem is about any window and any single ad break in it, as the model
  is; it holds for the layouts the model names. TLC checked `Cut` beforehand, over every break
  in eight segments.
* **Playback**: `AnonymousIsAnonymous` needs that what the cache and the flight hold is right
  for the key (`Keyed`, `KeptRight`): the token of everybody under the plain keys, under that of
  a VOD with OAuth one that was fetched with an OAuth token Twitch took. The theorem is about
  who is signed in, not about who: that a viewer plays with their own token is false.
* **Startup**: `NothingLeftRunning` comes from `Spawned`, which says where in a start a process
  can run at all. `Pipe` says who may hold the writing end of the pipe and with it
  `EndOfInputReachesFfmpeg`: when streamlink is gone from a relay that is up, nobody holds it.
* **ChatHub**: `NoFeedLeaks` needs that no feed is kept or held twice (`Distinct`).
  `SubscribersServed` comes from `Joined` and `Fed`, which say it as long as no
  subscribe or teardown is at the step that would repair or break it.
* **RenderJobs**: without an overrun a running job in a worker's hands is nobody else's
  (`Leases`); every scale of a done job is in the store or some other job that is open
  or has failed still owes it (`ScalesKept`), and the same for the emote's status.
  `AttemptsBounded` holds with overruns and rests on a count: a lapsed claim makes room
  for one more holder, and each holder that may hand the job back costs one claim.
* **Batch**: frames on their way out are disjoint, and everything pending is younger
  than everything emitted or on its way (`NotOvertaken`, itself inductive with
  `Numbered` and `WaitsForTimer`). From that, `Implements`: every step takes a new
  message, hands on a frame that was owed, or changes nothing of what `Delivery` sees.
* **ClientQueue**: `Waiting` says that what waits in the queue has not been written and is
  older than what its sender is about to put in, `Younger` that two frames of one sender
  wait in their order, `Unwritten` that a sender at work has a new frame; with them `InOrder`
  is one step of the write loop. `ClosedIsLeft` needs `Leaves`: a channel's table has the
  client only if the client's own has the channel, and the read loop is gone when the
  queue is closed. No assumption on the constants is needed.
* **Tokenize**: `Placed` says that the fragments so far read the text up to a place, that what
  is pending comes next in it, and then what is left of the piece, up to where the text has
  been cut. Each action moves that place, and at the end it is the end of the text, which is
  `NothingLost`. An emote that swallows spaces reads them because what is pending then is all
  the spaces there are (`BlanksSpan`). The chains of names are a recursive function from the
  end of the word to its beginning; that it exists (`ChainTable`) and that each chain reads its
  word (`ChainReads`) are inductions over the runes. `SplitsFound` holds because of two names
  that begin a word one begins the other, so there is at most one, and to try the longest is to
  try all (`GreedyIsAny`).
* **EventApi**: `ActiveSubscribed` is nearly inductive (`SubscribedInv`): the run loop works on
  the connection that is kept, and keeps none while it dials, so a snapshot is never sent on a
  connection that a later registration has not seen. A set is excepted (`cut`) only from an
  unsubscribe on this connection until it is subscribed to again.
* **ObjectStores**: an object that is claimed to stay (as long as no restart drops a store or
  the fallback) is found by every later read (`StaysReadable`) because a put that has come to
  its second store has left it in the first (`FirstWritten`), what is written is an object
  (`Solid`), and nothing is claimed while somebody deletes (`NoClaim`).
* **RenderHints**: `OneHint` because who is about to push has the guard alone, and nobody has
  pushed under it (`Alone`).
* **Seeding**: `NeverHollow` is about one request from its first statement to its answer. What
  it has read must stay true until then (`Showing`), although seeds, preloader and events go
  on: no step takes a ready emote out of what the active set shows, but for the two that move
  the set or its login, which the property excepts (`moved`). For that the set a worker fills
  has to be there from when it is prepared (`Furnished`), and so has the active one (`Live`).
* **Accounts**: `SessionNotShared` needs that of all who bear a session on its way from Redis
  to a browser there is one (`Alone`), and `LogoutRevokes` that nobody bears one that ended
  (`Gone`): claims are taken by GETDEL, so a second request finds nothing.
* **Metadata**: a view that is fetched has one leader (`Led`), and neither copy is newer than
  the answer in his hands, so what he writes is never older (`NeverBack`, a step). What a fetch
  has left is there while Redis is (`Kept`), which is what a failing request falls back on as
  long as its own browser waits (`StaleStandsIn`, a step).
* **Reddit**: a page that was asked for was paid for, twice at most (`Priced`).
* **Paging**: while the list stays as it is, the answer holds exactly the streams from the
  browser's cursor to the one it goes on from, and all before the browser's cursor has been
  shown (`Read`). That a page of Helix is taken whole (`HelixGoesOn`) is why the cursor after it
  skips nothing; it holds because no page is larger than what is still missing. What a loop
  over a page leaves is a recursive function, and `TakeWhole` is proved by induction over the
  entries: `AllNumbers` is the principle of induction for a set in place of a predicate, which
  comes from the well-founded order of finite sets in the library, and the function that
  solves the recursion is given outright. Tokenize and Playlists have the same lemma.
* **RateLimit**: `Bounded` becomes inductive when what the bucket holds is counted too
  (`PaidFor`). The arithmetic is a matter of a few products, which the lemmas take apart.
* **EmoteDict**: `Truthful` becomes inductive when it says who brings a missing entry (`Held`):
  its emote is owed, a rebuild is queued, dirty or under way, or a handler is about to add this
  very entry; and an entry too many is either on its way out or was left by a patch under
  another name. `StaleIsKnown` needs `Awaited`, which says the same of an enricher that has
  read and not yet subscribed or swapped. `NeverBlanked` needs `NothingYet` (a reload has
  read something), `StaysBounded` only the types.

Types are proved for all modules but Playlists, Startup, Paging, Reddit, Seeding and Tokenize,
whose invariants state the types they need and no more.

Only model-checked:

* the liveness properties (StartsAnswered, StoppedReleased, EndIsNoticed, Rejoined,
  IdleFeedsClose, SocketsClose, RequestsEnd, RequestsSettle, JobsSettle, Settles, and the fair
  half of Delivers): the prover does not reason about fairness and ENABLED here;
* the violations, which are counterexamples.

## 5. Not modelled, and the plan

Not modelled:

* **the time-series writer** (`internal/timeseries`): nothing in the repository constructs it;
* **YouTube, clips and bans**: scrapers whose only state is a back-off of the kind `Reddit` has;
* **image conversion, asset delivery, source objects**: calls that succeed or fail elsewhere;
* **the text of things**: parsing IRC lines and usher's playlists, what answers carry, how posts
  are recognised and ranked;
* **listener ids** of a session, and the diagnostics and metrics endpoints;
* **the history of streams**, configuration, redaction, test doubles, the frontend, deployment.

Nothing is claimed of a few things that the models do reach: a connection that is dead when
it is attached, JOIN and PART that overtake each other, joins upstream that pile up, a
deletion published before its message, calls that open or close the breaker late, a panic
when a broadcast meets a closed queue; a connection that a drop by session id takes out in the
place of another, and the second one beside it; a logout that a refresh undoes; a word that
greedy cutting leaves whole because one zero-width name begins another; entries of a dictionary
that a patch leaves under another name, or that follow a change made for another channel;
requests that find their channel under the login of a provider; answers of several GQL pages,
which skip the rest of the last one; objects that a restart with one store, or without the
fallback, hides. No line of the repository promises otherwise: the properties name these cases
and make no claim in them.

What would come next: playlists with more than one ad break; the hub composed with the pool
instead of its counts; listener ids.
