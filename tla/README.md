# A TLA+ verification of ad4m-web

ad4m-web is an AD4M executor in TypeScript: an agent keeps *perspectives*, which
are sets of signed links; a perspective can be shared as a *neighbourhood*
through a link language; and the whole state is kept across page reloads in
IndexedDB. The code is single-threaded and asynchronous. Nothing runs in
parallel, but every `await` is a place where anything else may run, and most of
what is hard to test here comes from that.

The modules here describe that code one stretch between two awaits at a time.
TLC checks them on small instances, and the main safety properties of the core are
proved for instances of every size. The core is the perspective manager, its
sync engines and its shared language. Around it stand the persistence, the
conductors and their delegate, the p-diff-sync link language, the language and
neighbourhood managers, both link stores, the agent with its tokens, the
transports, the subscriptions, and the model layer with the SHACL engine.

Paths below are relative to `src/packages/core/src/` unless they say otherwise.

## 1. The system

| Part | State it keeps | Operations | Works with |
| --- | --- | --- | --- |
| Perspective manager (`perspective/manager.ts`) | the handles, an adapter and a sync engine for each shared perspective, the listeners | add, update, remove, restore; addLink(s), removeLink, updateLink, linkMutations, addSdna; setLinkLanguage, syncPerspective, startSync, stopSync | link store, link language, sync engines, every listener |
| Link store (`linkstore/`) | a list of links per perspective | addLink(s), removeLink, removePerspective, queries, dump, load | perspective manager, SHACL engine, persistence |
| Sync engine (`neighbourhood/sync-engine.ts`) | running, state, a timer | start, stop, commit, two callbacks | the adapter of a link language |
| Link languages (`language/shared-link-language.ts`, `language/p-diff-sync.ts`) | the shared links, observers; or the revision, the peers and a callback | commit, sync, addCallback; signals and gossip | Holochain conductor; engines of other agents |
| Neighbourhood manager (`neighbourhood/manager.ts`) | the neighbourhoods by URL | publishFromPerspective, joinFromUrl, telepresence | perspective and language managers |
| Language manager, host, executors (`language/`, `src/packages/executor-browser/src/language`) | installed languages and their sources | install, remove, publish, template | bundle executors, workers |
| Agent service (`agent/`) | did, key, lock state | generate, lock, unlock, sign | wallet store |
| Capabilities (`graphql/capability-service.ts`, `agent/capabilities.ts`, `agent/jwt.ts`) | requests, tokens | requestCapability, permitCapability, generateJwt, revokeToken | GraphQL |
| SHACL engine and model layer (`shacl/`, `model/`) | a cache of shapes; the dirty fields of each object | registerShape, executeAction, createInstance; create, find, update, save, delete | link store, perspective manager |
| PubSub (`graphql/subscriptions.ts`) | subscribers, a queue per iterator | publish, next, return | GraphQL subscriptions |
| Persistence (`persistence/`) | a debounced writer: dirty, timer, writing | saveState, loadState, startAutoSave, stopAutoSave | executor, key-value stores |
| Conductors (`src/packages/client/src/holochain`) | sockets, pending requests, a queue, a retry timer | connect, disconnect, callZome, drain | Holochain |
| Workers and transports (`src/packages/executor-browser/src`, `api/`) | pending requests | execute, destroy | tabs, workers |
| Oxigraph store (`src/packages/executor-browser/src/linkstore`) | quads and a sidecar of link expressions | as the link store | perspective manager |

How they interact. A GraphQL mutation calls the perspective manager. It signs
the link (await), stores it (await), commits it to the adapter of the
perspective if there is one (await), and then calls every listener. The link
language calls its observers from within the commit, the engines of all
replicas pass the diff to the manager's `onDiff`, and `onDiff` is not awaited by
anybody. One of the listeners marks the persistence writer dirty; two seconds
later the writer saves the agent, the handles and the links, one put after the
other.

What makes it hard, and where:

* **Suspended calls.** Checks made before an await (`ensurePerspective`,
  `isShared`) are used after it; `remove`, `stopSync` and other calls come in
  between.
* **Diffs that nobody waits for.** The diffs of several commits and the answer to
  an initial sync are applied in any order, link by link.
* **A subscription that starts while the world moves.** `SyncEngine.start`
  registers its callback, asks for all links, and must not miss what is
  committed in between.
* **Calls that fail half way.** Signing, validation and the adapter may each
  reject after something was already written.
* **A debounced writer** whose timer may fire while a write is under way.
* **Retries and broadcasts.** A commit whose answer is lost is made again;
  a broadcast is heard or not; a conductor is replaced while calls wait for it.
* **Objects saved field by field**, by calls that overlap or fail half way.
* **Crashes.** A page is closed between two puts; it is reloaded from what the
  puts left.

The hazards are listed one by one, with the line where each bites and the
properties that watch it, in `PROJECT.json`.

What makes each part correct, in a sentence each: the manager keeps what it
stores, what it shares and what it announces in step; engines miss no addition,
and there is one per perspective; replicas that are done agree with the language; an
engine that is stopped has no timer and says idle; what is marked dirty is
written; what was saved survives; a queued zome call settles, and no retry is made
that nobody wants; the revisions of agents that gossip meet; an object whose fields are clean
shows what the perspective holds; an instance that is created is found, by every
way to look for it; an agent that is unlocked signs what its did verifies; a call to a worker
settles; a revoked token is not granted again; no instance of a language is left
that nobody can tear down; what is shared can be joined; both link stores hold
the same links; an iterator gives every event once, in order.

## 2. The modules

| Module | What it models |
| --- | --- |
| `SharedLinkLanguage` | what one commit does to the links a neighbourhood shares |
| `PerspectiveManager` | the manager, its engines and the link store, over that language |
| `PerspectiveManager_proofs` | theorems about it, and the proof of the refinement to `SyncEngine` |
| `SyncEngine` | one engine object: the abstract specification of what the manager drives |
| `ManagedEngines` | the refinement from the first to the second |
| `Convergence` | the manager, called by one caller at a time |
| `Convergence_proofs` | the theorem about it |
| `DebouncedWriter` | `createDebouncedWriter` |
| `Persistence` | the coordinator over that writer, the stores, and the page |
| `Conductor` | the reconnecting conductor over the WebSocket conductors it makes |
| `Conductor_proofs` | theorems about it |
| `PDiffSync` | the adapters of several agents over the perspective-diff-sync zome |
| `PDiffSync_proofs` | theorems about their revisions |
| `Models`, `MCModels` | one instance of an `Ad4mModel`, the objects loaded from it, the calls on it |
| `MCModels_proofs` | theorems about them |
| `HolochainDelegate` | the delegate languages register DNAs with, over both conductors |
| `HWCConductor` | the conductor over the browser extension |
| `Languages` | the language manager, its host and workers, and the executor's start and shutdown |
| `Neighbourhoods` | publishing and joining, over `Languages` |
| `Neighbourhoods_proofs` | theorems about both |
| `LinkStore` | what a link store promises: the store in memory |
| `OxigraphLinkStore` | the store over Oxigraph, which implements `LinkStore` |
| `Agent` | the agent service with its wallet, and the tokens it signs |
| `Transport` | calls over a message port, from both ends |
| `PubSub` | publication and the asynchronous iterators |
| `ModelMetadata` | what decorators and JSON Schemas say of a class, and the shape made of it |
| `ModelQueries` | the ways to find instances: over the links, and by SPARQL |
| `ModelIncludes` | queries that include relations: the classes they lead to, their rows, and how these are wired |
| `Subjects` | a perspective with instances of several classes, over these three |
| `MCObjects` | the conductor, the sync engine, the debounced writer, the persistence, the transport and the delegate in one instance |
| `MCObjects_proofs` | theorems about the engine, the writer, the persistence, the transport and the delegate |
| `MCModelLayer`, `MCServices` | the model layer, PubSub, the agent, the Oxigraph store and the extension's conductor in one instance |
| `MCServices_proofs` | theorems about the agent, the Oxigraph store, the extension's conductor, the iterators and queries with includes |
| `MC...` | small instances and history variables for TLC |

`MCObjects` and `MCServices` are no compositions of parts that interact: their
parts share no state, so each behaviour picks one of them and leaves the others
alone. Their states are those of each part in turn. Compositions that do
interact are the manager with its engines and the language, `Persistence` over
`DebouncedWriter`, `Neighbourhoods` over `Languages`, and `Subjects` over the
definitions of the model layer.

Definitions whose comment begins with `Mutant` are deliberate errors of the kind a later
edit of the code could make. No specification uses them; each stands before the
definition it would replace and shows that some property notices.

### PerspectiveManager

| Variable | Code |
| --- | --- |
| `handles`, `adapters`, `syncEngines` | the three maps of the manager |
| `engines` | the `SyncEngine` objects, also those no map points to any more |
| `store` | the link store: the links of each perspective |
| `net` | the links in the language's shared store |
| `jobs` | every call that is suspended at an await: what it still has to add and to remove, and what it has |
| `view` | the links a listener would hold that only follows the events |
| `minted`, `removing`, `accepted`, `halfDone` | history, read by properties only (`minted` also keeps links from being signed twice) |

Uuids are unique and every map of the manager is keyed by them, so one module
stands for one agent with many perspectives and for many agents with one each.
Two uuids that share the language are two replicas of a neighbourhood.

A call is one action up to its first await (`AddLinks`, `RemoveLink`,
`UpdateLink`, `LinkMutations`, `AddSdna`, `SyncPerspective`, `StartSync`) and
then a job that goes on in further actions: `SignFails`, `StoreOne`,
`StoreThrows`, `RemoveOne`, then `PushPrivate` when there is no adapter, or
`PushCommit` (the language takes the diff and calls the observers before it
returns), `PushLost`, and `CommitResolves` or `CommitRejects`. A run of `onDiff`
is a job of kind `diff` and goes on by `DiffAdd` and `DiffNext`.

Abstractions, and why they are sound for the properties:

* A list of links is a set; the order in which a list is worked off is left
  open. The code's order is one of those allowed.
* Jobs that are equal in every part are one job: two equal runs of `onDiff` have
  the same effect as one.
* A link is one element exactly when `linksMatch` takes two expressions for the
  same. The language compares less, `Triple[l]`; so twins (the same triple signed
  twice) are two links of one triple.
* Of several twins the language removes the oldest; the model removes any.
* The link store's own awaits are micro-tasks with no effect in between, except
  in `addLinks`, which is one action per link.
* The periodic sync of an engine drops its answer: with the shared language it
  changes nothing and is no action.
* `currentRevision` is written and never read.

### SyncEngine and ManagedEngines

`SyncEngine` has any number of calls of `start()` and `commit()` suspended at
their awaits, and keeps the interval field apart from the timers that exist, so
that a timer nobody can clear is visible. `ManagedEngines` maps an engine record
of the manager to it: one `start()`, no `commit()` (the manager commits to the
adapter directly, although `src/ARCHITECTURE.md:114` speaks of
`SyncEngine.commit()`). `EnginesConform` says that every step of the manager is
a step of every engine, or none.

### DebouncedWriter and Persistence

`DebouncedWriter` has the three variables of the closure. `MarkDirty` calls
`schedule`, so a pending timer stays. `DoWrite` is the guard and the part before
the await; `WriteEnds` the `finally`.

`Persistence` adds the memory, the disk and the page. `mode` is where the page
is; `saves` are runs of `saveState`, each waiting for the put it has begun and
holding what it has read for it. `addLink` is `AddLink` up to the signature and `Signed` after it,
when the perspective may be gone. The agent is read when a run begins, the
handles when the agent is stored, the links when the handles are. `Close` takes
all that is in memory and every run. `troubled` and `overlapped` record what the
code gives no guarantee for: a refused put, an event with no listener, and two
overlapping runs (a run begun by hand, or by a writer that was stopped, against
another).

### Conductor

| Variable | Code |
| --- | --- |
| `config`, `timer`, `retryCount`, `inner`, `queue` | the fields of `ReconnectingHolochainConductor`; the inner conductors are numbered as they are made |
| `conn`, `admin`, `app` | of each WebSocket conductor: the state it reports, and its two sockets |
| `installing`, `attempts` | an `installApp()` or a `connect()` that is suspended |
| `call`, `on` | where each `callZome()` is, and the conductor it was handed to |
| `drains` | the runs of `drainQueue`, each with the calls it has left |

`Connect`, `Disconnect`, `InstallApp`, `CallZome` and `TimerFires` are the
entries; `Opens`, `Fails`, `InstallAnswered`, `AppOpens`, `InstallFails`,
`Signed`, `Answered` and `TimesOut` resume after an await. `DrainQueue` and
`ScheduleReconnect` are parts of the actions that call them. There is no action for
a socket that closes: the code registers no handler for it, so a broken connection
shows in requests that time out and in nothing else. Left out: the callbacks
for signals and states, and admin requests that change nothing here.

### PDiffSync

`current` is the zome's, one revision for each agent; `myRevision`, `peers` and
`reported` are the fields of each `PDiffSyncAdapter`; `runs` are calls of
`sync()`, which go on into the gossip round; `commit` holds the calls of
`commit()`.

The zome is external and modelled from how the adapter uses it. A revision is the set of
entries it stands for. `sync` answers with the agent's revision and
broadcasts it, and the broadcast is heard at once by some of the agents and by the
others never. `commit` adds an entry. `pull` moves forward to a
revision that contains the own one, or, if the caller is the scribe, merges two that have
parted. The adapter takes the revision in the answer to a pull, or keeps its own when there is none in it.
An answer may be lost after the zome has done the work, so a commit that is
retried can be made twice. Left out: the DID link of the first sync, which
nothing reads, and the telepresence adapter.

A merge is an entry of its own: `Merges` bounds how many there may be and holds no entry of a
commit (`GossipAssumption`), and when all are made the scribe merges no more.

The revision of every peer counts by itself in a round, as in the code,
although the comment at `language/p-diff-sync.ts:182` speaks of unique ones.

### Models

| Variable | Code |
| --- | --- |
| `links` | the links of one instance: of each field, in the order of the store |
| `fields`, `dirtyFields` | of each object that was loaded: its values, and `_dirtyFields` in insertion order |
| `runs` | the calls: the position in the dirty fields, the links still to be removed, the value to be written |

`create()` is `Create`, `Constructs` and `Defaults` (the SHACL engine: constructor
actions, then data of fields without a link), `StartsWriting` and, for each field
of the data, the same `Rewrites`, `Signed` and `Stored` that `save()` goes through.
`delete()` is `Delete` and `Purges` (the destructor). `Rejects` is a signature or a
commit that is refused. A JavaScript set is iterated live: a field
added during a loop is visited, and `clear()` puts every loop under way at the
beginning of an empty set. `NextField` says so; a position is reset to 1. The loop passes over
the fields that are `ReadOnly`, and the set that is cleared at the end has them too. A field that is
read-only (`@ReadOnly`, or a flag) is written by the engine alone, when `create()` is given data for it;
`update()` sets and marks it like any other.
`Hydrated` is `hydrateFromLinks`: of several links of a field the last one counts.
All reads and writes go by the predicate of a field, so the order of links of different fields
is not kept. `OpsAssumption` numbers the calls; `FieldsAssumption` says that fields are
declared in sequences, and required ones once each; `DataAssumption` says that the data of a call are fields.

Each call writes a value of its own, so a value tells whose it is. Values are
strings and numbers, which are read back as written (booleans are not: they are written
as `literal://json:`, which `parseLiteral` does not know). Setting a field
and marking it by hand, as the tests do, is an `update()` up to its save.

### Languages and Neighbourhoods

An instance of a language is named for the call of `install()` that made it.
`loaded` is the host's map, `sources`, `metadata` and `settings` those of the
manager; `instance` says whether the worker of each instance is starting, live
or dead. `Install` goes through `Resolved` (only without a bundle), `Executed`
or one of `CreateThrows`, `InitFails` and `InitTimesOut`, and `Installed`, where the host's
map is written. `Uninstall` unloads at once and forgets the address a step later.
The executor's `initialize()` installs one address after the other and goes on when one
fails; `shutdown()` works from the metadata of the moment. `mishap` records that calls
overlapped or that a teardown threw, `replaced` the instances another one was
loaded in place of (the code does not tear these down).

`Neighbourhoods` adds handles, the map of perspectives, the content store, and
the engines of `startSync`. `Publish`, `Signed`, `Put` and `Join`, `Got`,
`Built` are the stretches of the two calls; both end in `Wires`, which looks
the language up after the awaits, and in `Started`. Perspectives are added and removed,
engines stopped, and languages installed and removed meanwhile. The content store may have no
expression or reject (`Got`). Left out is that a joiner takes the hApp from the source of the template a
language was made from: it does so when it has metadata of the language and no source that
decodes, and both come and go together.

### Link stores

`LinkStore` is the abstract specification: each perspective has a sequence of
validated links, no two the same. `OxigraphLinkStore` keeps a quad for each triple
and a sidecar by key. `AllLinks` is the refinement mapping, and `ImplementsMemory`
says that each step of one is a step of the other, with the same argument, but for
`FindsEmpty`: an empty predicate finds the link without one here, and nothing in memory.

### Agent and Transport, PubSub, conductors

`Agent`: a key pair is known by the call that made it. `Generate`, `Unlock` and
`GenerateJwt` are the calls up to their await, `Generated`, `SaveFails`,
`Unlocked`, `UnlockFails` and `JwtSigned` the rest. `Reload` keeps the wallet
and nothing else, and of a save under way either the old record or the new.
`SignedExpression` and `Verifies` are the two halves of `agent/signing.ts`.

`Transport`: three clients that keep pending calls in the same way and differ
in what is exact: `graphql` has a timer per call and refuses calls once it was destroyed, `api`
has a timer and is never destroyed, `language` has no timer. The worker takes
requests in order and answers in any; the first request of the shared worker boots the
executor.

`PubSub`: `resolver` is the one promise an iterator remembers, so a second `next()` that
finds no event takes the place of the first. Events are numbered.

`HWCConductor`: the extension may be injected late, and answers a `connect()` or a
`disconnect()` at any time; `handlers` are the status handlers it still has, `unsub` the one
that `disconnect()` takes back.

`HolochainDelegate`: a cell is named for the registration and the nick it was installed for (over the extension, which has one
key, for the nick alone), a signer for the cell whose credentials made it. `CallRuns` says
whether a call of a nick reaches a cell that was granted to the signer.

### The model layer

Two modules at two grains. `Models` cuts the calls on one instance at their awaits;
`Subjects` takes each call as one step and has several classes.

`ModelMetadata` follows the decorators into the two tables that each
class has: `Holders` is the lookup through superclasses, which is why the
decorators of a subclass write into the table of its parent. `FromJSONSchema`
fills them from a schema, `Shape` is what is registered with the engine.
`ModelQueries` has the two readers side by side: `FindAll` filters hydrated
instances, `Rows` and `SparqlAnswers` say what the SPARQL query of a class
answers, over the set of triples. With an offset or a limit, which count rows,
an answer is any of the sets the rows left may give. `ModelIncludes` follows a tree of includes
to the class each leads to (`TargetsOf`, a function of the place in the tree: an include comes after the one it
is nested under, `TreesAssumption`), numbers those that remain, as the query does, and `Wired` hangs the rows on parents.
The classes, their decorators and the queries are constants of `Subjects` and of `MCModelLayer`; `MCClasses` has those of the run.
`Subjects` keeps the links of a perspective, the engine's cache of shapes, and
what was made of each base. Node addresses are tagged tuples; a literal is its type and its text.

## 3. What is checked

| Run | Instance | Shows |
| --- | --- | --- |
| `PM_replicas` | 2 replicas, 2 engines, 2 twin links, shared language, at most 2 suspended calls; perspectives added and removed, links added, removed and updated, engines started and stopped; 550 000 states | `TypeOK`; `OneLiveEngine`; `NoMissedAddition`; `NoWriteAfterRemoval` |
| `PM_faults` | 1 perspective, 2 engines, 2 links of which one is invalid, bundled language, every operation, signing, validation, sync and commit may fail; 78 000 states | `OnlyValidLinks`; `NoSilentLink`; `AnnouncedWhenAccepted`; `EnginesConform` |
| `PM_live` | 2 replicas, 2 engines, 1 link, an adapter that may reject; no symmetry; 373 000 states | `EventuallyReplicated` |
| `CV_agree` | 2 replicas, 3 engines, 3 links, one call at a time, every operation; 950 000 states | `Agreement` |
| `OB_rest` | sync engine: 3 starts, 2 commits, an adapter that reports a state; debounced writer: 5 changes; conductor: 2 zome calls, 2 calls of `connect()`, 2 retries; persistence: 1 perspective, 1 link; transport: 3 calls; delegate: 2 registrations of up to 2 DNAs; 279 000 states | `TimersOfEngine`; `RestIsWritten`, `TimedChangeIsWritten`; `NothingWaitsConnected`, `NoRetryUnwanted`, `QueuedCallsSettle`, `AllRetriesMade`, `LiveConductorStays`; `RestIsSaved`, `SavedSurvives`, `DueIsSaved`; `CallsSettle`; `CallsAuthorised` |
| `PD_gossip` | 2 agents with a commit each, one of them tried twice; 325 000 states | `RevisionsMeet` |
| `NB_join` | languages: 2 addresses, 3 calls, the executor; or neighbourhoods: 2 perspectives, 2 calls that share, 1 address, 2 calls of the language manager; 2 700 000 states | `NoOrphan`, `ShutdownUnloads`; `SharedCanBeJoined`, `SyncedAfterStart` |
| `SV_calls` | `create()` and 2 more calls on an instance, through 2 objects; 4 classes with 3 bases; 2 iterators, 3 events, 2 calls of `next()` each; 3 calls of the agent, 2 requests for tokens; an Oxigraph graph with up to 3 links; 3 connections and 2 listeners of the extension; 1 200 000 states | `SingleValued`, `CleanIsStored`, `FieldKept`; `CreatedIsFound`, `ReadersAgree`, `IncludesWired`; `EventsInOrder`; `StatusIsTrue`, `RevokedForGood`; `QuadsOfLinks`, `ImplementsMemory`; `NoStrayHandler` |
| `SE_idle`, `DW_wakeup`, `CD_queue`, `MD_update` | | what the code does not do: see the next section |

All runs set `CHECK_DEADLOCK FALSE`: callers may stop calling, and each link and
uuid is used once, so every instance comes to rest.

The bounds, and why they do:

* `MaxOpen` (suspended calls and starts when a new call is made). With 2, any two
  calls interleave at every await, each with the diffs they cause; those are not
  counted, so more is suspended than `MaxOpen`.
* Two links are enough for a twin, for a batch that is stored in part, and for a
  removal that overtakes an addition. Two engines let one replica restart or two
  replicas run; `Convergence` has a third, so that a replica restarts
  next to one that runs.
* `MaxMarks` (changes of the debounced value): a lost wakeup takes three.
* One perspective, one link and one run of `saveState` in the persistence part of `OB_rest`: each property speaks about one link
  or one handle at a time, and no action of the coordinator relates two; runs
  that overlap are outside of the properties.
* The conductor: two calls make a queue with an order, two calls of `connect()`
  overlap, two retries tell the last one from the others. `MaxInner` (WebSocket
  conductors made) is larger than what these can make and is never reached.
* `PD_gossip`: two agents are a scribe and one that is not; `Slots` is 1 because the
  engine awaits its `sync()` and only a restart can overlap two; there
  are more `Merges` than are ever made; the code's five attempts of a commit are two
  and one here, enough for a commit that is made twice. That three agents may
  take two of them for scribes is not explored.
* `SV_calls`, one instance: a required field, an optional one and an optional one that is read-only.
  Two fields make a loop that can be cut short, a third one that is passed over alone or next to another, two objects a change one
  of them has not seen, and two calls after `create()` an overlap, a retry, or
  an update of what somebody else changed. `NewData` and `Changes`, the fields that a call may be given
  data for, hold each of these cases once.
* `SV_calls`, several classes: a parent, a subclass, a class with a relation to itself and one from a
  schema, defined in one `Order`; which instances may be made, and after which,
  is `MCMade`, so that a chain of three, for a relation of a relation, can come about, within 6 links.
  Only classes in `Sought` are looked for before one is made; a link is added once,
  links of the engine are removed by `delete()` only, and `loadShapes()` comes
  before all instances. No relation to one instance has two links. The texts are one that is stored as it is
  ("x"), one that is not ("y/z"), and one that reads like the latter as it is stored ("y%2Fz", which is only asked for);
  the title of a post has the second and is set to the first.
* Three links of a graph are a pair of one triple and another; three numbered calls of the
  agent are a generate, an unlock and another generate or a token, around any locks; three
  connections let two overlap and a third come after them.
* `NB_join`: three calls on two addresses let one be replaced while another
  waits; two calls that share are a publication and a join of it, or two of
  either.
* The delegate: two registrations of two DNAs let grants and credentials of two
  cells overlap, and a nick be registered twice.
* Symmetry is used in runs of safety properties only, over sets whose elements
  no definition tells apart; links are symmetric when their triples are all
  equal or all different.

Fairness. `PM_live` assumes that a pending addition is eventually made and that
a start goes on or fails: the event loop runs every suspended call, and the
link store's promises always settle. It does not assume that an adapter succeeds. `OB_rest` assumes of the
persistence that timers fire and that puts are answered, of the transport that timers fire (and of no worker that it answers), and of the conductor that an attempt to open a socket ends (WebSocket
says open or error), that the retry timer fires, that signatures are made, and that a request is
answered or times out (the code sets a timer for each). It does not
assume that any attempt succeeds. `PD_gossip` assumes that the interval of a running engine fires and that
a call of the zome ends; `RevisionsMeet` is about the time from which gossip also works
(`GossipWorks`: broadcasts are heard and calls succeed), which is the property's antecedent
and no fairness: until then anything may be lost.

## 4. What the code does not do

Four runs check a sentence of the repository and find it untrue of the code.

* `SE_idle`: a test is called "stop() sets idle state and prevents further
  commits". When `stop()` comes while `start()` awaits its first sync, `start()`
  goes on: the stopped engine says `synced`, and sets a timer nobody clears.
* `DW_wakeup`: `src/ARCHITECTURE.md:309` says the writer flushes what is marked
  dirty. A change made during a write that outlasts the interval is not written:
  its timer fires, `doWrite` returns because a write is under way, and no timer
  is set until the next change.
* `CD_queue`: `src/ARCHITECTURE.md:154` says that zome calls are queued while
  disconnected and drained on reconnect. Each retry makes a new WebSocket conductor,
  whose app socket is opened by `installApp()` alone; the queue is drained as soon as the
  admin socket is open, and every call rejects.
* `MD_update`: a comment says "Bulk update fields and save." (`model/Ad4mModel.ts:393`).
  Two overlapping `update()` calls of two fields: the first `save()` clears the
  dirty fields when it is done, the loop of the second ends early, both resolve, and
  a value the object shows is in no link.

One more sentence is untrue of what a passing run shows, and two of what a passing property
has to leave out:

* `src/ARCHITECTURE.md:386-395` ("Agent Creates a Link") announces the link, with `PubSub.publish`, before
  `SyncEngine.commit()`. The code awaits the commit first and emits after it (`perspective/manager.ts:142-144`,
  and so in the other calls): the run `PM_faults` shows with `AnnouncedWhenAccepted` that no listener hears of a link the
  language has not taken. When the commit is rejected no event comes at all; in the order of the document there would be one.
* The comment that `MD_update` is about, "Bulk update fields and save.", and one `update()` of a read-only field: the object has the new
  value, `save()` passes over the field (`model/Ad4mModel.ts:356-357`) and then clears the whole dirty set (`:379`),
  so the field is taken for saved and its value is in no link. `CleanIsStored` counts the field of this object as `stale`
  from then on, and would be violated if it did not; `SingleValued` and `FieldKept` hold of such fields too.
* `model/sparql-utils.ts:39` says that `toLiteralURI` gives the URI of a value "as stored in the link graph". It does not
  encode the text, and `valueToLiteral` does (`model/Ad4mModel.ts:413`). So a SPARQL query for equality, inequality or membership of a list
  with "y/z" compares with what no link holds, one with "y%2Fz" meets the instances of "y/z",
  and one with a space does not parse; a boolean is `literal://boolean:` in the query and
  `literal://json:` in the link. `ReadersAgree` compares the two readers with the texts of the query taken
  as they are stored (`AsStored`), and is violated when both are asked for the same text.

Two more need no run, as they take one step. `addSdna` stores two links and
emits nothing, although `src/ARCHITECTURE.md:115` says that events fire on any link
mutation and drive the auto-save (`NoSilentLink` leaves its links out as `halfDone`). The agent's status is saved and never
read back by `loadState`, although `src/ARCHITECTURE.md:304` says that all state
survives reloads (`LoadHandles` of `Persistence` leaves `agent` alone).

Where the code of the model layer, the languages and the services differs from what its names
suggest, the modules follow the code. The differences that shaped them:

* Decorators: `model/decorators.ts:5` says the metadata is kept per class; a
  subclass inherits its parent's table and writes into it.
* `findAll` ignores the value of a flag, `between`, and the model and field of a
  parent, and never finds classes without a required property; conditions on
  relations compare arrays; `timestamp` matches nothing.
* SPARQL: lists are joined by spaces and do not parse; `STR` of a literal compares
  whole addresses as text; limits and offsets count rows; conditions on author and
  time are applied to rows that have neither. Queries with includes ignore operators and compare literals
  with bare values; an address at two depths or with two parents is wired once.
  `ReadersAgree` and `IncludesWired` are about what the readers share.
* Relations that are declared `belongsTo` are hydrated from outgoing links;
  instances that were created have no author; booleans are written in a form that is not
  read back; `addSdna` writes links that `parseShapes` does not read; the first parse
  of the shapes is kept for good, and `loadShapes` drops what was registered.
  `ModelQueryBuilder.include` is ignored and its `subscribe()` runs once.
* Languages: a language that is installed again leaves its old instance alive; a
  teardown that throws loses the metadata of a language that stays loaded, and ends a shutdown; a
  perspective that is published again keeps its old engine; a handle without an adapter
  says synced; a worker whose initialization fails keeps running.
* A call on the proxy of a language after `destroy()` never settles. The shared
  worker keeps the promise of a bootstrap that failed.
* Overlapping calls of `generateJwt` grant a request again that was revoked
  between them.
* Oxigraph: links of one triple share a quad, and the removal of one deletes it
  (`orphaned`). Keys are split at `|`.
* `hwc-conductor.ts:293` says that signals will work after connect; a listener that
  comes before the extension is never relayed to. Two connects with no
  disconnect between them leave a status handler.
* The delegate the factory makes is shared by all languages: a nick that two of them
  register stands for the cell of the second, and each gets the signals of both. Two
  registrations that both find no signer leave the cell of the first with another one's.

Other gaps are excluded by name in the properties, because the code does nothing
about them and no text claims it does: links of calls that fail half way
(`halfDone`); removals made while an engine is stopped (`missed`); two overlapping
calls, one of them a removal (`Convergence` makes one call at a time); saves that
overlap (`overlapped`); an engine left running by `remove()` (`Touching`); a
`connect()` while another connection is being made (`overlapped` of `MCConductor`), and an
attempt that succeeds after `disconnect()`; calls on one instance that overlap
(`overlapped` of `MCModels`), what another object has changed and the read-only fields that `update()` has set (`stale`); the links of optional
fields, which `delete()` leaves.

## 5. What is proved

Theorems of the specifications that TLC runs, for every value of the
constants that the named assumptions allow. The assumptions are those of the modules; TLC evaluates
each of them, in the runs of the modules that extend theirs. In outline every proof is
the same: an inductive invariant, one lemma that each step keeps it (one step of the proof per
action), and the property from the invariant. The invariants of the hard
ones were first checked by TLC as invariants of the runs below.

| Module | Properties proved | For any number of | Assumptions |
| --- | --- | --- | --- |
| `PerspectiveManager_proofs` | `TypeOK`, `OneLiveEngine`, `OnlyValidLinks`, `NoMissedAddition`, `NoSilentLink`, `AnnouncedWhenAccepted`, `NoWriteAfterRemoval`, `EnginesConform` | replicas, engines, links and triples, both variants of the language, with or without faults | `TripleAssumption`, `ManagerAssumption` |
| `Convergence_proofs` | `Agreement` | the same | the same, and `NoTwins` as a hypothesis: no two links have the same triple |
| `Conductor_proofs` | `NoRetryUnwanted`, `NothingWaitsConnected`, `AllRetriesMade`, `LiveConductorStays` | calls, connections and retries | `ConductorAssumption` |
| `Neighbourhoods_proofs` | `NoOrphan`, `ShutdownUnloads`, `SharedCanBeJoined`, `SyncedAfterStart` | addresses, calls of both managers, perspectives | `LanguagesAssumption`, `SharesAssumption` |
| `MCObjects_proofs` | `TimersOfEngine`, `RestIsWritten`, `RestIsSaved`, `SavedSurvives`, `DueHasTimer`, `SettlesOnce`, `CallsAuthorised` | starts, commits, changes, perspectives, links, saves, calls of the transport, registrations and nicks | `EngineAssumption`, `DelegateAssumption` |
| `MCServices_proofs` | `StatusIsTrue`, `RevokedForGood`, `NoStrayHandler`, `QuadsOfLinks`, `ImplementsMemory`, `EventsInOrder`, `IncludesWired` | calls, requests, connections, listeners, perspectives, links, dumps and loads, iterators, events and calls of `next()`; classes, decorators and trees of includes | `ServicesAssumption`, `TreesAssumption` |
| `PDiffSync_proofs` | `CommitsKept`, `RevisionsLag` | agents, commits with any number of attempts, merges, calls of `sync()` | `GossipAssumption` |
| `MCModels_proofs` | `FieldKept`, `SingleValued`, `CleanIsStored` | fields, objects and calls | `OpsAssumption`, `FieldsAssumption`, `DataAssumption` |

**The manager.** `TypeOK` is not inductive alone: the uuid of an engine that
answers its sync must be a uuid, which takes `EngineInv` (an engine past `new`
has a perspective that was added, the map points to the running engine and back).
The two are inductive together (`TypeStep`, `EngineStep`), and `EngineInv` gives
`OneLiveEngine`. Over them, `ValidInv` says that what a job has added, what a
diff will add and what an engine will be told are valid, because links enter by
`StoreOne` alone; `JobInv` says that whatever a job removes was asked for
(`LinkStep`).

`NoMissedAddition` needs the state of an engine whose initial sync is pending:
`ReachInv` says that every link of the language is then in the answer under way
or already in the store or in a diff. A commit changes `net`; the engines that
run hear of it (`Observers`), so the link is stored or pending for them whether
or not their sync has answered. All other steps keep `net`, and keep every link
that nobody removes where it is or on its way (`KeepsReached`), which `KeepsIf`
reduces to one condition on stores and one on jobs. `ReachKept` does the rest.

`NoSilentLink` rests on `CarryInv`: what a suspended call has stored it carries to
its announcement. `Told` (announced, or carried) is kept for every link of a perspective that stays in the map
(`KeepsTold`), unless the history says that its call failed. `AnnouncedWhenAccepted` rests on
`TakenInv`: what comes from the language it has taken, and so has what a call past its commit
has stored. `NoWriteAfterRemoval` is an action property: no engine comes to work for a perspective that
left the map (`Working`), and without engine and call nothing writes.

**Convergence.** `Agreement` is proved over the invariants of the manager. `AloneInv`: while a call has not committed
it is the only thing under way, because the next call is made at rest and a diff starts with a commit or an answer.
`SignedInv`: a link is signed once, so what a call commits was in no store and in no commit before. With both, `CurrentInv` says
that the diffs under way agree with the language (it holds what they add and nothing of what they remove), and so do the
answers of engines that start. `AgreeInv` is then the property for every state: a link of a replica is in the language or
a diff takes it out; a link of the language is in the replica or on its way, or its own call removes it.
The steps of one kind keep it by one lemma each (`AgreeCall`, `AgreeCommit`, `AgreeDiff`, `AgreeStart`). The hypothesis
`NoTwins` is needed: the language removes by triple, and may take out the other of two links with the same one; on an instance
with twins TLC finds `Agreement` violated. The theorem covers what `CV_agree` leaves out:
steps that fail and links that are not valid.

**The refinement of the engine.** An engine that is stopped or was never
started has no timer (`FreshInv`), so it meets the initial condition of `SyncEngine` when the
manager makes it; `EngineConforms` goes through the actions of the manager and
gives for each the step of `SyncEngine` or the stutter. This is safety only; that the manager's
engines are also as fair as `SyncEngine` is not claimed.

**The conductor.** `NoRetryUnwanted` is inductive: `ScheduleReconnect`, the only place that
sets the timer, asks for a config. `NothingWaitsConnected`
needs `InnersTypeOK`, so that the states of the inner conductors are a function on
them, and that `DrainQueue` leaves no queue (`DrainQueueEmpties`). `AllRetriesMade`
needs `CountInv`: while a connection is wanted, what was counted was tried, or its timer is set.
`LiveConductorStays` needs `OneAttempt`: without overlapping connects there is one attempt at a time, for the
conductor in use, and a retry is only prepared without one.

**Languages and neighbourhoods.** `HeldIsLive` and `LiveIsHeld` relate the host's map and the
instances in both directions, `NotYet` says what an instance is before its call has executed the
bundle; together they are inductive and give `NoOrphan`. `ShutdownUnloads` needs, without mishap, that
calls come one at a time (`OneAtATime`), that what is loaded has metadata or is about to (`HasMetadata`), and
that what is loaded while the executor closes is still to be uninstalled (`ToUninstall`). `SharedCanBeJoined` needs
`StoredOnce`, `SyncedAfterStart` needs `SyncedByCall`. Both are proved of `Spec`, in which the two managers take steps
side by side; `RunIsSpec` says that the specification TLC runs implies it.

**Engine, writer, persistence, delegate.** `EngineInv` counts starts and timers as long as no `stop()` outran a
call. `WriterInv` says that a run under way has a copy of the value when nothing is dirty.
`DurableInv`: what a save completed with is on the disk, in the memory of a page that is up, and in what every run has
read and not yet put; `FreshInv`: what was read for the put under way is what memory holds, but for links whose event is
still to come (`Alike`). `OneSigner`: credentials are made while there is no signer, for one cell at a time.

**Agent, store, extension.** `StatusInv` holds the agent and its wallet together but for the one call of
`generate` that is saving; `TokenInv` says that a request that is not hurried has one call, which finds it
pending. `StoreInv` says that no two entries of the sidecar have one key, and relates quads and entries in both
directions. The refinement of the store in memory goes by step: `AddRefines`, `RemoveRefines`, over lemmas on sequences (the
index a removal finds in the sidecar is the index of the link it shows). `EventsInOrder` needs `WaitInv`: of the calls of an
open iterator only the last one waits, it was given nothing, and nothing is queued meanwhile; so what an event gives it comes after all
that was given. `OrderedGive`, `OrderedQueue` and `OrderedTake` say of the three ways an event can go that they keep the order.

**Models.** `Shape` has the types and the phases of calls. `FieldKept` needs `KeptInv`, which
lists what keeps a required field while calls overlap: a link, a constructor that has still to add one, a call that removes
and will add its own. `SingleValued` needs `SingleInv`: one call is under way, and it knows all links of its field
when it begins to remove them. `CleanIsStored` needs `StoredInv`: a `save()` has written the dirty fields before its position,
so that what it clears at the end is stored; a field it is rewriting is still among the dirty ones if it
rejects. No `save()` writes a read-only field (`RunOK`), so what it clears says nothing of these: they agree with
the perspective, dirty or not, until an `update()` or another object makes them stale (`CleanStored`). `GoesOnStep`, `UpdateStep` and `SaveStep` say once what the loops of `save()` and `create()` do.

**p-diff-sync.** `RevisionsMeet` is liveness; what safety it rests on is stated and proved in
`PDiffSync_proofs` (no run repeats it): a commit that has resolved is in the revision of its author (`CommitsKept`),
and what an adapter takes for a revision, its own or a peer's, lags behind the real one and is never ahead of it
(`RevisionsLag`). The inductive invariant `GossipInv` says what an answer under way may hold: `RunsInv` of the
calls of `sync()`, whose round goes on with revisions that some agent has had; `CommitsInv` of a
commit, one of whose attempts is in the zome when the answer to it is; `HeardInv` of what was heard of peers;
`AuthorInv` that nobody has an entry before its author. Revisions only grow (`RevisionGrows`), so
what was heard stays true (`RunOkGrown`, `CommitOkGrown`). A round works off the peers in an order made by `SetToSeqs`, and
`SelectInSeq` finds the next that is new; that this is a place of the sequence takes the least element of a
set of numbers (`LeastNumber`, from the well-foundedness of `<`). Without `Merges` apart from the entries of commits
a merge could stand for a commit that nobody made.

**Transport.** `DueHasTimer` is the safety half of `CallsSettle`: a call that waits, of a client that gives its calls a
timer, has one, so that time settles it. `SettlesOnce` is an action property: what settled stays as it settled, though answers come late,
twice, or after `destroy()`. Both rest on `CallsInv`, on what a client still has pending.

**Queries with includes.** `IncludesWired` is about whatever classes, decorators and trees of includes there are.
`TargetsOf` is a recursive function over the places of a tree. That it satisfies the equation it is written with
(`TargetsEquation`) is shown by a least counterexample: what solves the equation up to one place can be continued to the next
(`OneMoreTarget`). So an include that remains is nested under one that remains (`TargetsRemain`), and the number it is
given, a cardinality, is greater than that of its parent and unlike that of any other (`DepthIncreases`). A row thus belongs to one
branch (`BranchOf`), what is wired is made of one row, and its parent is of the group that was wired before
(`RowOfBranch`, `GroupOf`, `WiredToParent`). The decorators of a class that is defined do not change (`DefinedInv`).

Induction over data is used in this form only: a set of counterexamples has a least element. The induction theorems of the library
take an operator as a parameter and cannot be applied.

Only model-checked:

* liveness (`EventuallyReplicated`, `TimedChangeIsWritten`,
  `DueIsSaved`, `QueuedCallsSettle`, `RevisionsMeet`, `CallsSettle`), which rests on fairness and `ENABLED` and is out of the prover's
  reach;
* `CreatedIsFound` and `ReadersAgree`: they are no facts about all classes. Which instances the readers find
  depends on the decorators and the queries that were given (section 4 names some for which they
  differ), and what each reader answers is a fold or a selection over the links of a base, of which the
  provers know only the types. TLC checks them on the classes and queries of `MCClasses`.

## 6. What is not modelled, and the plan

Not modelled at all, because it keeps no state of its own or only passes calls on: GraphQL
resolvers and schema, the methods of the executor API, the user interface and
the server, the service worker. Not modelled because the properties do not tell
the data apart: text of queries, literals beyond their type, cryptography, key
formats, encryption, the claims of a token. The matching of capabilities,
friends and trusted agents are pure functions, or sets with getters and
setters. Telepresence passes calls to an adapter. Of the model layer,
transforms, templates of predicates, and the fluent builder are left out; of
the SHACL engine, the actions on collections that the model layer does not
call. What is `partly` modelled, and what is left out of it, is said per component in
`PROJECT.json`.

One step of the composition is not taken: `PDiffSync` under the manager's adapter in
place of `SharedLinkLanguage`. Its state space is the product of the two; what
the manager relies on of a language is `SharedLinkLanguage`, and `RevisionsMeet` is
what p-diff-sync gives.
