# A formal model of galacteek

galacteek is a browser and toolbox for the distributed web, written in Python on
asyncio. One event loop runs hundreds of coroutines that share mutable state and
suspend at every call of the IPFS node. The code has almost no threads; what makes
it hard is what may run *between* two `await`s, and what is left when the node does
not answer, a coroutine is cancelled or the application stops. That is what this
directory models: the state machines of galacteek at the granularity of its
suspension points, checked with TLC on small instances and, for the most important
ones, proved with TLAPS for every instance.

All paths below are relative to `src/galacteek/`.

## 1. Inventory

| Component | State it keeps | Operations | What is hard |
|---|---|---|---|
| **EvolvingDAG** `ipfs/dag.py` | document `dagRoot`, metadata `dagMeta` (latest CID, history), `loaded`, RW lock, portal cache; metadata file in the MFS | `load`, `ipfsSave`, `async with dag`, `rewind`, `read`/`DAGPortal` | saves, edits, rewinds and readers overlap, each suspends in the middle; failing node; restart between the put of a version and the record of it |
| **Gallery pyramids, hashmarks** `ui/pyramids/__init__.py`, `core/ipfsmarks.py` | hashmarks of each pyramid, saved to disk; the gallery's EvolvingDAG | `pyramidAdd`, `pyramidPop`, `rewindEDAG`, `analyzeImageObject` | two records of one lineage kept together by a signal; unlocked edits; a hidden exception |
| **Local pinning** `ipfs/pinning/__init__.py` | queue of orders, `pinStatus`, status file, a task per pin | `queue`, `process`, `pin`, `cancel`, `start`, `stop` | status saved by many tasks; paths checked long before they are registered; crash while the file is being written |
| **Pubsub services** `ipfs/pubsub/service.py` | queue of 256 messages, tasks, list of listening services, peer activity, throttler; in the database, what was exchanged | `startListening`, `stopListening`, `serve`, `processMessages`, `msgSpy` | self-restart after an error with no handle on the new task; shutdown while a message is handled; check-then-record of a message across awaits |
| **Peers** `core/ctx/__init__.py` | registered peers by handle, id and DID; marks of DIDs being authenticated; the network graph (an EvolvingDAG) | `registerFromIdent`, `didPerformAuth`, `onPeerAuthenticated`, `unregister`, watcher | an authentication runs in a task of its own and clears a mark set by its caller; exits that leave it set |
| **IP identifiers** `did/ipid/__init__.py` | document, its CID, managed identifiers | `update`, `flush`, `publish`, `load`, `refresh`, tracking task, manager's `load` | a published document replaces an updated one; check under the lock, load outside; each publication schedules the next |
| **IPNS cache** `ipfs/ipfsops/nscache.py` | records with dates and origins, on disk | `nsCacheSet`, `nsCacheGet`, load, save | staleness decides what an identifier resolves to |
| **Torrent downloader** `torrent/algorithms/` | pieces, peers' queue sizes, hanged peers, requests in flight | request, receive, time out, hash | counters raised and lowered on several paths; end game |
| **Chat tokens** `core/chattokens.py` | tokens by channel, their validity | verify, clean up, react to messages | expiry racing renewal |
| **Search page** `ui/ipfssearch.py`, `templates/assets/js/ipfs-search-ui.js` | the page's list of results, status and buttons; the handler's page number and search task | `search`, page turns, retry, hits, timeouts | calls and signals on their way through the web channel while the user clicks; a task cancelled between its timeout and its next step |
| **Remote pinning** `ipfs/pinning/remote.py` | none of its own | requests and polling | - |
| **IPFS operations** `ipfs/ipfsops/`, `ipfs/wrappers.py` | caches | calls of the node | a decorator that turns exceptions into `None`: modelled where callers depend on it |
| **Users of EvolvingDAG** `core/edags/`, `core/userdag.py` | none besides the DAG | edits | an edit made inside another edit's lock |
| **P2P tunnels and services** `ipfs/tunnel.py`, `ipfs/p2pservices/` | listeners, streams | mostly I/O | - |
| **IPFS daemon** `ipfs/asyncipfsd.py`, `core/process.py` | a process | start, stop | - |
| **Services, application** `services/`, `core/aservice.py`, `application/` | tree of services | start and stop in a fixed order | - |
| **RDF store** `services/ld/pronto/`, `ld/rdf/` | graphs | merges by rules read from files | the data decides |
| **Bitmessage, Tor** `services/net/` | external daemons | - | - |
| **Database** `database/` | ORM tables | queries | - |
| **User profile** `core/profile/` | the user's DAGs | creation in a fixed order | - |
| **URL schemes, browser, widgets** `browser/`, `ui/` | Qt widgets | - | I/O and presentation |

How they interact: an **EvolvingDAG** puts objects in the node and writes its
metadata in the MFS; its signal `changed` starts saves, its signal `dagCidChanged`
makes a **gallery** add a hashmark. Its other users are the user DAG, the seeds, the
chat channels and the **peers'** network graph, which an authentication edits.
**Peers** come from identification messages read by a **pubsub service**, are loaded
as **IP identifiers** through the **IPNS cache**, and their QR codes and documents are
given to the **pinning** orchestrator, as is anything the user pins. The **search page** is
the one part written in two languages: a script that calls slots of a Python handler and
listens to its signals.

What makes each correct, in a sentence: an EvolvingDAG loses no recorded version and
publishes no half-made one; a gallery publishes the latest version; a pin that is
asked for is done, given up with a reason or taken up again after a restart; a service
listens again after each change of the operator, and one task treats its messages; at most
one authentication runs for an identifier, and who is listed has passed one; an updated
document gets published, and what is published is published again before it expires; the
search page shows the results of one search.

The hazards, each with its line, are in `PROJECT.json`.

## 2. Modules

| Module | What it is |
|---|---|
| `VersionChain` | what an evolving document promises, in four actions: commit, rewind, record, restart |
| `EDag` | `EvolvingDAG`: one action per stretch of code between two suspension points |
| `EDagProperties` | its type, its safety and liveness properties, its fairness, and the refinement mapping to `VersionChain` |
| `EDagProofs`, `EDagWholeProofs` | theorems about `EDag`, with their proofs |
| `GalleryPyramid`, `GalleryProofs` | a gallery composed with its `EDag`, and the theorems about its marks and its DAG |
| `Pinning`, `PinningProperties`, `PinningProofs` | `PinningMaster`, what it must guarantee, and theorems about it |
| `PubsubService`, `PubsubProperties`, `PubsubProofs` | `PubsubService` as the service of the DAG exchanges: its two jobs, and how it is stopped and started again |
| `Peers`, `PeersProperties`, `PeersProofs` | the registration of peers: idents, authentications, scans of the network graph |
| `IPIdentifier`, `IPIdentifierProperties`, `IPIdentifierProofs` | a local IP identifier with its record in the IPNS cache |
| `ResultList` | what a list of results promises, in two actions: show, clear |
| `IpfsSearch`, `IpfsSearchProperties`, `IpfsSearchProofs` | the search page: script, channel, handler and search task |
| `MCEDag`, `MCGalleryPyramid`, `MCPinning`, `MCPubsub`, `MCPeers`, `MCIpid`, `MCSearch` | the small sets the `.cfg` files give to the constants |

Operators named `...Mutant` stand next to the definition they corrupt, the way a slip in
the code would; no specification uses them. Putting one in the place of its definition
must make TLC refute a property: `PROJECT.json` says which one.

### EDag

The state follows the attributes of `EvolvingDAG`. `pc` says at which suspension point
each coroutine is; the coroutines are those that edit under the lock (`Editors`), that
change `dag.root` without it (`Appenders`: `analyzeImageObject`), that rewind, and that
read through a portal; `Loader` runs `loadDag()` and `Saver` the `ipfsSave()` coroutines
that the signal `changed` starts (`pending` counts the ones that have not started).

* The **document** is abstracted to the edits it holds (`edits`), the edits it holds
  completely (`whole`: an edit changes two places with an `await` between) and its link
  `previous`. The object store maps a CID, a number, to the object that was put; the same
  object has the same CID.
* `loadDag()` is `LoadFresh`, `LoadUnparsed`, `LoadMeta`, `LoadGet`, `LoadGetFailed`.
  `filesReadJsonObject` gives `None` for "no file" and for "cannot read": `LoadFresh` covers
  both. It raises for what is not JSON: `LoadUnparsed`, and the DAG is never loaded.
* `ipfsSave()` is `SaveStart`, `SaveLocked` (takes the lock, links, serialises), `PutDone`
  (records the CID in memory and in the history) and `SaveDone` (the MFS write), with
  `SaveNoRoot` and `PutFailed`.
* `async with dag` is `Enter`, `EditLocked`, `EditDone`; a body may raise in the middle,
  which `__aexit__` ignores.
* `rewind()` is `RewindCall`, `RewindLocked`, `RewindGot`, `RewindDone`, `RewindRaised`.
* `read()` is `ReadCall` (the portal, cached), `ReadLocked`, `ReadLoaded`,
  `ReadLoadFailed`, `ReadDone`; `PortalExpires` is the cache's time to live. A portal is
  *live* while it refers to the very object `dagRoot`; a rewind replaces that object and
  leaves portals with the old one. Each has an `id`, for a portal is an object which
  several readers hold: the document that one of them loads is assigned to it, and seen by
  the others, and so is the `None` of a load that timed out (`Assign`).
* `Crash` stops the application at any point and starts it again; only the store and the
  metadata file survive.

`Faults` chooses what may fail; with all of them, every error path of the code is there.

### GalleryPyramid

`EDag` as it is, and with each of its steps what the gallery does of it: when the setter
of `dagCid` runs, `onPyramidDagCidChanged` adds a mark (after making room, as
`pyramidAdd(unique=True)` does, and before it looks for the mark); when `rewind()` comes
back, `rewindEDAG` pops one. It also does so when the rewind was refused, since `ipfsOp`
hides the exception. `Initialize` is `initializeDag()`, which connects the signal only
when the DAG has been loaded: no user of the gallery acts before. `marks` is saved at each
change. `apart` is a history variable: it tells that something the code does not claim
to survive has happened (a refused rewind, a version saved before the signal was
connected, a stop between the two records).

### Pinning

`orders` lists the orders since the start, `taken` how many the queue has given out, and
`task` what became of each: an order is named by its position. `entry` is `pinStatus`,
reduced to the order whose record is registered under a queue's name and a path; `item`
is that record. `savers` is the lock of the status file with those who wait for it,
`file` the file, `snap` what the one who has it open will write. `Process` is the whole
stretch of `process()` until it suspends: it does not while orders wait, so all of them
are looked up before the first task it starts runs. `PinStart` ... `PinDone` is `pin()`,
one action per suspension point; a cancel only sets a flag that `PinMessage` reads. `Stop`,
`Crash`, `Start` are `stop()`, a crash, and `start()` with `restoreStatus()`. A crash between
`SaveOpen` and `SaveClose` leaves an empty file, and the pins in it are lost: this is why
`UnfinishedAreSaved` speaks of the times when nobody writes.

### PubsubService

Most services hand a message on, as a signal or to a task of its own (an ident: see Peers),
and a JSON channel's treatment of one is a hook that does nothing. The service of the DAG
exchanges is the one that relates messages to each other, through its database, and the
module is that service: it has no lifetime and no normal end of its subscription, and it is
started by a change of the operator only. Its throttler is not there: the first stop, which
comes before the first start, pauses it for good, and a paused throttler lets everything
through.

`serve` and `proc` say where `serve()` and `processMessages()` are in each job that was
spawned for them; `tskServe`, `tskProcess` and `shuttingDown` are the attributes, `queue` is
`inQueue`. `Receive`, `Put` and `ServeError` are the subscription's loop; an error runs
`serve()` again five seconds later in a task nobody holds (`at = "later"`). `Get` ... `Write`
is one turn of `processMessages()`: a message that cannot be decoded, that cannot be
recorded (e.g. before `psDbManager` is set), whose sender is not authenticated or that is not
valid is dropped; the others are exchanged under a `MsgSpy`, which looks the digest up
on entry and writes it on exit. The lookup goes one day back (`Forget`) and may fail, which
drops the message; the write hides its errors, so it may or may not write. `Cancel` is
`Task.cancel()`: what it does depends on where the job is suspended. It is swallowed in
`recordMessage()`; in the body of the spy the digest is still written, unless, before Python
3.8, an `except Exception` of the exchange takes the cancellation for an error and goes on.

`Stop`, `CloseProcess`, `CloseTimeout`, `Closed` are `stopListening()`, `Start` and `SetDb` are
`startListening()`. A loop that finds the service shutting down returns without leaving the
list of listening services. The operator's events are handled one at a time;
`restartProcessTask()` has no caller and `PubsubChannelForceStart` is never published.

### Peers

`registerFromIdent()` runs in a task per message: `Ident`, then `Known` or `Begin`, `Check`,
`Register`, `LoadFails`; it starts `didPerformAuth()` (`AuthSucceeds`, `AuthFails`, `AuthEnds`),
which is the same task here because the mark of the DID passes from one to the other. The
node's own DID needs no authentication, and counts as a failed attempt when it ends. An
authentication that succeeds writes the network graph, `graph`, and starts a save of it;
`SaveGraph` is that save, which starts a scan when it succeeds. The graph also holds the
peers of earlier sessions, which `FirstScan` finds. `Scan` looks at one handle, and passes
over one that is invalid, or that is of this node and not of the active profile; `GraphLoad`
and `GraphLoadEnds` are `loadDidFromGraph()`, which leaves its DID in `_didGraphLStatus` when
it raises. A context is named by its handle, its DID and who made it, as its object is found
by handle and not by DID; so a handle may be shared by DIDs, and the branch for a known DID
(`Known`) lists whatever context its handle has, and verifies nothing. The locks are held
over awaits but by tasks that need nothing more, so a section under one is a step. `mark` is
`_didAuthInp`, and it is left behind as in the code. `proved` is a history variable, the DIDs
that have passed the authentication, in this session or an earlier one. One assumption is
made of messages: the peer id that one gives is the one in its handle, which `ipHandleGen()`
makes so.

### IPIdentifier

One local identifier. `object` says what has become of its `IPIdentifier` object: there is
none, `IPIDManager.load()` is making one, `create()` made one whose document could not be put
(`"blank"`), or others have been given it (`"ready"`). `Update` ... is `updateDocument()` (the
document is serialised when `dagPut()` is called and its CID set when it answers), after
which a publication is scheduled or not, as the caller wants. `Publish` is `publish()` up to
its first suspension: the next publication is scheduled and the record cached *before* this
one is known to succeed; `PublishNothing` is its return when there is no CID, where nothing
is scheduled either. `SaveOpen` and `SaveClose` are `nsCacheSave()`, which empties the file
when it opens it and writes the cache of that moment; `Load` ... is `load()`, with
`nameResolve()`, `dagGet()` and `refresh()`. The CID of a loaded document is set first, then
its services are scanned, and only then does the manager give the object to others and
schedule a publication (`FirstLoaded`); a scan that raises loses the object (`ScanRaises`).
`Crash` leaves the file, the store and the network. `due` counts publications that were
started and do not run yet, `timers` those scheduled for later (`autoRepublish` is on, as in
the configuration that is shipped). The manager holds one object per identifier.

### IpfsSearch

The script's state is what its functions read and write: the list of results,
`lastInserted`, the status, the buttons. `calls` and `signals` are the two directions of the
web channel. A slot (`OnSearch`, `OnNextPage`, ...) is one action, as is what the search task
does between two suspension points (`Hit`: the signals of a hit are emitted together), and a
reaction of the script.

A cancelled task emits nothing more, with two exceptions. Its timeout may have struck before
it ran again (`LateTimeout`). And on the Pythons before 3.8, which galacteek supports,
`CancelledError` is an `Exception`: the handlers around the request for the answer
(`ipfs/ipfssearch.py:77`) and around the treatment of a hit (`ui/ipfssearch.py:737`) swallow
it, and the search goes on. `"swallow"` in `Faults` makes that possible; a search that was
replaced and goes on is in `survivors`, and its hits (`SurvivorHit`) and its end
(`SurvivorEnds`) come among the signals of the new one. On later Pythons there are none.

## 3. Runs

| Run | Instance | Shows |
|---|---|---|
| `edag_history` | `MCGalleryPyramid` | a gallery with edits under and beside the lock, saves, a rewinder and every fault but an unreadable metadata file: the history is the lineage, bounded; the metadata names a stored version; no version drops what its predecessor held; the last hashmark is the latest version unless `apart`; `VersionChain` is implemented |
| `edag_readers` | `MCEDag` | edits under the lock, completed; failing node, restarts: readers, writers and rewinds exclude each other, versions are whole, what a reader sees is whole and does not change while it reads, unless a load of the portal that it shares fails; no completed edit is left with neither a version that has it nor a save to come |
| `edag_live` | `MCEDag` | edits are in the recorded version in the end; whoever waits for the lock gets it |
| `edag_leak` | `MCEDag` | *violated*: a reader whose portal cannot be loaded keeps the read lock |
| `gallery_refused` | `MCGalleryPyramid` | *violated*: a refused rewind pops a hashmark |
| `pinning_status` | `MCPinning` | when nobody writes it, the status file holds every unfinished pin, through all failures, stops and crashes |
| `pinning_live` | `MCPinning` | an order dropped as "already queued" is served by another; a cancelled pin ends; a pin without progress is given up |
| `pubsub_restart` | `MCPubsub` | the service of the DAG exchanges, stopped and started while its tasks are anywhere: one task treats messages, an exchange that the database knows is not handled again, and after a change of the operator the service listens again |
| `peers_idents` | `MCPeers` | idents handled at once, one of them of this node: one authentication and one load per DID; a DID in the graph is listed in the end, unless a load of it raised |
| `peers_shared` | `MCPeers` | a peer gives one handle with two DIDs: who is listed has been authenticated, or its handle is one that an authenticated DID gives |
| `ipid_records` | `MCIpid` | the cache's file holds the cache's record, a publication is always to come of an object that others have, an update gets published |
| `search_page` | `MCSearch` | the page shows one search's results, in order and each once (`ResultList` is implemented), with none but those of a search that outlived its cancellation among them, and says in the end that it no longer searches |

`CHECK_DEADLOCK FALSE` is used throughout because these systems may stop: once the
bounded number of edits, orders, messages or searches is used up, nothing has to happen.

### Bounds, and why they are enough

* `MaxItems = 1` (`dagMetaHistoryMax`, 12 in the code): the history reaches two entries,
  so the purge happens and a rewind, which wants two, is possible.
* `MaxCids` 3 to 5: with five versions the purge, a rewind after it and a new branch after
  the rewind all happen; with four a rewind of a saved edit, and a save after it.
  `MaxEdits` 1 or 2: with two an edit is pending while another one is saved. In
  `edag_history` versions also come of saves that find nothing changed but the link, so one
  edit is enough to tell versions that hold it from those that do not. Edits are counted
  across restarts, to name them, and are not reset.
* `MaxMarks = 4` (16 in the code; the module assumes `MaxMarks >= MaxItems + 3`, which
  16 and 12 satisfy): the cap is reached, and a rewind of a full pyramid drops a mark at
  each end.
* Pinning: `MaxOrders = 2` orders between two starts, two paths and two queues for the
  safety run. `MaxStalled` 1 or 2 (`maxStalledMessages`, 24 in the code). The bound on
  orders is also why the queue of 1024 is never full here: a caller of `queue()` that waits
  is not modelled.
* Pubsub: two jobs of `processMessages()` and three of `serve()`, so that one that was not
  stopped would show beside its successors; a queue of one (256 in the code) is full while
  another message waits. `MaxArrivals = 3` fills the queue, the loop and the processing job
  at once. `MaxStarts = 3`: two restarts, so that a message can be exchanged in the last
  service that was in the hands of the first. `Msgs` are two digests, to be told apart.
* Peers: two DIDs and two tasks. A third task adds no state that two do not reach: a task
  acts on marks and registries, not on tasks. `MaxSaves` 2 or 1 saves of the graph wait at
  once. In `peers_idents` each DID has its handle, and is of its own peer, one of them this
  node; in `peers_shared` one peer has two handles, one of them invalid, and gives one of
  them with both DIDs.
* IPID: `MaxTimers = 1` caps how many chains of republications are counted; the properties
  ask only whether there is one. One update: two that overlap may end in either order, and
  that is a known deviation (section 4).
* Search: two pages of two hits, so that a page has a first hit and a last and their order
  shows. `MaxSearches = 2` searches and calls on their way, besides the first, and
  `MaxSurvivors = 2`: both of the searches that are replaced may outlive their cancellation.
  `Invalid` is empty in the configuration; with three hits, the second of them without an IPFS
  path, and `MaxSurvivors = 1` the run passes too, in four minutes (2.5 million states). The
  theorems are about any `Invalid`.
* Symmetry is used in `pinning_status`, `edag_readers` and `peers_shared`, runs of invariants
  and action properties: of paths and queues, of editors and readers, and of tasks.

### Fairness

The event loop resumes every coroutine whose await has an answer: weak fairness of
`Continue(t)` (`EDag`), `Process(p)`, `ServeStep(l)`, `ControlStep` (`PubsubService`),
`Step(t)` (`Peers`), and so on. `aiorwlock` queues the coroutines that wait, in order, so one
that is often able to take the lock does: strong fairness of `Acquire(t)`. That the node
answers, well or not, is an assumption of the liveness runs; the code has no time limit on
most of the calls, and without an answer nothing ends. Nobody is obliged to edit, rewind,
read, queue, cancel, send a message, identify himself, update or click.

* `EditsReachDisk` excuses edits that a rewind or a crash takes out of the document (a
  rewind may take the lock between an edit's release and the save it asked for: a listed
  hazard), and a save whose put failed, which leaves the edits to the next save. It and
  `LockIsGranted` excuse a leaked read lock (finding 1).
* In `Pinning`, the node goes on sending messages for a pin until it is done, and the
  threads that write files end.
* `UpdatesGetPublished` assumes that a publication succeeds often (strong fairness of
  `PublishDone`): the connection is there now and then.
* `GraphedIsListed` assumes that documents which the graph names can be loaded and that saves
  of the graph go on and succeed; otherwise the code tries again at the next update of the
  graph only. It excuses a load that raised, which is never tried again (section 4).
* `UpdatesGetPublished` excuses an identifier whose creation could not put its document:
  `publish()` returns at line 690 and schedules nothing.
* `SearchingEnds` assumes that a search comes to an end, by its timeout if not before.

## 4. Findings

Two disagreements are shown by a run that is expected to be violated:

1. `DAGPortal.__aenter__` takes the read lock, then raises `DAGError` when it cannot load
   its document; `__aexit__` does not run and no writer gets the lock again
   (`ipfs/dag.py:315`, run `edag_leak`).
2. `rewind()` is decorated with `ipfsOp`, which hides `DAGRewindException`; `rewindEDAG()`
   pops a hashmark although nothing was rewound (`ui/pyramids/__init__.py:2453`, run
   `gallery_refused`).

Others are in the models as they are in the code. They are listed as hazards, and here is
what the properties say around them:

* `analyzeImageObject()` changes the document without the lock, with an await between two
  changes: a save that runs there makes a version with one of them
  (`ui/pyramids/__init__.py:2704`). `VersionsWhole` is checked without such edits.
* `DAGPortal.load()` assigns the `None` of a load that timed out, and `read()` gives the same
  portal to several readers: one that is in its body loses its document
  (`ipfs/dag.py:289`). `ReadersSeeWhole` and `ReadersUndisturbed` except the readers of a portal
  whose load has failed (`Emptied`), and nobody else.
* `cleanupStatus()` runs only when the processing loop goes round: without a new order an
  inactive item stays, and an order for the same path is dropped
  (`ipfs/pinning/__init__.py:337`, against `pinning/config.yaml:31-33`). And
  `pathRegistered()` (line 349) does not look at `recursive`: a recursive order is dropped when
  the path is pinned without its children. `DroppedAreServed` is about paths.
* A service that shuts down stays in the list of listening services when `serve()` notices
  it by a message (`ipfs/pubsub/service.py:371`, against the comment of line 360), and its
  throttler is not resumed by a new start (line 259).
* A DID whose authentication failed less than ten seconds ago is marked again by its next
  ident, no authentication starts, and the mark is never removed: later idents are refused
  (`core/ctx/__init__.py:658`).
* The branch for a known DID verifies nothing and looks the context up by the handle of the
  message (`core/ctx/__init__.py:665-681`), and handles may be shared (lines 776-781): a DID
  that has not been authenticated gets listed when another of the same handle has.
  `OnlyAuthenticatedListed` says that, and no more; `OneAuthPerDid` fails with shared handles
  (line 759).
* A load from the graph that raises (lines 477, 525) leaves its DID in `_didGraphLStatus`: no
  scan loads it again in this session.
* Two updates of an identifier whose puts end in the other order leave `docCid` on the older
  document (`did/ipid/__init__.py:500`); each update and each publication by hand adds one
  more chain of republications (line 694). An identifier whose creation could not put its
  document is not published until its next update asks for it, or ever (line 690).
* A crash while the emptied file of the IPNS cache is being written loses the record of a
  local identifier, which the docstring of `publish()` says is always resolvable
  (`ipfs/ipfsops/nscache.py:75`).
* A search whose cancellation is swallowed, on Python 3.7, adds its hits to the page of the
  one that replaced it and reports its own end (`ui/ipfssearch.py:737`,
  `ipfs/ipfssearch.py:77`). The properties of the page say what holds all the same, and of
  which hits.
* An exception in `runSearch()` leaves the page "searching" (`ui/ipfssearch.py:798`); a
  result that comes after a page turn was clicked shows the page buttons again, and a
  second click on "next" may pass the last page (line 428 has no upper bound): the page then
  says that it found nothing and offers to retry.

## 5. Theorems

For any sets of coroutines, paths, queues, messages, peers and updates, any bounds and
(except where noted) any faults. They rest on the named assumptions of the modules (the
sets of coroutines are disjoint, the bounds are naturals, ...), which TLC evaluates in the
runs.

| Module | Theorem | Says |
|---|---|---|
| `EDagProofs` | `TypeCorrect` | `TypeOK` |
| | `LockExcludes` | the readers-writer lock excludes |
| | `HistoryKept`, `HistoryIsBounded`, `MetadataIsUsable` | history is lineage, bounded; the metadata file names a stored version |
| | `NothingIsDropped` | a version keeps what the one it replaced held |
| | `ReadersAreUndisturbed` | when there are no `Appenders`, what a reader sees does not change while it reads, unless a load of its portal has failed |
| | `EditsAreRemembered` | a completed edit is recorded, being saved, or has a save to come, unless the put failed: when the metadata file can be written (`"metawrite"` is not in `Faults`) |
| | `Refinement` | `Spec => Chain!Spec`, when the metadata file can be read (`"metaread"` is not in `Faults`) |
| `EDagWholeProofs` | `VersionsAreWhole`, `ReadersSeeWholeDocuments` | no version and no reader has half an edit, and a reader is without a document only when a load of its portal has failed: when there are no `Appenders` and bodies do not raise |
| `GalleryProofs` | `MarksFollow` | the last hashmark is the latest version unless `apart`, when the metadata file can be read |
| | `GalleryKeepsDag`, `GalleryRefines` | a gallery's DAG has the type, the history, the metadata and the versions of a DAG alone, and implements `VersionChain` (that again when the file can be read) |
| `PinningProofs` | `TypeCorrect` | `TypeOK` |
| | `NoPinIsForgotten` | whenever nobody writes it, the status file holds every unfinished pin |
| | `DroppedOrdersAreServed` | a dropped order is served by another, when no exception and no short answer ends a pin |
| `PubsubProofs` | `TypeCorrect` | `TypeOK` |
| | `OneTaskTreats` | one task treats messages |
| | `ExchangeHandledOnce` | an exchange that the database knows is not handled, and two tasks never handle the same one |
| `PeersProofs` | `TypeCorrect`, `OneLoads` | `TypeOK`; a DID of the graph is loaded by one task at a time |
| | `OneAuthenticates` | one authentication per DID, when no two DIDs share a handle |
| | `ListedAreAuthenticated` | who is listed passed the authentication, or has a handle that a DID gives which did; whether handles are shared or not |
| `IPIdentifierProofs` | `TypeCorrect` | `TypeOK` |
| | `AlwaysRepublished` | an object that others were given has a CID and a publication to come |
| | `FileFollowsCache` | when no save is to come the file holds the cache's record |
| `IpfsSearchProofs` | `TypeCorrect`, `OneSearch` | `TypeOK`; the page never mixes the results of two searches, but for those of survivors |
| | `CompletedIsShown` | when a search has completed and nothing is on its way, the page shows its results, in order, its page and, if no survivor is at work, that no search runs |
| | `Implementation` | `Spec => List!Spec`: the page without the hits of survivors implements `ResultList` |

The conditions are not conveniences: the hazards listed at `ipfs/dag.py:289`, `:610`, `:450`,
`:2704` of the pyramids, `ipfs/pinning/__init__.py:350`, `core/ctx/__init__.py:759` and
`ui/ipfssearch.py:737` are what happens without them.

**EvolvingDAG.** The argument goes in layers, each an inductive invariant that may use the
one below:

* `Control`: who is where and who has the lock. The lock's variables agree with `pc`
  (`LockState`): the writer is the only coroutine in a section that writes, the readers are
  those in a section that reads. And nobody but the loader does anything before `loaded`
  (`Phases`).
* `DataHolds`: `Control`, and what the data is. A version's link `previous` is a smaller CID
  than its own, so a lineage is strictly decreasing (`MetaIn`): the CID that `Push` adds is
  larger than all those in the history and cannot already be there, which is what
  `HistoryIsLineage` lacks to be inductive. In addition the document in memory holds all
  that the latest version holds, a put in flight is linked to the latest version, and a
  coroutine suspended in the middle of a save or a rewind still finds the metadata it left
  (`Suspended`).
* `PortalsOK`: the portal in the cache and those that readers hold either are live, with a
  document in memory, or hold a document that was one, or name a stored CID to load. A
  portal that a reader is loading has either no document or already the version of its CID,
  which another reader loaded. So what is assigned to the portal of a reader in its body is
  what it has already, or the `None` of a failed load, and the reader that failed then shows
  it: this is why `Emptied` is the only exception that `ReadersAreUndisturbed` and
  `ReadersSeeWholeDocuments` need.
* `WholeOK`: the document in memory is whole unless an editor, which then has the lock, is
  in the middle of its edit; so is all that is made from it: what is being put, versions,
  portals that a rewind left behind.
* `Remembered`: what the document holds is in the put in flight or, when there is none, in
  the latest version, unless a save is to come or the last one failed (`Settled`); a document
  that is being put is linked to the latest version (`PutLinked`), so one that stays linked
  to it with no put in flight tells that the put failed; and the metadata file lags behind
  the metadata only while it is being written (`MetaSaved`). Each of the suspension points of
  `ipfsSave()` ends one of these and begins the next. It is the safety half of
  `EditsReachDisk`: it says that the save which must come exists, and not that it ends. It
  needs the file to be writable: `filesWriteJsonObject()` reports its errors to nobody
  (`dag.py:543`), and the edit is then in a version that only the memory names.

`Refinement` maps `parent` to the links `previous` of the store, `current` to the CID in
memory (after a restart and until it is read, the one in the file), `recorded` to the
file's. It needs the file to be readable: `loadDag()` treats an unreadable file like a
missing one, starts a new chain and overwrites the record, so that `current` jumps to no
version.

**GalleryPyramid.** `MarksFollow` adds two facts to `DataHolds`. `Attached`: while the signal is
not connected nobody uses the gallery. `Marked`: the marks are a piece, without a gap, of
the lineage that the links `previous` make, and the last one (the one before it, while a
rewind is between its CID and its return) is the latest version of the DAG, or what the
metadata file says of it until it is read. And they are never fewer than the history: a
rewind takes its version from the history, finds it among the marks (the mark is not added
twice), and popping one mark is right. This is where `MaxMarks >= MaxItems + 3` is needed: room
is made before the mark is looked for, so a full pyramid has one mark less at that moment.

`GSpec` does not refine `Spec`: `Initialize`, which asks for a save when it connects the
signal, is a step of the gallery and not of `EDag`. So what was proved of `Spec` is proved again
of `GSpec`, from the same lemmas: a step of the gallery is a step of the DAG, or is
`Initialize`, which keeps `DataHolds` and `PortalsOK` too (`DagStep`), and what those two
mean is stated once (`DataMeans`, `DataTyped` of `EDagProofs`). `edag_history` runs `GSpec`, and
these are the theorems about what it checks.

**Pinning.** `Sound` is the type, with what makes it inductive: a registered order has been
taken and is registered under its own name and path, so the unfinished pins inject into
the orders (`UnfinishedFits`) and a restart never queues more than it may. `Covered` says of
each unfinished pin that it is in the file, or in what is being written to it, or that
somebody who has not opened the file yet will write it: `UnfinishedAreSaved` is the case in
which nobody writes. `Tended`: every registered record has a task at work or is pinned, and
a task is at most once among those who write the file, so that the end of a save is
attributed to the right step of its task.

**PubsubService.** Type correctness needs to know who holds a message and who waits for which
job. Both theorems come from one invariant, `OneInv`: only the job that `tskProcess` names
may run, none runs when the operator is about to start the service again, and the digest
that is handled is not in the database. The first two make the third inductive: between the
lookup of a digest and its write only the same job could write it, whatever that write, or
a cancellation in the middle, does.

**Peers.** `OneLoads`: the DIDs of the running loads are in `loading`, each once; a load that
raises leaves its own there. `OneAuthenticates`: each task between the mark and its removal
has a DID that is marked, and no two have the same; the context it authenticates has the DID
of its message, which holds because a handle has one DID (`HandlesApart`): the code looks the
context up by handle alone. `ListedAreAuthenticated` needs no such condition. `Authenticated`:
every DID in the graph, of a load or of a task that found its DID in the graph, is in
`proved`, and a context is registered under its own handle; so a context that is listed,
be it of another DID, has the handle of a message or of an entry of the graph whose DID is
in `proved`, and `proved` only grows.

**IPIdentifier.** For `AlwaysRepublished`, an object becomes `"ready"` with its first publication
scheduled, and each publication that starts schedules the next; what is to be proved is that
it has a CID then, without which `publish()` would end the chain. After a load it was set two
awaits earlier, by the one loader that the object had until it was given to others (`Lone`).
For the type, a task that saves, publishes or loads works with a CID, not
with `NoCid` (`HasDocument`). For `FileFollowsCache`, one task writes the file at a time, and
once no task is about to save, what is being written, or was, is the cache (`SavesLast`):
whoever changes the cache takes its dump later than the change.

**IpfsSearch.** The proofs read the channel as one line: what the page shows (place 0), the
signals on their way, and the search that runs, whose hits are still to be sent (the last
place). `OneSearch`: between two places of the line with hits of different searches there is
a `clear` (`Apart`). It is inductive because a new search starts with its `clear` at the end of
the line, and what leaves the line at its head is either a hit that joins the page or a
`clear` that empties it.

Hits of survivors are left out of the line, and when a search becomes one its hits leave it
(`Listed`, `Survived`), which the invariants do not notice: they speak of every two hits that
remain. `CompletedIsShown` counts the hits of the last search only, and what survivors insert
among them moves their places and not their order.

`Implementation`: along the same line the hits of a search ascend (`Ascending`), those still
to come last. So the hit at the head of the line is greater than the hits of its search on
the page, and by `Apart` there are no others. The elements themselves are not in this order:
after a click on a page button and before the `clear`, hits are inserted at the top, so
`ResultList` speaks of the set of hits, and of the number of elements.

`CompletedIsShown` needs to know what the page *will* show. `Followed`: after the last `clear`
in the line (`k`; 0 when there is none), every hit is of the search that runs, and there are
counts `r` such that the page will show the first `r[i]` of the search's hits that were sent
when it has received the `i`-th signal; the last count is the number sent. With no `clear` in the line,
what the page shows is the first `r[0]`, and the next element goes after the last. A click on
a page button breaks this at once, as the script forgets where it inserted last; but then a
call that will clear the page is on its way (`Clearing`), and `Followed` asks nothing
until it has been answered. That every such call does clear is a fact about calls:
`cancelSearchTasks` is always followed by `search` (`CancelThenSearch`), and `previousPage` on
page 0, which does nothing, is not counted. `Numbered` says where the page number is. `Completed`:
the last word about a complete search is that it is over (`Quiet`), and what comes after
(a late timeout) does not say otherwise.

Only model-checked: liveness (fairness and `ENABLED` are out of the prover's reach). Every
invariant and action property of a passing run, and every refinement, is a theorem.

## 6. Not modelled, and why

* `EvolvingDAG`: `pinUpdate` and `unpinOnUpdate` (off, no effect on the state here), keys
  and ciphered metadata, resolution of paths, JSON-LD helpers, `DAGEditor`,
  `portalToPath()`. A second `load()` of one object, which the code never does. The
  write lock taken inside a body that holds it (`core/userdag.py`): aiorwlock lets the
  same task in, and the body is then one longer edit.
* `Pinning`: the option `recursive` of an order, which the queue and the records ignore; the
  branch `checkPinned`, which no caller turns on; a queue that is full; the
  statistics and signals for the status widget.
* `PubsubService`: the filters and the peer activity they read, the throttler, the periodic
  task, statistics; the other services. A destroyed
  channel object stays subscribed to `IpfsOperatorChange`, has a lifetime, and may start
  again: the end of its lifetime is listed as a hazard and not modelled.
* `Peers`: `unregister` and the watcher's pings, avatars, QR codes' content, the peerings
  themselves. Exceptions of `ipidManager.load()` in `registerFromIdent()`. A peer whose messages
  give the peer id of another.
* `IPIdentifier`: services, signatures, keys, remote identifiers and the age of their
  records (a cached record of a local identifier is always valid). `trackingTask` is never
  started by the code.
* `IpfsSearch`: the form's filters (its `search()` without arguments, and the handler's call
  from `ui/browser`), previews, pins, hashmarks and links; gateways and MIME types; the
  graph in which hits are buffered.
* Torrent downloader, chat tokens: algorithms on counters and dates, which call for models
  of their own; they share no state with the parts above.
* The rest is marked `not_modelled` in `PROJECT.json`, with the reason there: input and
  output, presentation, external programs, or graphs whose content decides what happens.
* Most of the repository's files that are not Python are vendored (`share/js/orbit-db`), a
  bundle (`share/js/quest`) or translations; of the JavaScript that is galacteek's own, the
  search page's script is the part with state and concurrency.

## 7. Plan

Done: `EDag` with its abstract specification, `GalleryPyramid`, `Pinning`, `PubsubService`,
`Peers`, `IPIdentifier` and `IpfsSearch`, each with proofs of all its safety properties.

Next: `TorrentDownloader` (the counters are the requests in flight; every piece is
downloaded in the end when a peer that has it answers) and `ChatTokens`.

## 8. Running it

    tlc -config EDag_history.cfg MCGalleryPyramid.tla
    tlc -config EDag_readers.cfg MCEDag.tla
    tlc -config Pubsub_restart.cfg MCPubsub.tla
    tlapm EDagProofs.tla
    tlapm PubsubProofs.tla

The other configurations and proofs are run in the same way; the table of section 3 gives
the module of each configuration, whose file has the run's name with a capital.
