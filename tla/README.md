# A TLA+ model of ida-fusion-mcp

`ida-fusion-mcp` lets MCP clients work with many IDA Pro databases at once. The
program is a set of processes that share one JSON file. This directory holds TLA+
modules translated from `src/src/ida_fusion_mcp`, the TLC configurations that
check them, and proofs that TLAPS checks. Paths below are relative to
`src/src/ida_fusion_mcp` unless they begin with `src/`.

## 1. The system

| Part | Code | State it keeps | Operations |
|---|---|---|---|
| Instance registry | `registry.py`, `instance_id.py` | `instances.json`: live instances, the active one, expired ones | register, unregister, unregister_if_owner, heartbeat, set_active, expire, clean up |
| File lock | `filelock.py` | the lock file; one descriptor per call | acquire with a five-second deadline, release |
| GUI plugin | `plugin/` | HTTP server, port, instance id, heartbeat thread | start and stop the server with the database, register, unregister |
| Health and rediscovery | `health.py` | none | expire entries of dead processes, find IDA servers by listening ports |
| Idalib manager | `idalib_manager.py` | worker processes by instance id, unregistered workers, pending registry contexts | open, close, list, status, exit |
| Idalib worker | `idalib_worker.py` | database, HTTP server, idle timer | open, serve, exit after the idle TTL |
| Router | `router.py` | a five-second cache of binary names | pick an instance, verify it, forward, explain a missing one |
| Router server | `server.py` | tool catalogue, response cache, output files | start-up, tool calls, tool refresh, shortening of answers, decompilation to files |
| Response cache | `cache.py` | LRU map of large answers | store, page, expire, evict |
| IDA synchronisation | `ida_mcp/sync.py` | batch flag, call stack, timers, the queue to IDA's main thread | run a tool on the main thread, time out, cancel |
| JSON-RPC and transport | `vendor/zeromcp`, `ida_mcp/zeromcp` | pending requests, SSE sessions, server thread | dispatch, cancel, serve, stop |
| Output store | `ida_mcp/rpc.py` | truncated outputs kept for download | store, evict, fetch |
| Listing tools | `ida_mcp/api_core.py`, `ida_mcp/api_modify.py`, `ida_mcp/utils.py` | lists of functions, globals and strings, kept between calls | page through them, drop them after an edit |
| Installer | `__main__.py` | client configuration files | install, uninstall |
| Tool APIs | `ida_mcp/api_*.py`, `_sigmaker.py`, `utils.py` | the IDA database | about seventy tools over the IDA SDK |

The GUI plugin, the routers and their managers meet only in the registry file;
routers and workers talk over HTTP on the loopback interface; the client talks
to its router over standard input and output, one request at a time.

What is hard: several processes read, compute and replace one file; ids are
short hashes and are handed out again after their owner left; every decision
about a process (a pid, a port, an id) is made on a snapshot; registry calls
can raise before or after their commit; workers can hang, exit at any moment, or
survive `SIGKILL`; processes crash between any two steps. Inside one IDA window,
handler threads, timer threads and watchers work for a tool on the one main thread,
which at any time may be closing the database instead; request ids repeat; caches
survive the tool that was stopped while it filled them. Files are replaced while
other programs write them. `PROJECT.json` lists the hazards line by line.

### What makes each part correct

* Registry: the active instance is live; the capacity holds; a live id never
  changes hands without having been removed; the focus moves only for a reason;
  recent tombstones survive the clean-up.
* Lock and file: callers exclude each other; every operation is atomic across
  crashes; every call ends.
* Manager: no worker process is lost sight of, except one whose start an interrupt
  cuts short; the books and the registry agree between calls; the limit holds; an
  orderly exit leaves nothing else running; every call returns; no call removes the
  entry of a live worker of another router.
* Router: what the client is told about an instance was true at some moment of its
  call ("not found" may also be told of an id that was expired and came back during
  the call); a call reaches another binary, or is refused as stale without need, only within
  the five seconds of the name cache or when no name could be had; an answer
  that was announced as cached can be fetched until its TTL or newer answers
  displace it.
* Windows and routers: a window's own entry is never taken away or replaced;
  dead entries go; an empty registry is refilled.
* Main thread and server of a window: between two calls IDA is as its user left
  it; the cancelled flag a tool sees was set by its own timer or watcher; the table of
  pending requests names requests that are being served, though not always the one
  a cancel was sent for (section 4); every request is answered and every session
  of an earlier database ends.
* Listings: a client that follows the pages has every row once; when the
  database changes, a row is skipped only where another went away or moved because
  it was renamed.
* Output files: what a write says of its outcome is so, however it ended; the old
  file is not given up before the new one is seen in its place; a job ends.
* Catalogue: an answer, whole or shortened, fits the schema advertised for its
  tool and the length the client asked for; no bundled tool is missing.
* Installer: what users have in their configurations beside the entries of our
  names stays; there is always a loader; success is reported only of work that is
  done.

## 2. Modules

| Module | Models | Composed of |
|---|---|---|
| `RegistryDoc` | the document and the functions registry operations compute | – |
| `Registry` | the abstract registry: each operation is one atomic step | `RegistryDoc` |
| `RegistryFile` | the same operations on a file, under a lock, by crashing processes | `RegistryDoc`, refines `Registry` |
| `IdalibManager` | managers, workers and the registry between them | `RegistryDoc` |
| `Fleet` | IDA windows and starting routers around the registry | own, smaller registry |
| `ResponseCache` | the LRU cache of long answers: one operator per method | – |
| `Router` | one router between its client, the registry and the instances | `ResponseCache` |
| `MainThread` | `execute_sync` and what happens to a call on IDA's main thread | – |
| `IdaServer` | the MCP server of a window: handler threads, pending requests, sessions, start and stop | `MainThread` |
| `Listing` | lists kept between calls, pages, edits, a client that reads them | – |
| `OutputFile` | the replacement of one output file, with rollback | – |
| `DecompileToFile` | the tool that lists functions and writes files | `Listing`, `OutputFile` |
| `Preview` | JSON values, schemas and the shortening of an answer: pure operators | – |
| `ToolCatalog` | the catalogue, its refresh and the answers of IDA tools | `Preview` |
| `Installer` | `--install` and `--uninstall` | – |
| `RegistryDocProofs`, `RegistryProofs` (with `RegistryFile`), `IdaServerProofs`, `DecompileToFileProofs`, `FleetProofs`, `RouterProofs`, `IdalibManagerProofs`, `InstallerProofs` | lemmas and theorems | the modules above |
| `MC*` | small instances for TLC | one module each |

### RegistryDoc and Registry

`doc` is the document. JSON objects keep insertion order and the code uses it
("the first remaining instance", "the oldest expired one"); an entry therefore has
a sequence number. `Candidates[x]` is the sequence of ids that
`generate_instance_id` and `resolve_collision` try for a registration `x`, which
leaves every pattern of hash collisions open. `now` counts in units of the coarsest
timeout. `Lose` is `_load` answering an empty document because the file is missing
or unreadable. `durable` is the document the disk would have after a power loss:
`Persist` is the system writing back, `GoBack` the machine starting again with that
document or with a broken file. Each other action is one public method. Operators whose comment
begins with "Mutant:" are deliberate errors: the properties must reject them.

### RegistryFile

A call is `Open`, `Flock` or `Timeout`, `Load` or `LoadFails`, `Replace` or
`SaveFails`, `Unlock`. Nobody removes the lock file here, so all descriptors are
open on one inode and the lock is one variable, `holder`. `Crash` drops the lock
with the descriptor. `_save` flushes without `fsync`, so after `PowerLoss` the file is
what the system wrote back last (`stored`, `WriteBack`) or garbage. `R` maps the file to
`doc` and `stored` to `durable` of `Registry`; `Atomic` is its specification, and the
refinement is checked by TLC and proved. The calls are those of every public method but
`cleanup_stale`. The clock stands still in this module: ages are the subject of
`Registry`.

### IdalibManager

A generation is one worker process; its number stands for the ownership nonce,
the port and the cleanup id. `worker` is what the operating system knows,
`owned`, `local` and `pend` are what the manager remembers
(`_owned_generations`, `_unregistered_sessions`, `_pending_registry_contexts`),
`doc` is the registry. A router handles one request at a time, so `pc`, `job`
and `todo` are the locals of its one call. Every registry call of a manager has an
outcome in which it raises; `register` may raise after its commit. A process that
exits remains a zombie until its parent waits for it, which matters because
liveness is `os.kill(pid, 0)`; `Reaped` are the routers started with `SIGCHLD`
ignored, whose children never become zombies. The actions follow the methods:
`Open`, `Count`, `Spawn`, `WorkerAnswers`, `WorkerExited`, `WorkerLate`,
`Register`, `RegisterRaises`, `Reconcile` and `Abandon` are `spawn_session`;
`Close`, `Settle` and `Unregister` are `close_session`; `NoticeDead` is what list,
status and the worker count do with a dead worker; `Exit`, `CloseNext` and
`Leave` are `close_all_sessions`; `Interrupt` is a `KeyboardInterrupt` in the middle of a
call, which ends the loop over the input and so leads to the same exit: what waits in
`todo` then is what the books hold (`Held`), and a worker that was being started is in
none of them (`worker[g].cut`); `Start`, `Sweep`, `ExpireDead` and `Serve` are
the start-up clean-up.

### Fleet

A window goes through `Launch`, `StartServer`, `RegisterInstance` (or
`RegisterFails`), `CloseBase`, `UnregisterInstance` (or `UnregisterFails`),
`StopServer`, `Quit`. A router goes through `Start`, `Sweep`, `ExpireDead`,
`Look`, and, when it finds the registry empty, `Know`, `Scan`, `Probe`, `Adopt`.
A window answers a probe when it is `up`: before that its main thread runs
`start_server`, and while it closes it runs `stop_server`. The registry is reduced
to the entries and the set of expired ids; that each call on it is atomic is
what `RegistryFile` shows.

### Router and ResponseCache

A tool call is `Call`, `LookForAny` (and `LookAgain` after a rediscovery), `Select`,
`GetInstance`, then `GetExpired` or the check of the binary (`VerifyCached`, or `StartQuery`
and `Query`) and `Send`. Each read of the registry and each HTTP exchange is a step; between
them `RegisterEntry` (under any name, as a registration may carry an outdated one or none),
`RemoveEntry`, `CleanupExpired`, `Rehost` and `Tick` change the world. An instance is a port
and the binary registered for it; `host` is who really listens there, `None` for nobody. A
query may fail although a server listens (its main thread is busy); `job.doubt` records that
the router went on without a name. `names` is `_binary_path_cache`. `facts`, `since` and
`recent` are history variables: what has been true during the call, when a port last changed
hands, and which answers the client stored or read last. Time does not pass between reading
an entry and comparing it with the cached name, which are adjacent statements.

The cache is a sequence, least recently used first, of which `Evicted`, `Stored`
and `Fetched` give the next value; every method holds the lock throughout, so each
is one step. `ListCached` evicts as well. `Kept` says which entries stay by a
recursive function, because the provers can reason about one and not about
`SelectSeq`.

### MainThread and IdaServer

`queue` is what `execute_sync` has given IDA, `stack` is `call_stack`. A call is
`Schedule` (or `NotScheduled`), `Enter`, then the tool ends: by itself (`ToolEnds`),
because an SDK function sees the cancelled flag (`FlagSeen`), or because the
profile function raises (`ProfileRaises`); `Leave` is what these share: the inner
`finally` of `timed_ff`, which disarms the call, stops its watcher and cancels its
timer. `Join` waits for both threads, `Exit` clears the flag, restores batch mode
and pops the stack. `TimerWakes` and `TimerFires` (and the same of the watcher) are
two steps because `cancel_armed` is tested and the flag set without a lock.
`Refuse` is a call that comes up while a tool lets IDA handle its queue. `flag` is
the one cancelled flag of IDA; it remembers who set it, which only the properties
read. `expired` is the deadline, `event` the request's cancel event.

`IdaServer` adds, for each request, its handler thread (`Accept`, `Register` or
`GroupDisabled`, `CallTool`, `Unregister`, `Respond`), `Cancel(m)` (the cancel that is sent
for the request m, and that sets the event of whichever request has the id), the SSE
sessions (one that connects while `stop` is at work has epoch 0 until the next start takes
it over), and what the user of the window does: `StartServer` (or `BindFails`),
`StopSessions` and `CloseSocket`, which are the two parts of `McpServer.stop` on the main
thread. While it is there, `Pump` cannot run. `pending` holds one request per id, and a
request takes whatever is there (`jsonrpc.py` does so on purpose).

### Listing, OutputFile and DecompileToFile

`Listing` follows the rows of one kind. A row is its place in the order of the listing,
by address, by name or by what the filter matches; so `db`, the list that is kept
(`cache`) and the rows a tool finds are sets of places (`Address`), and `Ascending` puts
them in order when a page is cut out. A new name may give a row another place, or take it
into a filter or out of it: `Rename` and `EditByHand` move a row (`Moved`), except in the
listing of `decompile_to_file`, which is by address and has no filter. The tools
differ in whether they read it or collect anew (`UsesCache`), in how they take an
offset and a count, and in what the next cursor is: `Paginate` (also for
`list_funcs`, `func_query` and `entity_query`), `FindRegex`, `SearchText`. A tool is
one step, as it runs on the main thread, but its deadline may end it in the middle:
`Unfinished` is the state it leaves the cache in. Edits drop the cache or, when
their deadline comes first, do not. `owed` is a history variable: the rows a patient
client has a claim to.

`OutputFile` has the file system as three names (the leaf, the temporary file, the
backup link), each holding a file or nothing. Every system call of
`_atomic_write_text` is a step that may fail before or after it took effect; the looks
with which a rollback begins are outside its `try`, so when one of them fails nothing is
rolled back (`LookFails`, outcome "not rolled back"). `Meddle` is another program that
changes the leaf or the backup, `Die` the end of the router. `MoveDirectory` moves the
directory away: where it is held by a descriptor its names stay reachable; on Windows
they are looked up by path, so the program goes on in another directory and `away`
holds what the first one has. `_unlink_leaf_if_identity` looks and unlinks in two steps, so
a file can change in between.

`DecompileToFile` puts the two together: a job lists the functions page by page, to the
end, to an error or to an answer without a page (`PageMissing`, which the code takes for
the end), then opens a file and decompiles into it one function after the other (merged),
or writes a file for each (single).

### Preview and ToolCatalog

A JSON value is its type with what its length depends on. `Size` is the length of
its text, `Conforms` the reference for what a schema admits; the operators named
after functions of `server.py` are translated. `ToolCatalog` runs them in the
state of a router: `Begin`, `ListInstances`, `Ask`, `Finish` and `RefreshFails` are
`_refresh_tools`, `Call` is a call of an IDA tool with the coercion and the
shortening of its answer. Instances come and go between these, speak an older or
newer version, and wrap their answers or not. `PayloadAssumption` is that no tool answers
an object whose only field is `result` (section 4).

### Installer

The steps of `cmd_install` and `cmd_uninstall`: the loaders, the registry,
`ida-config.json`, then the clients of the table in order, each by `ReadConfig`,
`ReplaceConfig`, `Skip` or `ClientFails`. A configuration is the servers in each of its
sections, the version of the rest, and whether the IDA directory is set. Of the entries
under our name (`Named`) there is the one an installation would write and any other, such as
an older one or one a user gave arguments. `MakeDirectory` is the `mkdir` of a client, which
later makes the client look installed (`marked`). `Edit` is another program that writes a
configuration or `ida-config.json` meanwhile, `touched` the clients, or that file, whose
configuration changed since the command looked at it; `Raise` is an error outside the
clients' table, which ends the command, and `Die` its death.

## 3. Runs

| Run | Checks | Instance |
|---|---|---|
| `registry` | `TypeOK`, `ActiveIsLive`, `CapacityRespected`, `NoIdentityTheft`, `FocusIsStable`, `RecentTombstonesKept` | three registrations that hash to one id, three ids, capacity 2, three insertions, a clock of three instants, power loss |
| `registry_file` | `FileTypeOK`, `MutualExclusion`, `Atomic`, `CallsEnd` | two callers, two calls each, every kind of call but `cleanup_stale`, crashes, power loss, read errors; one of the callers may hang for ever |
| `idalib` | `NoWorkerForgotten`, `BooksMatchRegistry`, `OwnLimit`, `ExitLeavesNothing`, `CallsReturn` | one router, three generations, two workers allowed, an interrupt anywhere |
| `idalib_two` | `ManagersKeepLiveEntries` | two routers, one of which reaps its children, two generations sharing the same ids |
| `fleet` | `OwnEntryIntact`, `DeadEntriesSwept`, `EmptyRegistryRefilled` | one window that can die, return under its pid and fail its registry calls; two routers, one of them frail |
| `router` | `AnswersTrue`, `MisroutingBounded`, `AlarmsJustified`, `PagesKept` | one id, two ports, two binaries, a name cache of two ticks, a cache of two answers, a clock of three instants |
| `ida_server` | `TypeOK`, `IdleIsClean`, `FlagIsOwn`, `PendingIsServed`, `EveryoneGetsOn`, `DroppedSessionsEnd` | two requests with one id, one in a native loop, one from an SSE session; two databases one after the other |
| `decompile_to_file` | `ReadsComplete`, `NoneSkipped`, `OutcomeTrue`, `OriginalNotDropped`, `JobEnds` | three places, every tool but `list_globals`, one edit or rename, one change by another program, the directory moved |
| `tool_catalog` | `AnswersConform`, `AnswersFit`, `OwnToolsListed` | two instances, five tools, twelve lengths |
| `installer` | `DoneMeansDone`, `UsersKept`, `LoaderKept` | three clients, two of them in one file, two commands, one edit |
| `idalib_sweep`, `listing_globals` | `CleanupKeepsLiveEntries`; `ReadsComplete` | expected to be violated: section 4 |

Bounds and why they suffice. Three registrations over three ids are the fewest with
which an id is expanded, freed and given to another owner while the expanded one
lives; capacity 2 makes the registry full while a third registration waits; three
insertions and instants let a document be written back, changed twice and come back. Two
callers suffice for lost updates and exclusion, and two calls each let a stale
save follow a timeout. Three generations let a worker that could not be stopped,
one whose registration is unknown and a fresh one coexist under a limit of two;
there are three pids so that the limit is not kept by the number of pids. Two
starting routers suffice for every race of a clean-up or a rediscovery with another.

One id with two ports is the fewest with which an id gets another owner while its
name is cached, and two ports also change owners under one id; two binaries tell
right from wrong; two ticks of validity leave one instant at which a cached name
is old but used; three answers for a cache of two make use, not age, decide
which one is evicted.

Two requests are enough for every race over the one flag: the one whose thread sets
it and the one that sees it; they share an id because routers send the same id
with every request. One of them only looks at the flag, the other ends, raises or
is refused. The second database is the one during which a session of the first
could live on. The rows of a listing make three pages of one, or a page of two and
one of one; a row is missing in the middle, or an edit takes it from any place, adds it
or moves it. One change by another program comes at any of the steps of a write, the
directory may move as well, and single mode writes up to three files. Each tool of
`tool_catalog` stands for a kind of schema; the lengths are around the sizes at
which a piece of an answer does or does not fit. Two commands are the fewest with
which one follows another that was killed.

Deadlock is checked in `registry`, `router`, `fleet` and `tool_catalog`. In the
other models the calls, generations, requests, jobs or commands are bounded, so
their behaviours end and their configurations switch the check off; `CallsEnd`,
`CallsReturn`, `EveryoneGetsOn` and `JobEnds` say that nobody is stuck inside a
call.

Fairness. `RegistryFile`: a caller that is not in `Hung` keeps executing; the wait
for the lock polls until its deadline, so a blocked caller times out.
`IdalibManager`: a router keeps executing the call it is in (each wait in the code
has a deadline); nothing is assumed of workers or clients. `Fleet`: clients start
and end the routers outside `Frail` again and again, which is how MCP clients use
them, and a window finishes `start_server` and `stop_server`. `IdaServer`: handler, timer
and watcher threads run, IDA comes back to its queue, deadlines pass, and a tool
either ends or is in a native loop that looks at the flag; nothing is assumed of
clients or of the user who opens and closes databases. `DecompileToFile`: the router
goes on with its job, which is sequential. No process is
assumed to live, no call to succeed and no client to call.

Assumptions of particular runs. `NoWorkerForgotten`, `BooksMatchRegistry`, `OwnLimit` and
`ExitLeavesNothing` are checked with one router: with several, the race of the clean-up
(4.1) can expire a live entry, the router starts another worker under the same id and
forgets the first one. `OwnEntryIntact` assumes that ids of different endpoints differ and
that a pid does not come back in the instant between a router's check of it and the expiry:
otherwise the same race applies. `NoWorkerForgotten` and `ExitLeavesNothing` exempt the
worker whose start an interrupt cut short, and no other: that one is forgotten and runs on
(section 4). `NoIdentityTheft` and `FocusIsStable` exempt the step by which an older
document comes back after a power loss. `MutualExclusion` and `Atomic` assume that nobody
uninstalls (section 4). `AnswersTrue` asks of "not found" that the id was unknown at some
moment of the call, or that it was expired at one and is live again when told: it came back between
the two look-ups and its tombstone went. `FlagIsOwn` takes an event that is set as the
request's own, whichever request the cancel was sent for. `ReadsComplete` is stated of a
database that stays as it is; `NoneSkipped` exempts the rows behind one that went away or
moved with its name. `OutcomeTrue` is stated of names that no other program changes, and
where the directory was moved out of reach only of what it still holds; when a rollback
failed or was not made, it promises no more than that the old file has its name or the
backup. `OriginalNotDropped` allows changes of the leaf. `UsersKept` is about everything
beside the entries of our names, and exempts what another program writes between the
command's read and its replacement of a file, `ida-config.json` included. `ToolCatalog`
assumes `PayloadAssumption`.

## 4. Where the code and what it says differ

Two runs show a divergence:

1. `idalib_sweep`: the clean-up checks a pid taken from a list and expires by id;
   the id may belong to a new live worker by then (`health.py:130`, against
   `health.py:113`, "Only removes instances whose IDA process is no longer running").
2. `listing_globals`: `_get_globals_cache` assigns its list before it fills it
   (`ida_mcp/api_core.py:66`). A deadline or a cancel in the loop leaves a partial
   list that every later call takes for the whole. The lists of functions and
   strings are assigned when complete.

The following was met while translating; no run is spent on it, because a few steps
decide it or because no document promises otherwise. Where a property would be false
of it, section 3 says what the property exempts.

* Registry. `_save` calls no `fsync` (`registry.py:190`–`201`): a power loss can take back
  whole updates, or leave a broken file. `_load` quarantines an intact registry after any
  failed read, although it speaks of corrupted files (`registry.py:153`). The uninstall
  unlinks the lock file and the registry without taking the lock (`__main__.py:1290`): a
  caller that opened the lock before and one that opens it afterwards do not exclude each
  other.
* Health. Rediscovery registers a server that registered itself after the snapshot,
  or that another router adopts at the same time, once more (`health.py:300`).
  No one reads the heartbeats: an entry whose unregister failed lives as long as
  its IDA process (`health.py:129`; `src/README.md:253`).
* Windows. `stop_server` unregisters, so the "old instance" of `src/README.md:254`
  never becomes an expired one (`plugin/ida_fusion_mcp.py:202`).
* Router. An instance that had expired and registers again under its id between
  `get_instance` and `get_expired` (`router.py:60`, `:69`) is answered as expired, or as not
  found when its tombstone is dropped there too, although it serves again.
* Idalib. The handlers of a start catch `Exception` (`idalib_manager.py:357`, `:425`–`445`).
  A `KeyboardInterrupt`, which the loop over the input takes for its end
  (`vendor/zeromcp/mcp.py:447`), passes them, and the worker that is being started, whether
  it is registered already or not, is in none of the books that `close_all_sessions` goes
  through. It runs on, against "every exceptional path must either confirm process death or
  retain the process" (`idalib_manager.py:355`). A worker that exited stays listed as alive,
  because an unreaped child answers `kill(pid, 0)` (`idalib_manager.py:702`).
* Requests. The table of pending requests is one for all connections and is keyed by
  the id, which clients choose (`ida_mcp/zeromcp/jsonrpc.py:34`, `:46`–`50`); the router
  sends 1 with every request (`router.py:172`). A cancel sent for one request therefore
  stops whichever registered the id last, also one of another client. When the
  earlier of two completes, it removes the record of the later, which nothing can cancel
  then.
* Timeouts. A tool that catches every exception per item (`ida_mcp/api_modify.py`)
  also catches the one the profile function raises, and goes on without a deadline
  (`ida_mcp/sync.py:175`). Edits whose deadline comes before the caches are dropped
  leave old lists (`ida_mcp/api_modify.py:496`, `:687`) until `refresh_caches`.
* Listings. A cursor that is an offset skips a row when one before it goes away between
  two pages, or when a rename (`ida_mcp/api_modify.py:494`) moves one that was given
  behind it, or out of the filter: filters and sort keys are names
  (`ida_mcp/api_core.py:298`, `:664`).
* Output files. `_leaf_has_identity` and `_leaf_lstat` at the beginning of a rollback
  stand outside its `try` (`server.py:293`, `:299`): an `OSError` there leaves the new file
  in place and the old one in the backup, while the caller is told of an error. On
  Windows no directory is held open (`server.py:29`–`33`, `:96`–`100`), so when it is moved
  in the middle of a write, the write goes on in whatever is at the path.
* Decompilation. A page without content ends the listing like the last one
  (`server.py:1091`): the job decompiles what it has and reports success.
* Catalogue. A refresh that raises leaves the output schemas of the IDA tools as they
  came, not wrapped into objects, and the catalogue flagged valid (`server.py:1205`).
  An `idalib_open` that succeeded is answered as an error when the refresh after it
  raises. With a limit of one character, an answer without a schema is longer than
  the limit. An answer whose only field is `result` is unwrapped also for a tool with a
  plain object schema (`server.py:497`); no tool of this version answers so.
* Installer. `src/README.md:134`–`154` and `src/docs/installation.md:135`–`155` tell users
  to keep an `--idalib-python` of their own in our entry; the next installation generates
  the entry anew and replaces theirs (`__main__.py:405`). The directory that marks a client
  as installed (`__main__.py:77`) can be one that the command made itself (`:908`). A
  client's change between the read and the replacement of its file is lost
  (`__main__.py:884`). An installation that failed for some clients exits with 0. An
  uninstallation leaves the entries of `LEGACY_SERVER_NAMES`, and loaders under another
  `--ida-dir`.

## 5. What is proved

All proofs are for every number of ids, instances, callers, requests and files,
every pattern of collisions and every limit. The assumptions on constants are
those the modules state, and TLC evaluates them in the runs.

`RegistryDocProofs` holds the lemmas on the operators of `RegistryDoc`: each
operation maps documents to documents, keeps `WellFocused` and the capacity.

`RegistryProofs`: `TypeCorrect`, `ActiveAlwaysLive`, `CapacityAlwaysRespected`,
`IdentityIsKept`, `FocusStaysPut`, `RecentTombstonesStay`. The inductive invariant is the
conjunction of `TypeOK`, `WellFocused` and the capacity with the fact that sequence numbers
of entries lie below `doc.n` and differ, which `FirstKey` needs to be well defined, and with
the same of the document that a power loss brings back (`DurableInv`). `IdentityIsKept` and
`FocusStaysPut` exempt that step (`GoBack`). The last theorem also needs that there are
finitely many tombstones (`TombstonesFinite`), although there may be infinitely many ids: an
expiry buries live ids only. A tombstone that the clean-up drops has at least `MaxExpired`
younger ones, which with itself are more than the cap (`CleanupKeepsYoung`).

`RegistryProofs`, the file and its lock: `Exclusion`, `Refinement` and `FileTypeCorrect`.
`Exclusion` rests on `LockInv`: whoever is past `flock` is the `holder`. `Refinement` needs,
beyond that, that what a caller is about to save is the result of its request on the
document that is committed now (`SavesWhatItLoaded`): no one else can have replaced the
file, as that takes the lock. With it every step is a step of `Registry` or a stutter, a
write-back is `Persist` and a power loss `GoBack`. The same invariant gives the type: what
is replaced was computed from a well-formed document.

`IdaServerProofs`: `ServerTypeCorrect`, `IdleAlwaysClean`, `FlagAlwaysOwn`,
`PendingAlwaysServed`. That IDA is clean between calls (batch mode and the cancelled flag
as before, every timer and watcher over) is not inductive: it holds
because a thread that may still set the flag belongs to a call that is still on the
stack (`ThreadInv`), which `Join` ensures, because at most one call is (`StackInv`)
and because a call is queued once (`QueueInv`). `FlagInv` adds that the flag is also
clear during a call that nobody guards, as `Exit` would not clear it.
`PendingInv` adds to `PendingIsServed` that a record is under the id of its request,
so that the end of the request removes it.

`DecompileToFileProofs`, output files: `OutcomeAlwaysTrue` and `OriginalNeverDropped`, for
any number of files and of changes by other programs, with a directory descriptor or by
path, and with looks of the rollback that fail. What holds whatever other programs do
(`MeddledInv`) and what holds as long as they do nothing (`AloneInv`) are separate
invariants, and the latter has one part for a directory whose names can be reached and one
for a directory that was moved away. The first of these follows the write from place to
place: until the replacement the name holds what it held (`Undecided`), from the link to the
end there is a second name for it (`Kept`), and on the way back the backup goes only when
the old file is in place (`RollingBack`).

`DecompileToFileProofs`, listings: `NoRowSkipped` and `ReadsAreComplete`, for any
addresses, filters, counts, page sizes, initial databases and numbers of edits, and
whether a client or the job of `decompile_to_file` reads. The k-th row of an ascending
listing is the one of rank k (`AscendingFacts`), so where a client stands is a number
of rows, `Place`, for a cursor that is an offset as for one that is an address. Every
page of every tool is then the rows from one place to the next (`IsPage`, shown for
`Paginate`, `FindRegex` and `SearchText` in `OffsetPage` and `SearchPage`). The
invariant of the first theorem is that a row with a claim whose rank is not above the
place has been given (`NoneSkippedSoFar`); it survives edits because rows that come
only raise ranks, and an address cursor moves with them (`PlaceGrows`), and because after
a page from a listing that lacks a row of the one before, gone or moved with its name,
no row has a claim. The invariant
of the second is that what the client has is the listing up to its place
(`CompleteSoFar`). `list_globals` is excluded from it, and only from it: its cache is
filled in place (4.2), so there the claim is false.

`FleetProofs`: `OwnEntryStays`, for any number of windows and routers and any faults.
It assumes `IdsDiffer`, that ids of different processes differ; ids of one process
may collide with each other. The entry of a window is safe because an entry always has
an id of the process it is for (`EntriesBelong`), and a clean-up expires only the id
of a process that it found gone and that is still gone (`SweepsBelong`, which needs
that the pid does not come back in that instant, see section 3). An adoption takes a
free id, so it replaces nothing.

`RouterProofs`, requests: `AnswersAlwaysTrue`, `MisroutingAlwaysBounded`,
`AlarmsAlwaysJustified`, for any changes of the registry and of the servers. The invariant
of the first is that what is true now has been noted, and what may be said of an id that was
not live (`MissingKnown`): with a tombstone that it was expired, without one that it was
unknown at some moment, or expired at one and is live again. For the other two it is
`NamesTrue`: a cached name is what the server of the id's entry answers, or since the query
that server changed or the entry was made. That needs that an entry made during a query is
no older than the query (`CheckedIsCurrent`), and that an entry was right when it was made
(`EntriesTrue`). `NameTimeout` is assumed to be positive; with zero a change in the instant
of the check would not be covered.

`RouterProofs`, response cache: `PagesAlwaysKept` and `CacheAlwaysBounded`, for any
answers, capacity and TTL. Cache and history (`recent`) are sequences of different
entries; the proofs speak only of which entries they have (`Has`) and in which order
(`Ahead`), and each operator has a lemma that says so (`KeptOrder`, `ConcatOrder`,
`LastOrder`, `AppendOrder`). That the answers the client had last are there is not
inductive, as the cache also holds older ones, which count towards its capacity. What
is (`Protects`): every young answer of the history is in the cache, and whatever the
cache has ahead of it towards the recent end is ahead of it in the history, too. So it
has no more entries after it in the cache than in the history, which is as short as the
cache (`AfterCount`), and is not among those that `store` drops. What `Kept` computes
is shown by induction on the length of the sequence (`EveryNat`, `KeptPicks`).

`IdalibManagerProofs`, one router: `NoWorkerEverForgotten`, `BooksAlwaysMatch`,
`LimitAlwaysKept` and `ExitAlwaysComplete`, for any number of workers, pids and ids and
any failures of registry calls, starts and stops, but for one router (`OneRouter`): with
several they are false (4.1), since an entry that the race takes away frees an id, and
the next worker under it overwrites the session of the one that still serves. A session
is registered at every moment, not only between calls (`BooksInv`), so that an id that
is free in the registry is free in the books and tracking a new worker overwrites none.
A worker that is being started has no entry until its registration raised (`JobInv`),
and the one whose entry is removed has ended. Pids of processes that exist differ
(`WorkersInv`), so that the pids the router counts are as many as its processes; that
theorem also assumes that the generations and the pids are finitely many. For the exit,
every worker that serves and was not cut off by an interrupt waits in `todo`, from the
start of the exit on (`ExitInv`), wherever in a call the exit began. A worker is cut only by
a router that then leaves (`CutInv`).

`IdalibManagerProofs`, any number of routers: `LiveEntriesStay`. Here the books of a
router may be wrong, and ids change hands under it. What remains (`EndedInv`): the
worker of an entry has the entry's pid, and a router that is about to unregister an id
carries the generation of a worker that is gone for good. Compare-and-delete under the
ownership nonce then takes away an entry of that worker or none. As pids are handed out
again, that no process has the pid of an entry is what shows its worker to be gone,
not that some process has it.

`InstallerProofs`: `DoneCorrect`, `UsersStay` and `LoaderStays`, for any clients, files,
sections and extensions, and any number of commands and of changes by clients. They share
one inductive invariant, `InstallerInv`. `PlaceInv` and `TodoInv` say where the command is
and that what it has not come to is the rest of the table. `LoadersInv` follows the loaders
from step to step: the old ones go only when the new one is there. `MemoryInv` is the one
`UsersStay` needs: what the command is about to write is the change of what the file says at
this moment, or someone wrote it since it was read; then every client that has the file is
in `touched`, not only the one at hand (and for `ida-config.json` the file itself is).
`DoneMeansDone` speaks of the end only; `PassedInv` makes it inductive: a client the command
has passed, and of which it did not say that it failed, is as it should be, and stays so
while the same file is changed for another client (`ReplaceFinishes`), whether the two have
the same section or not. That step needs the table's order (`TableAssumption`): of the
clients that share a file all but the last are extensions. Otherwise an installation that
creates a file for a later client would make an earlier one, passed over because the file
was not there, look detected and not installed. In the tables of all three platforms
(`__main__.py:425`) only Augment Code, Qodo Gen and VS Code share a file, in this order.
`NoneAssumption` keeps `None` and `Bad` apart from configurations and commands. The
invariant was checked with TLC on the instance of the run `installer` before it was proved.

What stays with TLC. Liveness (`CallsEnd`, `CallsReturn`, `DeadEntriesSwept`,
`EmptyRegistryRefilled`, `EveryoneGetsOn`, `DroppedSessionsEnd`, `JobEnds`): fairness and
`ENABLED` are out of the provers' reach. `AnswersConform`, `AnswersFit` and
`OwnToolsListed`: `ToolCatalog` rests on the `RECURSIVE` operators of `Preview`, which
the provers cannot use, and what those compute of nested values is induction over data.
The list of globals is as 4.2 says.

## 6. Not modelled

* The tool APIs other than the listing tools, `_sigmaker.py` and most of `utils.py`:
  sequential computations over IDA's database without state of their own. A model
  of them would be a model of IDA.
* The heartbeat thread of a window and the idle monitor of a worker. A heartbeat is
  an operation of `Registry`, and a worker may exit at any moment in `IdalibManager`,
  so what they do to others is there, but not when they do it.
* The management and idalib tools of the router: they check arguments and call
  operations that are modelled.
* The download store of `ida_mcp/rpc.py`, the configuration page, the stdio loop and
  the header checks of the transport, the stderr drainer, GUI preference modes,
  parsing of `lsof` and `netstat` output, the Windows lock calls (same states as
  flock), file permissions, input schemas, TOML and JSON texts.
* Python's own data races: the interpreter lock makes each access of the models'
  variables atomic.

## 7. What could follow

1. `Preview` with recursive functions over a bounded depth, and what its shortening
   preserves.
2. The heartbeat thread in `Fleet`, the idle monitor in `IdalibManager`.
3. The download store of `ida_mcp/rpc.py`, and patterns of `_sigmaker.py` against a
   reference definition.
