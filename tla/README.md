# SteamFlipper: a verification project

TLA+ models of the program in `src/`, model-checked with TLC and, where a property
matters for every instance, proved with TLAPS. Paths below are relative to the
repository root (`src/src` holds the C++ module, `src/plugin` the web views,
`src/tools` installers, generators and tests).

## The system

SteamFlipper is a shared library loaded into the Steam client. It hooks functions of
`steamclient` and `steamui`, watches directories of `.lua` files that name depots and
pin manifests, adds those depots to Steam's package 0, and answers some of the client's
network requests itself, cloud saves among them. It runs on threads it does not own
(Steam's network, ownership and UI threads) and on its own: a watcher for `.lua` files,
a watcher for the configuration file, a loopback HTTP endpoint for saves, the UI
injector, background fetches.

### Inventory

| Component | Sources (`src/src/…`) | State | Operations | What makes it correct |
|---|---|---|---|---|
| Cloud save store | `Utils/CloudSaves` | per account and app an `AppState` (change number, batch flag, records), announced uploads, a manifest file, one blob per name | nine RPCs, GET and PUT on a loopback endpoint, Initialize, Shutdown, the set of served apps | what was answered survives a crash; the change number never goes back; the client is never told to delete a save nobody deleted |
| Lua configuration | `Utils/Config/LuaConfig.cpp` | depots per file, reference counts, keys, pins, parse order, two pending queues | `ParseFile`, `UnloadFile`, `TakePending…`, `MarkOwned`, lookups | a depot is registered exactly while a file names it; the latest pin wins; the queues tell every change once |
| Watchers | `Utils/Config/LuaFileWatcher.cpp`, `ConfigFileWatcher.cpp`, `SFPlatform/*/DirectoryWatch.cpp` | open watches, merged changes, debounce | `Start`, `Stop`, the two threads, reload on changed `lua_paths` | every change is processed, with the file's last content |
| Package injection | `Hook/Hooks_Package.cpp`, `Hook/EnsureRoom.h` | package 0's vector, whether it is resolved and injected | `InitFakeLicenseOnce`, `NotifyLicenseChanged`, `CheckAppOwnership` | package 0 lists the registered depots, each once |
| Library removals | `Hook/Hooks_SteamUI.cpp` | pending removals, hidden apps | `QueueRemoval`, `CancelRemoval`, `RunFrame`, the overview rebuild | only apps without a file are hidden |
| Network packets | `Hook/Hooks_NetPacket.cpp` | reply queues, manifest-code futures, rich-presence slot | send and receive hooks, their feature handlers | a swallowed request is answered once, in order |
| Manifest metadata | `Hook/Hooks_Manifest.cpp`, `Utils/SteamMetadata/ManifestClient.cpp`, `StatsClient.cpp` | caches, a mutex held during a fetch | lookups, HTTP and Lua fallbacks | an answer belongs to the request it is used for |
| Pattern and IPC metadata | `Utils/SteamMetadata/{PatternLoader,IPCLoader,RemoteToml,Mirror,SteamDiagnostics}.cpp` | cached TOML files, resolved addresses | load, download from mirrors, cache | a broken download never replaces a good cache |
| In-client UI | `Utils/LuaFlipperUI` | HTTP API, session token, injector connection, download jobs | API handlers, injector loop, install and fix jobs | a job is applied wholly or undone |
| Updater | `Utils/Update/AppUpdater.cpp` | staged file, backup, source check | check, stage, clean up, pull | a failed update leaves the old module in place |
| Configuration file | `Utils/Config/Config.cpp` | settings | load, keep previous on error | readers see one consistent configuration |
| Pipe features | `Pipe/*` | per-pipe process and handlers | pipe create, process, destroy | a reused pipe handle inherits nothing |
| IPC and callback hooks | `Hook/Hooks_IPC*.cpp`, `Hooks_CallBack.cpp`, `PendingAPICalls.cpp` | recorded API calls | record on request, take on answer | an answer is matched with its own call |
| Hook installation | `Hook/HookManager.cpp`, `HookMacros.h`, `Hooks_Decryption.cpp`, `Hooks_Misc.cpp`, `Hooks_KeyValues.cpp`, `Utils/HookSupport` | installed detours | install, retry late, uninstall | hooks are installed once and all removed |
| Tickets | `Utils/Tickets` | cached tickets | mint, read, fall back | a ticket is for the app it is served to |
| Loaders, platform layer, redeem codes, logging, Steam types, tools, browser plugin | `Bootstrap`, `dwmapi`, `xinput1_4`, `SFPlatform`, `Utils/Tokeer`, `Utils/Logging`, `Steam`, `proto`, `src/tools`, `src/plugin` | little of their own | wrappers, declarations, generators, rendering | see *Not modelled* |

How they interact: the watchers call `LuaConfig` and then
`Hooks_Package::NotifyLicenseChanged`; the ownership hook reads `LuaConfig` and injects
package 0; `NotifyLicenseChanged` queues ids that the UI thread's frame hook hides. The
send hook of `Hooks_NetPacket` hands cloud requests to `CloudSaves::HandleRpc` and queues
the reply, which the receive hook delivers on the back of the next real packet; the save
bytes travel over the loopback endpoint instead.

Hard behaviours: threads that share maps without a lock, values read before a step of
another thread and used after it, a crash between a file system change and the record of
it, lost replies and late transfers, queues with a limit, a reload during which nobody
watches. `PROJECT.json` lists them one by one under `hazards`.

## Modules

| Module | Models | Kind |
|---|---|---|
| `SaveCatalog` | what a cloud-save backend promises: a durable catalogue under a growing number | abstract specification |
| `CloudStore` | the backend: RPC handlers, endpoint, manifest, crashes | component; implements `SaveCatalog` |
| `CloudSync` | `CloudStore` with the client that syncs against it | composition |
| `LuaRegistry` | `LuaConfig`'s depots, counts, pins and queues, as operators on a record | component |
| `LuaTables` | how a file is cut into statements, and the tables beside the depots | component |
| `LiveLicense` | the watcher, Steam's and the UI's threads around `LuaRegistry` and package 0 | composition |
| `WatcherLife` | start, stop, restart and exit of the two watcher threads | component |
| `LocalAnswers` | requests the packet hooks answer themselves: cloud calls and legacy keys | component |
| `ManifestCodes` | manifest request codes: background fetches and the wait for them | component |
| `NetHooks` | the send and receive hooks, tying the two together | composition |
| `RichPresence` | the friend-list banner for games Valve does not believe are owned | component |
| `PacketRewrite` | statistics, access tokens and the app a cloud request is about | component |
| `Startup` | loading patterns and IPC metadata from mirrors and caches, and what is hooked then | component |
| `Trap` | soft breakpoints under Steam's threads | component |
| `PipeSession` | processes, their pipes, injected libraries, calls answered later | component |
| `AutoUpdate` | Linux: the start's decisions and the two detached helpers | component |
| `StagedModule` | Windows: download and swap of the mapped module | component |
| `SettingsFile` | who writes and who loads `steamflipper.toml` | component |
| `TomlEdit` | the edits of that file's text, and what a load reads from it | algorithm |
| `FixArchive`, `FixCases` | reading archives, choosing sources, finding depot keys; what is claimed of them | algorithms |
| `FixFiles` | installing packs and applying fixes, with backups and crashes | component |
| `ManifestShelf` | manifests installed, updated, removed and put back | component |
| `UrlTail` | keys taken from Steam's console log | component |
| `FixSession` | the account's session behind the fixes page | component |
| `StoreBridge` | injector, one bridge per store view, leases, the loopback server | component |
| `Cdp` | frames of the debugging connection | component |
| `ClientText` | escaping, query decoding, regions of a document | algorithms |
| `ClientCalls` | handlers that act through Steam's own pages, and the key check | component |
| `Induction` | induction over numbers, recursive functions, joined sequences | lemmas |
| `CloudSyncProofs` | `CloudStore`, and `CloudSync` | proofs |
| `LuaRegistryProofs`, `LiveLicenseProofs` | `LuaRegistry` and `LuaTables`; what Steam is shown of the registry | proofs |
| `NetHooksProofs` | `LocalAnswers`, `ManifestCodes`, `NetHooks`, `PacketRewrite` | proofs |
| `FixFilesProofs` | `FixFiles`, `FixArchive` and `FixCases` | proofs |
| `ClientHostProofs` | `Trap`, `RichPresence`, `Startup`, `StagedModule`, `AutoUpdate`, `PipeSession`, `WatcherLife` | proofs |
| `ClientUiProofs` | `ManifestShelf`, `FixSession`, `ClientCalls`, `UrlTail`, `SettingsFile`, `Cdp`, `TomlEdit`, `ClientText` | proofs |
| `MC…` | instances for TLC | model checking |

An operator marked `mutant` stands before the definition it is a broken form of: the
slip a programmer could make there. No specification uses it; `PROJECT.json` names the
property that notices it.

### CloudStore

State: `active` is `g_active`; `st` the `AppState` of one account and app; `pending` is
`g_pending`; `manifest` the manifest file; `blob` the save files. A save's bytes are
their SHA. Every RPC handler runs under `g_mutex`, so it is one action, its
`SaveManifest` included; `RpcCommitFileUpload` has three outcomes and three actions
(`CommitFailed`, `CommitWithoutBlob`, `CommitFileUpload`), `RpcGetAppFileChangelist`
two. `DeleteFile` changes the disk twice; `CrashInDelete` is the process dying in
between. `HttpPut` publishes bytes without the mutex. `DiskFails` lets the manifest
write fail, which the handlers ignore.

### CloudSync

Adds the client, which is Valve's and is modelled from how `CloudSaves.cpp` uses it and
from what its comments say of it: it deletes a local file only when a full inventory
omits it and the file has not changed since the last sync, and it accepts a download
only with the listed SHA. Its replies can be lost, its jobs cancelled, its PUTs can land
late, and the process, in which both live, can crash at any point.

### LuaRegistry, LuaTables and LiveLicense

`Unload` is `UnloadFile`; `Run` is the part of `ParseFile` after the file is open, with
`lua_addappid` and `lua_setManifestid` applied for every line; `Parse` is both. A file is
what running it registers, so a syntax error or a half-written file is a file that
registers less. `LuaTables` models that step: lines that are a statement, the start or
end of one or no Lua at all, a statement that raises, and the keys, purchase times and
add-only tables (tokens, process names, …) that statements fill.

`LiveLicense` splits a parse where other threads can read
(`UnloadNext`, `RunNext`) and `NotifyLicenseChanged` where it touches shared state
(take the removals, remove each, take and apply the additions, queue the UI removals).
`InitFakeLicenseOnce` is two steps of Steam's thread, read and write. `RunFrame` swaps
the queue out and hides the ids one by one. `mem` and `size` are package 0's
`CUtlVector`, whose memory keeps stale elements beyond its size. `world`, chosen at the
start, says what else a behaviour may hold: changes of files `"early"`, before the first
injection, a `"reload"` after a change of `lua_paths`, a heap that is `"full"` and on
which `EnsureRoom` fails. Each costs one of the edits a behaviour may make.

Simplifications, each on the side of fewer behaviours: two threads can be in
`NotifyLicenseChanged` at once (one per watcher), which the model serialises; a racing
read of a hash map is taken at one point; the watches of a reload open before the
reload's notification. inotify never overflows here; in `WatcherLife` it does.

### WatcherLife

`Start` and `Stop` of each watcher are split at the flag and the thread object:
`Flagged`, `Spawned`, `Unflagged`, `Joined`. A thread object is empty, alive or
finished, and assigning or destroying one that is not empty is `std::terminate`
(`aborted`). `InitThread` parses, starts the Lua watcher, then the config watcher, each
of which registers an exit handler; the config watcher restarts the other when
`lua_paths` has changed. The Lua thread opens its watch, which may fail and end it,
waits, merges, debounces and parses. `EventLimit` and `ReadLimit` are the notification
queue and the read buffer; Linux drops what does not fit, Windows loses what it held
(`life.os`). `missed` names the files whose change nobody could have seen: the property
excuses those only.

### Startup, Trap and PipeSession

`Startup` is `InitThread` up to the hooks. For each of two components (patterns, IPC
metadata) `Fetch` asks the mirrors in order for the file of this client's digest, writes
what came over the cache and falls back on the cache; `Keep` ends that write, which a
crash or a full disk can cut. `Regenerate` is the generator on Linux. `CoreHook` attaches
what was found; ownership is on only if every function it needs is there
(`RequiredForUnlock`).

`Trap` has sites (one-shot and persistent), threads that run into a breakpoint, the
handler, and the single step after which a persistent site is armed again. `DisarmAll`
may come at any time. Whether a thread reaches a site while the original byte is back
is left open, as on the hardware.

`PipeSession` has processes that reuse each other's numbers, with a birth that tells
them apart; handshakes; the cached snapshot of a process; the retries that find the app a
pipe belongs to (environment, bound app, executable name); `SpawnProcess` with
`-onlinefix`; libraries injected once per process; and calls that are answered on a later
poll. Steam runs one game at a time in it, as `Hooks_Misc.cpp` assumes. `MarkOwned` is the
ownership hook finding that a configured game was bought (`OwnedApps`): `HasDepot` then
leaves it out where its second argument says so, which is where calls are dispatched and
not where a handshake tracks the process. A process number is not given to another process
within the half second a handshake retries.

### AutoUpdate and StagedModule

`AutoUpdate` is the Linux side across restarts of Steam: `LookAround`, `CheckSource` and
`PullSource` are the stages of `AutoUpdateThread`, `JsonSourceApply`, `JsonKeySync` and
`JsonAutoInstall` the buttons, and the two helpers wait for Steam to close, install or
write keys, report in the one file `update-status`, and start Steam again. Versions are
compared as the code does, field by field. A build can be broken, a network down, a
checkout dirty, a game running, a helper unable to start. The installer can fail before it
copies the module or after (`InstallerFails`), and only warns when its key step does
(`KeysInInstaller`). `sync_depot_keys.py` finds the keys of `config/stplug-in/*.lua` that
stand in statements of one line, while the module counts those of every registered depot as
wanted; `Unread` are those it does not find. `loadedKeys` is what Steam read of `config.vdf`
at its start and writes back at its exit.

`StagedModule` is the Windows side: the running module is moved aside, a new one is opened
under its name and written, and the old one moved back if that fails; a crash comes
between any two steps.

### PacketRewrite

Requests for statistics go out in the name of a donor's account and are remembered by job
and app; `g_JobIdToAppId` says which answer is whose, and a file's reload can change that
in between. `ExtractAppId` reads the app out of a cloud request's body by hand. A body is
a sequence of fields in wire format: numbers, fixed 64 and 32 bits, and strings whose
bytes may look like fields themselves. `ReadVarint` and `FindVarintField` are the loops of
the code as recursive functions of the position, over a body cut anywhere. A byte of a
number carries one of 8 values and not of 128, which keeps instances small; a number has
ten bytes at most, as in the code.

### The client's pages

These components share no state but the API's lock, which makes each handler one step
unless it changes the disk more than once or another thread can come between.

- `SettingsFile`: `WriteConfigKey` reads, edits, writes a temporary file and renames it;
  the watcher drains its events, parses and applies. Two writers may share one temporary
  file (names are links to inodes). `TomlEdit` is the edit itself, with `Config::Load` as
  its reader. The code edits text, so a line says what the searches can hit in it: a
  section's name in a comment, the word of a flag, a value that goes on in further lines;
  and `ending` says whether a line put in gets a line of its own. Headers start their line,
  as the program writes them, and no line of a value looks like one.
- `FixFiles` runs `Install` and `Apply` entry by entry: backup, temporary file, rename.
  Each can fail, and the process can die at each. `FixArchive` finds the directory of an
  archive cell by cell, orders sources and finds keys in `config.vdf`; `FixCases` takes
  each of a set of inputs as an initial state.
- `ManifestShelf`: installing, `JsonUpdate`, `JsonRemove` in its two file system calls,
  `JsonRestore`, and `SweepRemoved` at the next start.
- `UrlTail`: `Look` takes the log's length, `Read` reads to the end it has by then and goes
  on from the length looked at, `Adopt` saves one key; Steam writes, in one piece or two,
  and rotates the log between any of them. The two spellings of the address are searched
  for one after the other.
- `FixSession`: access token in memory, refresh token in the file, a service that
  replaces the latter on use, replies that do not come (`ReplyLost`), a loaded
  configuration that lags.
- `StoreBridge`: pages that open, navigate, lose their connection and close; leases the
  pages renew and `Tick` runs down; the injector that lists targets, attaches and injects
  the main window; the one server thread whose lock a call may find taken. `InjectMain`
  notes the window once it is connected, whatever became of the script (`missed`). A page
  runs what is sent on a connection that stands (`SetUp`), and the document of the main
  window is taken not to be reloaded under the same target.
- `Cdp`: the encoding of a length, and `Recv`'s resumption of a frame after a timeout.
- `ClientCalls`: an expression evaluated in Steam's page may find none, run without its
  answer coming back, or be refused; a key is tested right after it was saved.

### LocalAnswers, ManifestCodes and NetHooks

`Hooks_NetPacket.cpp` replaces two functions of Steam's connection. The send hook
(`BBuildAndAsyncSendFrame`) runs on any thread. The receive hook (`RecvPkt`) runs on one
and calls the feature handlers in a fixed order.

In `LocalAnswers` a request is its job. `Swallow` queues a reply and reports the frame as
sent; `Forward` lets it through. Whether a request can be answered depends on whether a
manifest names the app (`managed`, which a file's arrival or removal flips between any
two requests) and on what `CloudSaves` leaves alone (`Unanswered`). `pending` holds both
deques, `stage` and `held` say how far the receive hook has come: `Pop` takes one reply
under the queue's lock, `Deliver` passes it up outside of the lock, so a send may fall
between any two steps.

In `ManifestCodes` a fetch is a thread (`std::async`), `ManifestClient`'s mutex admits
one at a time, `futures` is `g_CodeFutures`. `Take` removes the future and starts the
wait; `TimeOut` is `wait_for` giving up, after which the handler returns and destroys the
last reference to the future. That destructor waits for the thread, which is `phase =
"drop"`. `waited` counts the seconds of both, up to one past the limit.

`NetHooks` puts the receive thread between them: a packet first carries the queued
replies, cloud before keys, and only then is looked at itself (`CodeAnswer`,
`OtherPacket`); while it waits for a code nothing else is received.
The runs check `NetHooks` only; the two features have no scheduling of their own.

Left out: the notifications of the legacy redirect, which go through the same hook and
carry no reply. The handlers that only rewrite fields of a passing packet are
`PacketRewrite`'s.

### RichPresence

`stack` is the list of running games Steam reports in `GamesPlayed`; `TrackSend` follows
its last entry. `g_InjectPkt` and `g_InjectPending` are the slot that holds the staged
packet; `Stage` is a no-op until a real push about the user has been cached. `RecvOther`
is any packet, before which the staged one is slipped in; `RecvPush` is a push about the
user, which is patched. What Steam does with a push (`Shown`) and what Valve announces
(`Announced`) are external. Each hook call is one step: the code takes no lock around
the slot, so a send during a receive is a data race in the program which the model does
not explore.

## Runs

A run is one question asked of the system; components that share no state are checked in
one run, where each behaviour works one of them (`part`) and leaves the others as they
begin. A property is often a conjunction of named parts, each commented where it is
defined.

| Run | States | Shows |
|---|---|---|
| `cloud` | 203,322 | requests in any order with crashes (`part = "requests"`), and a client that commits inside batches, with lost replies, late PUTs and cancelled jobs (`"client"`): durability, refinement of `SaveCatalog`, no save deleted unasked |
| `truncated_list` | violation | a changelist cut at the reply's size makes the client drop the rest |
| `failed_upload` | violation | a failed transfer deletes the last good copy |
| `registry` | 806,727 | counts, pins and queues of three files in any order; of two files with early edits, a reload and a full heap at once |
| `live_license` | 294,232 | edits at any time, alone or with one of those: package 0 and the library follow the files |
| `phantom_depot` | violation | a depot stays listed after its last file is gone |
| `net_hooks` | 81,118 | each request answered once, in order, by one side; a code that is there in time is used; every reply and every answer of Valve gets through |
| `client_ui` | 420,007 | the twelve modules of the pages |
| `client_host` | 538,265 | the nine modules of the module in Steam's process |
| `lost_setting` | violation | two writers of the configuration: one setting is lost |
| `dead_toggle` | violation | the cloud switch does nothing if a comment has the word first |
| `retried_build` | violation | a build that failed is built again, because the key helper wrote over its status |

What the properties of the two large runs say:

| Property | Component | In words |
|---|---|---|
| `ShippedSurvives` | `FixFiles` | what a game shipped is in its place or in the copy beside it, whatever fixes and crashes came |
| `AnswerIsTrue` | `FixFiles` | a job's answer counts what was applied, rejected and locked |
| `ArchivesHold` | `FixCases` | a cut archive installs nothing; the order keeps every source; a probe agrees with the installation; a key is its depot's |
| `ShelfMatchesAnswers` | `ManifestShelf` | the directory is what the answers said |
| `EachActivationOnce` | `UrlTail` | a key is adopted at most once, in order, and never from before the start; except that lines appended between look and read are taken again, and that the two spellings of one read follow each other |
| `SessionIsKept` | `FixSession` | the saved token is the one the service accepts, unless that one was lost with a reply, a write or Steam; a link works once |
| `FramesArrive` | `Cdp` | lengths survive their encoding; frames come whole, in order |
| `EditsStayInPlace` | `TomlEdit` | where the section is found, the value is on one line and a new one gets a line, an edit changes its setting and no other; the cloud switch leaves a file that parses with at most one setting more on, which is the cloud's where it is found |
| `TextComesBack` | `ClientText` | a text survives escaping and decoding; a region is one value |
| `SettingsReachConfig` | `SettingsFile` | every change is loaded in the end |
| `StoreGoesBackToNormal`, `ViewsAreServed` | `StoreBridge` | a tab that is left is normal again; views that stay have their script and answers, but for a script lost on the main window's connection |
| `CallsTellTheTruth` | `ClientCalls` | what the pages are told about the client was so |
| `ThreadsAreSafe`, `WatchersFinish` | `WatcherLife` | no abort, one reader of the files at a time; an exit ends, every edit is loaded |
| `PresenceOnItsWay` | `RichPresence` | the game on top and its keys are shown or staged |
| `StartIsWhole` | `Startup` | what is loaded is for this client, all that there is, and the user is told if it is not enough |
| `AWholeModuleIsLeft` | `StagedModule` | a whole module is under one of the two names |
| `KeysStayWritten`, `UpdatesSettle` | `AutoUpdate` | a key once written survives Steam's exits; keys are not forgotten, restarts come to an end, versions and keys arrive, but for keys the script does not find |
| `TrapsHold` | `Trap` | no thread meets a trap that nobody handles; bytes settle |
| `TablesFollowTheFiles` | `LuaTables` | a key some file gives is there; statements before a bad line count |
| `PacketsNameTheirApp` | `PacketRewrite` | only a donor's answer is struck; a request is put down to its app |
| `PipesAreKnown` | `PipeSession` | a pipe's app is its process's, injected once, answered once, and told its own id unless the user owns it |

Bounds. They are in the `.cfg` files; a counter is capped by a guard and its constant is
marked `bound` where it is declared.

- *cloud*: records interact only through the change number and the size of a listing,
  so two names are enough. `MaxCn = 4` lets a client be behind, level and ahead, with a
  batch and a commit after each; two PUTs in flight let a late one meet a newer one.
- *registry*: three files, so that a depot has a first, a middle and a last provider and
  a pin can fall back twice; `MaxParses` and `MaxPending` cap counters only.
  *live_license*: two files, two depots, three edits: enough to add, share and remove a
  depot while a pass runs.
- *net_hooks*: four workloads, among them more answerable calls than a queue holds and
  two code requests that compete for the fetch with one nobody fetches for.
  `kMaxWaitSeconds` is 1 in place of 12: the model tells apart before, at and past it.
- *client_ui*: archives have up to four entries, each kind of entry among them; two apps
  and two versions; one page, whose faults (three) include navigation, a lost connection
  and a closed window; a lease of two ticks; a log with one line before the start and
  four in all, each of either spelling; texts of four characters, lines or tokens, which
  is enough for an escape within an escape and for a comment before a flag.
- *client_host*: two games of ours and one of Valve's, all of which can run at once;
  two builds of the client, two mirrors; three builds of the module and four starts;
  three versions, the last older than the others if compared as text, one of which does
  not build; one key the script finds and one it does not; two process numbers and two
  processes, so that a number is used again; two configured games, one of them owned; two
  threads at a one-shot and a persistent trap, four calls; two files of four texts; a
  notification queue of two, read one at a time, with three files to edit.

Fairness. Modules not named here, `CloudStore` and `CloudSync` among them, state none.
`LiveSpec` assumes weak fairness of the watcher, of Steam's ownership and injection
steps and of the UI frame: the watcher is a thread of its own with nothing to block on
for ever, the client asks about ownership continuously, and draws frames. Edits, reloads
and an unusable package are not fair. `HooksSpec` assumes that packets keep arriving and
the receive thread runs (weak fairness of `Packet`, of the steps of a drain, and of
`HeldUp`), that every fetch ends (each goes through an HTTP client with timeouts, or
Lua), and that Valve answers each request, sooner or later among its other packets. The
last is strong fairness, because an answer can be the packet only when the thread is at
that point, and is not there all the time. `SettingsSpec` assumes that the watcher's
thread runs, `LifeSpec` that all four threads do, and neither that anybody writes or
exits. `BridgeSpec` assumes that time passes, that handlers return and that the injector
and each bridge run; not that a page renews its lease or stays. The requests that keep
the API's lock from a bridge are bounded in the model, so its turn comes; `std::mutex`
itself promises none. `UpdateSpec` assumes that helpers run, that the user comes back to
Steam, ends a game and closes Steam in the end, and, strongly, that the thread gets to
its stages: a user who always quits within its first seconds gets no update. Deadlock is
not checked where the system may stop: an edit, a click or a fault is never obligatory
and is bounded, so a behaviour ends when they are used up and every thread is at rest.

## Where the code and its texts disagree

Six disagreements have a run, listed above and under `findings`. The following were
found with the same modules. Each property named is defined in its module, and TLC
violates it with the instance given.

| Property | Instance | What happens |
|---|---|---|
| `CloudSync!OmissionMeansDeleted` | `MCFailedUpload.cfg` with `ForeignCn = 1` | the client has saves synced elsewhere under a number the store adopts; the store's full listing omits them |
| `CloudSync!LooseCommitIsItsOwnChange` | the same with `LooseCommits = TRUE` | after a batch that never completed, later commits outside of a batch share its number |
| `LiveLicense!HiddenMeansRemoved` | `MCLiveLicense.cfg` with `Bought = {}` | an app added again while `RunFrame` works on the ids it swapped out stays hidden |
| `LocalAnswers!SwallowedIsAnswered` | `MCNetHooks.cfg` | with 64 replies queued the reply is dropped (`Hooks_NetPacket.cpp:1170`) and the frame swallowed all the same, against the comment at line 1151 |
| `ManifestCodes!WaitIsBounded` | `MCNetHooks.cfg` | the destructor of a future from `std::async` waits for its thread: the receive thread is held past the 12 seconds |
| `RichPresence!EmptyStackClears` | `MCClientHost.cfg` | a game of ours is on the banner, one Valve knows is launched over it, and both quit before Valve's push about the second: nothing was followed any more when the stack went empty, so the early return at line 873 skips the clear the comment at line 886 describes |
| `RichPresence!KeysAreItsOwn` | `MCClientHost.cfg` | an upload by a game in the background is stored under the game on top (line 835), against the comment at line 702 |
| `WatcherLife!NeverAborted` | `MCClientHost.cfg` with `EarlyExit = TRUE` | an exit while `InitThread` is between setting `g_running` and assigning the thread: `Stop` finds nothing to join, and the object is destroyed joinable |
| `FixFiles!BackupIsShipped` | `MCClientUi.cfg` | a file only a fix brought is backed up by the next fix as if the game had shipped it |
| `UrlTail!EveryActivationCounts` | `MCClientUi.cfg` | a line read in two pieces, and the start of a rotated log, are passed over |
| `UrlTail!AdoptedOnceInOrder` | `MCClientUi.cfg` | lines appended between the log's length being taken (`LuaFlipperUI.cpp:1389`) and its being read to the end (1397) are read again two seconds later, since the length is what the next read starts from (1399): a key is adopted again, over a newer one or one set by hand, against the comment at line 1366; and of two lines of one read the `steamflipper://` one is applied last |
| `FixSession!SessionSurvivesReplies` | `MCClientUi.cfg` | the reply that carries the rotated refresh token is lost or cut (lines 1510-1517): the token saved is one the service refuses, and the user has to sign in again |
| `TomlEdit!EveryEditHolds` | `MCDeadToggle.cfg` | `[section]` in a comment is taken for the header (line 982), a value of several lines loses its first only (1016), and what is put in after a last line without a break, or in a file of `\r\n`, runs into another line (1010-1014): the file no longer parses, or the setting lands elsewhere, against the comment at line 968. A comment of `steamflipper.example.toml` (line 114) names `[lua]` before its header; no page writes to that section |
| `TomlEdit!SwitchIsTheClouds` | `MCDeadToggle.cfg` | `[cloud]` has no `enabled`: the next section's is turned on (line 2334) |
| `StoreBridge!LostScriptIsResent` | `MCClientUi.cfg` | the main window takes the connection and not the script: `InjectInto` (line 409) ignores what its calls return, the target is noted (3076) and not tried again |
| `AutoUpdate!FailedLeavesModule` | `MCRetriedBuild.cfg` with `MaxTrouble = 1` | the installer copies the module (`install_linux.sh:559`) and fails afterwards, as where no pattern is known for the Steam build (822): "The previous module is still installed" (`auto_update.sh:88`) is not so |
| `AutoUpdate!StartsSettle`, `AutoUpdate!EveryKeyArrives` | `MCRetriedBuild.cfg` with `Unread = {d1}`, under `UpdateSpec` | with `auto_sync` on, a key in another of the `lua_paths` or in a statement of several lines stays pending: the script does not find it and ends well (`sync_depot_keys.py:42`, 104, 117), so each start closes Steam once more |
| `PipeSession!EveryConfiguredIsTold` | `MCClientHost.cfg` | a configured game that the user owns is started with `-onlinefix`: its calls are not dispatched (`HasDepot` at `Hooks_IPC.cpp:78` leaves owned games out), so it is told 480 from the start, against `Hooks_IPC_ISteamUtils.cpp:28` ("Restore the real app_id") |
| `FixSession!SignedOutStaysOut` | `MCClientUi.cfg` | a call made before the configuration is loaded again exchanges the old token and saves the new one |

Read on the way, and reflected in the models or in what their properties excuse:

- *Registry and package*: a file dropped in during a reload, before the new watches
  open, is never seen; when package 0 cannot grow, the additions of a pass are lost and
  their depots stay unlisted, possibly hidden; both ways `FilesArePickedUp` is claimed
  only without them. The key of a removed file stays while another file gives a different
  one; a garbled line hides the rest of its file; tokens, CD keys, process names and a
  removed file's `fetch_manifest_code` are never taken away; fetch threads and the
  watcher use one `lua_State` without a common lock.
- *Watchers*: a watch that fails to open is never tried again; changes that never pause
  keep the debounce from ending; a notification queue that overflows is not noticed.
- *Start*: a login page answered with status 200 is written over a good cache, and the
  write is not atomic; an unreadable list of mirrors or digest is reported as "could not
  reach the spec mirrors".
- *Updater*: on Windows, after a crash between moving the old module aside and the end
  of the write nothing puts it back. On Linux the running game is looked for once; Steam
  taking longer than two minutes to close counts as a failed build, and so does any failure
  after the module was copied; with `auto_sync` on, a key that cannot be written, or that
  the script does not look for, closes Steam at every start; keys written under a Steam
  that was started while a helper wrote are lost at its exit.
- *Pipes and traps*: while an `-onlinefix` game runs, other processes' pipes are taken
  for it, and `g_OnlineFixRealAppId` outlives it; `exec` keeps number and start time, so
  the cached snapshot is stale; an empty name is cached. A second thread passes a trap
  unhooked while the first steps over it, and a first hit may be reported twice.
- *Packets*: every answer of `GetUserStats` is marked OK; an answer to job 819 is cleared
  by the app found when it arrives; a body is stripped before `ReplaceRecvPacket` may
  refuse it. A cloud reply over the size cap is not sent although the store has
  committed it (such calls are among `Unanswered`).
- *Pages*: Hubcap's answer 401 is taken to be the same at its two addresses, of which
  the probe asks one and the installation the other; reloading the same main-window
  target goes unnoticed; a target missing from one `/json/list` gets a second bridge;
  `JsonString` reads `\uXXXX` as letters; a workshop download whose answer is lost still
  says `ok`; the cloud switch writes the configuration in place; `JsonFixCatalog` and
  `JsonManifests` count differently though a comment says they split alike; the comment
  above `JsonCloudEnable` ("Append-only") describes an earlier version.

## Proofs

Each theorem holds for every value of the constants that meets the modules' `ASSUME`s,
the bounds among them included. Every safety property of the passing runs is one of them.
An invariant the runs check is seldom inductive; what had to be added to it is named here,
with the reason.

### Induction

The provers cannot instantiate an induction principle that takes an operator, so these
lemmas speak of sets and functions. A nonempty set of numbers has a smallest member, and a
largest if bounded (`SmallestExists`, `LargestExists`); a set that holds 0, and with each
number below `n` the next, holds all of them (`Upward`), and likewise from the top
(`Downward`). A claim about every number is then one about the set of numbers it holds of.
That a function defined by recursion over an interval exists, and so satisfies its own
definition, is `RunExists` for recursion on the number before and `TailExists` for
recursion on any later ones. `FlattenRuns` and `FlattenJoins` say where the elements of a
sequence of sequences are once they are joined.

### CloudSyncProofs

First the store alone:

- `TypeCorrect`: `TypeOK` is inductive as it stands.
- `AnswersAreDurable`: without disk failures `st.loaded` implies that the manifest holds
  what the memory says. The inductive invariant is `TypeOK /\ MemoryIsDurable`: `GetState`
  makes memory equal to the manifest and every handler that changes one saves the other.
- `VersionMonotone`: from that invariant each step moves `GetState.cn` up or not at all;
  a crash is harmless because memory and disk agree.
- `StoreImplementsCatalog`: every step maps to a step of `SaveCatalog` or a stutter.

Then the store with its client, by two invariants.

`FreeInv` needs no condition: `SyncTypeCorrect`, `CommitsFindTheirBytes`,
`BatchNumberStands`. It adds that the client's open batch is the store's and that its
number, `goal`, is the store's (`BatchInv`), without which nothing keeps the number still;
and that the upload in progress owns the last PUT queued and that none is left once its
bytes have arrived (`UploadInv`), which is why a PUT from an upload given up on cannot
land between the bytes and their commit.

`SyncInv` gives `UnchangedIsTrue` (`SyncedMeansStored`), `OmissionsWereAsked`
(`OmissionMeansDeleted`) and `SyncedStoreImplementsCatalog`, under `TrustedStore`: no
manifest write fails, the client has no history from another store and commits inside
batches only, and the inventory is finite and fits the reply. These are not weaknesses of
the proof: drop any one of the four, and TLC finds `SyncedMeansStored` violated. The
invariant adds that the client never runs ahead of the store (`PhaseInv`), and says for
every phase how what the client last saw relates to the store (`BaseInv`): equal when it
is at the store's number, equal but for the downloads to come while it applies an
inventory, and otherwise equal but for what it asked for and had no reply to. The last
case is what makes a lost reply harmless.

### LuaRegistryProofs, LiveLicenseProofs

`LuaRegistryProofs`, for any finite set of files: `RegistryTyped`, `CountsAreExact`,
`LatestPinAlwaysWins`, `QueuesAreComplete`, all from one inductive invariant. It
strengthens the four properties by a strict parse order (`OrderedIn`): two files never
share a sequence number, none is newer than the counter, and whatever pins has one. That
makes the file `RebuildManifestOverride` picks unique; exact counts make a decrement safe
and tell a depot's last provider from the others, which is what the queues count. `Unload`
and `Run` are operators, so the lemmas hold of any registry; `LiveLicenseProofs` cites
them for the watcher's. `TablesAreOfFiles` (`TablesFollowTheFiles`) is about the tables
beside the depots, for texts of any lines: `LuaInv` says that a depot has an entry exactly
while a file names it and was bought no earlier than the files that name it (`Sound`), that
a file's depots are those its text adds, and that a depot some loaded text gives a key has
one. The steps are folds over the lines of a text and over the statements they make up;
each is followed line by line as a run of states.

`LiveLicenseProofs`: `SteamFollows`, that at rest package 0 lists the registered depots
once each and no registered app is on its way to be hidden. Four invariants, each resting
on those before it:

- `WatcherInv`, in every `world`: the registry is consistent wherever the watcher is in
  its pass; a pass has one change per file, so a file it unloads is not loaded yet when
  its turn to run comes.
- `ShownInv`, unless the package's vector may fail to grow: a depot a file names again
  while its removal still waits for the UI is about to be added, and the addition cancels
  the removal. This is the order of `TakeRemovals` and `ApplyAdditions` put as a state
  predicate.
- `FeedInv`, unless something happens before the first injection: a depot is told of,
  queued for addition and queued for removal at most once (`ToldOnce`), and one queued for
  addition is named by no file the pass has still to unload (`NewIsBehind`). Without the
  second a pass could queue an addition and then take the depot away.
- `PackageInv`: the package lists a depot as often as its consumer was told, plus the
  removals it has still to look for. The steps over the vector itself (swap with the last
  and shrink, append) are lemmas about `PlacesIn`.

### NetHooksProofs

About `LocalAnswers`, `ManifestCodes`, their composition, and `PacketRewrite`'s
statistics.

- `AnswersTyped`, `OneAnswererAlways`, from `AInv`: whatever is queued, held or delivered
  was swallowed, and nothing swallowed was forwarded (`Apart`). Without it a forwarded job
  could sit in a queue.
- `RepliesKeepTheOrder` (`AnsweredOnceInOrder`): the replies given, then the one held,
  then those queued are, queue by queue, in the order in which they were swallowed, each
  once.
- `CodesTyped`, `FuturesAwaitAnswers`, `CodesInTimeAreUsed`. `CInv` adds that a held
  answer was asked for, managed and not yet given (`Held`), and that a managed request has
  a fetch from the moment it is asked (`Fetched`). `CodesAreUsed` follows because
  `FutureAwaitsAnswer` leaves `PassThrough` no managed job, and the destructor's phase is
  entered only at the limit.
- `StepIsBoth`: each step of the hooks is a step of `LocalAnswers` or leaves it alone, and
  the same of `ManifestCodes`. `HooksAreBoth` maps every behaviour of `HooksSteps` to one
  of each; `HooksAnswerOnce`, `HooksKeepFutures` and `HooksUseCodes` carry the features'
  theorems over.
- `OwnProgressStays`: a player's own statistics are never struck from an answer
  (`OnlyDonorsAreStruck`). `WireInv` ties what the module remembers to what was asked: a
  job is used by one query (`JobsAreSpent`) and remembered exactly for the player's
  queries that went out on a donor's account (`DonorsAreRemembered`).
- `FieldsAreFound`: in any sequence of fields that steamclient can encode, the hand-written
  reader finds the first number with the number sought, past strings whatever they hold,
  and in the body cut anywhere that value or none. A cut is harmless because a number that
  lacks its last byte has no end, and the end of a value that is cut lies beyond the body.
  `PacketsAreTheirApps` (`PacketsNameTheirApp`) applies it to the bodies of the run and
  adds `OnlyDonorsAreStruck`.

### FixFilesProofs

- `ShippedNeverLost`. A step that writes a shipped file is safe only because of what was
  done two steps before, so `FInv` says of each step of a job what the copy is by then:
  missing or whole, except while it is being made, when the file itself is still as
  shipped, and whole before the file is written (`CopiesServe`). Packs write none of a
  game's files, by `FilesAssumption`. A crash ends the job and falls under the same cases.
- `AnswersAreTrue`. What is left of a job's archive is its end (`LeftIsTheEnd`) and the
  entry under way is one to be written (`WritesWhatItShould`); so an entry is counted once,
  as it is left behind, and the last entry of a name is the one whose bytes are there.
- `WholeArchivesAreRead`, `CutArchivesAreRefused`, for any number of files, each of any
  cells, and any comment. `PackIsLaid` says where each cell of an archive is. A cut archive
  has lost its own end record or the end of the comment that record counts, so only a
  record stored inside a file can be found. That one points to a directory counted from
  the start of the archive it was stored in, where the outer one has something else.
  `Harmless` says so of a stored file: no directory in its first two cells, and a record
  in it is empty or says that its directory begins at 2, as that of an archive of one plain
  file does. Without such a condition the claim is false: a stored file may hold an end
  record that describes the outer archive as far as it was cut.
- `OrderKeepsAll`, for any configured list: by induction over the names the order is the
  first occurrences of the known ones (`IsOrderOf`). `KeysAreTheirBlocks`, for documents
  of any blocks: the brace before a key is its own block's, and the id before that.
- `ArchivesAndOrders` (`ArchivesHold`): the four and `ProbeAgreesWithInstall` of every case.

### ClientHostProofs

One section per component of the host:

- `TrapsAlwaysHold`, for any threads and functions. `TrapInv` says that a
  thread has the trap flag only on its way through a persistent site, that a one-shot site
  is armed until it has been hit, and that a persistent one is armed or a thread is on its
  way to arming it. The last is what a second thread's passing through meanwhile relies on.
- `BannerNeverLost`, `KeysNeverLost`, together `PresenceNeverLost`: the followed game is
  the one on top if that is ours (`FollowsTop`). `Stage` establishes both for the new
  game, a patched push re-establishes them, an injection moves what was coming to the
  banner.
- `StartsAreWhole`, for any builds, mirrors and required functions. `StartInv` adds that
  a cached file with functions in it is one for its build (`FilesInv`), where the file of
  a component that ought to be loaded is by now: in the cache, fetched, or in use
  (`OwedInv`), and what the user has been told so far (`ToldInv`).
- `SwapsLeaveAModule`: for each place in the swap, under which name the whole module is.
- `KeysAreKept` (`KeysStayWritten`), for any depots and releases. Two helpers and the user
  may start and close Steam in any order, so `UInv` says of the Steam that is up: unless it
  came up under a helper that was writing, nobody writes while it runs, and what it has in
  memory is what is on disk (`KeysInv`). Steam is closed before a helper begins to write,
  and what it writes back then changes nothing.
- `KeysAreLookedAt`, `OnlyTheButtonCloses`: the conjuncts of `UpdatesSettle` that are not
  liveness, so the run states them with it.
- `GamesAreToldApart` (`PipesAreKnown`), for any process ids and their reuse. `PipeInv`
  says that a live process was born under a number given out already (`ProcsInv`), so that
  a key of pid and birth is one process' for good; that what is cached or in hand under a
  key is true of that process while it lives (`CacheInv`, `HandInv`); and that a library
  was tried once under the keys that wanted it and under no other (`InjectInv`). That a game
  is told its id is stated of the configured ones that are not owned.
- `ThreadsStaySafe`: `LInv` says, for each phase of the start (`Starting`), of a restart
  (`Restarting`) and of the exit (`Exiting`), which flags are set and which thread objects
  are joinable; a restart empties the Lua watcher's object before it assigns it, and the
  exit joins the config watcher, the only one that restarts, first.

### ClientUiProofs

One section per component of the pages' server:

- `AnswersStandOnTheShelf`: while a removal is under way its app still has the manifest to
  be removed (`ShelfInv`), so losing the earlier `.removed` breaks no promise.
- `SessionsAreKept`: a verifier not used yet is the last link's, and each one presented
  was a link's; and while a refresh that brings no new token is under way, the saved token
  is still the service's (`SessionInv`).
- `PagesAreToldTheTruth`: `CallsInv` adds types only, the verdict about no key being none.
- `KeysAreAdoptedOnce` (`EachActivationOnce`): what has not been read yet is newer than
  anything adopted or about to be, or known to be read again, which `again` tells by the
  line and the number of the read; and of a chunk the keys under one mark are those of its
  lines in their order (`TailInv`). That order survives cutting the unread lines into
  chunks by the lemma that ranks in a finite set of numbers rise (`RanksRise`). Each of the
  two exceptions is needed: TLC violates `AdoptedOnceInOrder`, which has none.
- `OneWriterKeepsSettings`: with the API as the only writer, `SettingsKept`. With a second
  writer it is false, which the run that expects a violation shows. `PenInv` says what the
  writer holds in each phase: the last settings asked for with its own edit, first in
  memory, then in the inode under the temporary name, or about to be in the emptied file.
- `FramesStayWhole`: every header in what is unread and under way is followed by its whole
  frame (`FramesInv`), wherever the stream is cut. The frames are compared by their cells.
  `LengthComesBack` is about the header itself: every length of up to 32 bits, in each of
  the three forms. `FramesArriveWhole` (`FramesArrive`) is both.
- `EditsStay` (`EditsStayInPlace`), for files of any lines over any sections and keys. For
  a setting that is `Editable` the line `SetKey` replaces is the first of its key in its
  section, the one a load reads; where it puts a line in, no line of that section has the
  key; and a file whose values are whole stays one, which is where a value of several lines
  needs the condition. The cloud switch leaves a file that parses, in which nothing or one
  setting went from off to on; where the flag's own line is the first hit, the cloud's.
- `TextCrosses` (`TextComesBack`), for texts of any length: each character's escape is read
  back by itself, whatever follows it, so the text is, by induction from its end; the same
  of a coded parameter. In a region that is passed on whole every bracket has its partner
  in it, since the depth is zero at its end and not before.

### Assumptions

The modules' named `ASSUME`s, which TLC evaluates on the instances: sentinels are
distinct from values, sets that must be disjoint are, files and ids are finitely many,
archives are sequences, fixes name files of a game and packs do not, the first release
builds (it is the module in use), texts are sequences of lines, the mark of an unset value
is no section, and some function is required. Some theorems have
conditions of their own: `~DiskFails` for `AnswersAreDurable`, `VersionMonotone` and
`StoreImplementsCatalog`; `TrustedStore` for the three of `CloudSync` named above;
`OneWriter` for `OneWriterKeepsSettings`; `~EarlyExit` for `ThreadsStaySafe`, which is
false without it; stored files that are `Harmless` for `CutArchivesAreRefused`, which is
false of arbitrary ones.

### Only model-checked

Liveness: `FilesArePickedUp`, `RepliesGetThrough`, `SettingsReachConfig`,
`StoreGoesBackToNormal`, `ViewsAreServed`, `WatchersFinish`, and the liveness parts of
`UpdatesSettle`, whose two safety conjuncts are `KeysAreLookedAt` and
`OnlyTheButtonCloses`. Fairness is `ENABLED`, which is out of the prover's reach.

## Plan

1. *Done*: `CloudStore`, `CloudSync`, `LuaRegistry`, `LiveLicense`; the packet hooks and
   rich presence.
2. *Done*: the pages' server and its files, the updaters, the start, pipes, traps, the
   watchers' life.
3. *Done*: the safety properties of the passing runs as theorems.
4. `WatcherLife` with an early exit, for what still holds of it; `SyncedMeansStored` with
   loose commits, for the files outside them.
5. The store's endpoint life cycle, with a failing `accept`; two threads in
   `NotifyLicenseChanged`; `EnsureRoom` and `MergeWatchDirs` as algorithms.

## Not modelled

- The contents of tickets, their forging and the scan of an executable for protection
  with the answers that follow: data to every component modelled; which call waits for
  which ticket is in `PipeSession`.
- Loaders and the platform layer: wrappers of operating-system calls whose contracts the
  models use (atomic rename, inotify, accept in order). The join under Windows' loader
  lock is not modelled.
- Code patching and signature search, which depend on machine code; the patterns and the
  IPC descriptions are data.
- Steam's types, the protocol and the generated code: declarations. The generators
  (`ipc_codegen`, `gen_linux_patterns.py`) and installers are run by hand.
- The pages themselves (`src/plugin`, `LuaFlipperPages.cpp`): rendering; what they ask of
  the module is the environment of `StoreBridge` and `ClientCalls`. The catalogue and
  artwork proxies only pass on what a service answers.
- Redeem codes and the legacy redirect library, which do nothing on Linux; logging.
