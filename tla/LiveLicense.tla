---------------------------- MODULE LiveLicense ----------------------------
(***************************************************************************)
(* How a depot named in a .lua file becomes an entry of Steam's package 0  *)
(* and of the library while Steam runs, and how it leaves again.           *)
(*                                                                         *)
(* Three threads meet here without a lock around LuaConfig or the package: *)
(*   - the watcher (LuaFileWatcher.cpp, ConfigFileWatcher.cpp), which      *)
(*     reads files and calls Hooks_Package::NotifyLicenseChanged;          *)
(*   - Steam's own, which asks about ownership (CheckAppOwnership) and     *)
(*     injects the first list of depots on the way;                        *)
(*   - the UI's, which hides removed apps (CSteamUIAppControllerRunFrame). *)
(* A step reads and writes shared state at one point; what a thread        *)
(* carries from one step to the next has a variable.                       *)
(*                                                                         *)
(* Package 0's own entries are left out: positions count from where they   *)
(* end.  CUtlVector keeps a stale element beyond m_Size, so the memory and *)
(* the size are kept apart.                                                *)
(***************************************************************************)
EXTENDS LuaRegistry, SequencesExt

CONSTANTS
  MaxEdits,       \* bound: changes of files in a behaviour, one less for each
                  \* other thing it may hold
  Worlds,         \* what a behaviour may hold besides edits of files once
                  \* the first injection is done: some of one "reload" after a
                  \* change of lua_paths, a "full" heap, on which CUtlMemoryGrow
                  \* fails, and either of the former "early", before it
  RefreshPinned,  \* are MarkLicenseAsChanged and its partner resolved?
  Bought,         \* ids the account really owns, in one package of their own
  Installed       \* ids RunFrame never hides: installed, or no app of Steam's

ASSUME LiveBoundsOK ==
  /\ IsFiniteSet(Ids)   \* an AppId_t has 32 bits
  /\ MaxEdits \in Nat
  /\ Worlds \subseteq SUBSET {"early", "reload", "full"}
  /\ RefreshPinned \in BOOLEAN
  /\ Bought \subseteq Ids /\ Installed \subseteq Ids

VARIABLES
  disk,      \* the files, by path; Gone where there is none
  edits,     \* changes made so far
  world,     \* the member of Worlds this behaviour is in
  reloads,   \* reloads made so far
  watching,  \* are the inotify watches open?
  seen,      \* changes reported and not yet collected, merged per file
  wpc,       \* the watcher thread's place
  batch,     \* its files still to process
  notify,    \* does the pass it is on end in NotifyLicenseChanged?
  gone,      \* NotifyLicenseChanged's removals
  todo,      \* those not yet looked for in the package
  added,     \* its addedIds
  changed,   \* has it changed the package?
  resolved,  \* g_pInjectedPackageInfo is set
  licensed,  \* g_licenseInitialized
  spc,       \* Steam's thread: idle, inject
  first,     \* InitFakeLicenseOnce's appIds
  at,        \* its oldSize
  mem, size, \* package 0's AppIdVec
  owned,     \* OwnedAppIdSet
  queue,     \* Hooks_SteamUI's g_pendingRemovals
  drain,     \* RunFrame's draining
  dropped    \* g_removedAppIds

watcher == <<seen, wpc, batch, notify, gone, todo, added, changed>>
files   == <<disk, edits, world, reloads, watching>>
steam   == <<resolved, licensed, spc, first, at, owned>>
package == <<mem, size>>
ui      == <<queue, drain, dropped>>
liveVars == <<reg, told, watcher, files, steam, package, ui>>

Change(f, act) == [file |-> f, act |-> act]

(* The order in which a pass reads files is the directory's.               *)
Passes(S) == SetToSeqs({Change(f, "write") : f \in S})

OnDisk == UNION {disk[f].ids : f \in {g \in Files : disk[g] # Gone}}

LiveInit ==
  /\ disk \in [Files -> Scripts \cup {Gone}]
  /\ edits = 0 /\ world \in Worlds /\ reloads = 0 /\ watching = FALSE
  /\ reg = EmptyRegistry /\ told = Zero
  /\ seen = <<>> /\ wpc = "boot" /\ batch = <<>> /\ notify = FALSE
  /\ gone = Zero /\ todo = Zero /\ added = {} /\ changed = FALSE
  /\ resolved = FALSE /\ licensed = FALSE /\ spc = "idle"
  /\ first = <<>> /\ at = 0 /\ owned = {}
  /\ mem = <<>> /\ size = 0
  /\ queue = {} /\ drain = {} /\ dropped = {}

----------------------------------------------------------------------------
(* Mutant of Merge: the first action stands.                               *)
MergeKeepsFirst(changes, f, act) ==
  IF \E k \in DOMAIN changes : changes[k].file = f THEN changes
  ELSE Append(changes, Change(f, act))

(* The user writes, replaces or removes a .lua file.  MergeChanges keeps   *)
(* one change per file, at its first place and with its last action.       *)
Merge(changes, f, act) ==
  IF \E k \in DOMAIN changes : changes[k].file = f
  THEN [k \in DOMAIN changes |->
          IF changes[k].file = f THEN Change(f, act) ELSE changes[k]]
  ELSE Append(changes, Change(f, act))

EditFile(f, content) ==
  /\ edits + Cardinality(world) < MaxEdits
  /\ "early" \in world \/ (licensed /\ (watching \/ reloads > 0))
  /\ disk[f] # content
  /\ disk' = [disk EXCEPT ![f] = content]
  /\ edits' = edits + 1
  /\ seen' = IF watching
             THEN Merge(seen, f, IF content = Gone THEN "remove" ELSE "write")
             ELSE seen
  /\ UNCHANGED <<reg, told, world, reloads, watching, wpc, batch, notify, gone, todo, added,
                 changed, steam, package, ui>>

----------------------------------------------------------------------------
(* The watcher's passes over files.                                        *)

(* InitThread: ParseDirectory for every directory.                         *)
Boot ==
  /\ wpc = "boot"
  /\ batch' \in Passes({f \in Files : disk[f] # Gone})
  /\ wpc' = "files" /\ notify' = FALSE
  /\ UNCHANGED <<reg, told, files, seen, gone, todo, added, changed, steam, package, ui>>

(* WatcherThread: a change, then kDebounceMs without another.              *)
Collect ==
  /\ wpc = "wait" /\ seen # <<>>
  /\ batch' = seen /\ seen' = <<>>
  /\ wpc' = "files" /\ notify' = TRUE
  /\ UNCHANGED <<reg, told, files, gone, todo, added, changed, steam, package, ui>>

(* RestartLuaWatcher: the watcher stops, and with it what inotify had      *)
(* queued; then ReloadDirectories lists the files, unloads the ones that   *)
(* are gone and parses the rest.                                           *)
Reload ==
  /\ wpc = "wait" /\ "reload" \in world /\ reloads = 0
  /\ "early" \in world \/ licensed
  /\ reloads' = reloads + 1
  /\ watching' = FALSE /\ seen' = <<>>
  /\ \E p \in Passes({f \in Files : disk[f] # Gone}),
        q \in Passes({f \in Files : disk[f] = Gone}) :
       batch' = [k \in DOMAIN q |-> Change(q[k].file, "remove")] \o p
  /\ wpc' = "files" /\ notify' = TRUE
  /\ UNCHANGED <<disk, edits, world, reg, told, gone, todo, added, changed, steam, package, ui>>

(* One change: UnloadFile, which is also how ParseFile begins.             *)
UnloadNext ==
  /\ wpc = "files" /\ batch # <<>>
  /\ reg' = Unload(reg, Head(batch).file)
  /\ IF Head(batch).act = "remove"
       THEN batch' = Tail(batch) /\ UNCHANGED wpc
       ELSE wpc' = "parse" /\ UNCHANGED batch
  /\ UNCHANGED <<told, files, seen, notify, gone, todo, added, changed, steam, package, ui>>

(* The rest of ParseFile, on what the file holds by then.                  *)
RunNext ==
  LET f == Head(batch).file
  IN  /\ wpc = "parse"
      /\ reg' = IF disk[f] = Gone THEN reg ELSE Run(reg, f, disk[f])
      /\ batch' = Tail(batch) /\ wpc' = "files"
      /\ UNCHANGED <<told, files, seen, notify, gone, todo, added, changed, steam,
                     package, ui>>

(* The pass is done.  At startup the additions are discarded and there is  *)
(* no package to notify; after a reload the watches have to be opened.     *)
EndPass ==
  /\ wpc = "files" /\ batch = <<>>
  /\ wpc' = IF ~watching THEN "open" ELSE "take"
  /\ IF notify THEN UNCHANGED <<reg, told>>
     ELSE /\ reg' = [reg EXCEPT !.additions = Zero]
          /\ told' = [i \in Ids |-> told[i] + reg.additions[i]]
  /\ UNCHANGED <<files, seen, batch, notify, gone, todo, added, changed, steam,
                 package, ui>>

OpenWatches ==
  /\ wpc = "open"
  /\ watching' = TRUE
  /\ wpc' = IF notify THEN "take" ELSE "wait"
  /\ UNCHANGED <<reg, told, disk, edits, world, world, reloads, seen, batch, notify, gone, todo,
                 added, changed, steam, package, ui>>

----------------------------------------------------------------------------
(* NotifyLicenseChanged.                                                   *)

(* Mutant of NotifyTooEarly: the queues are taken before the check.        *)
NotifyTakesFirst ==
  /\ wpc = "take" /\ ~resolved
  /\ wpc' = "wait"
  /\ reg' = Taken(reg)
  /\ UNCHANGED <<told, files, seen, batch, notify, gone, todo, added,
                 changed, steam, package, ui>>

(* No package to change yet: return, and leave the queues as they are.     *)
NotifyTooEarly ==
  /\ wpc = "take" /\ ~resolved
  /\ wpc' = "wait"
  /\ UNCHANGED <<reg, told, files, seen, batch, notify, gone, todo, added,
                 changed, steam, package, ui>>

TakeRemovals ==
  /\ wpc = "take" /\ resolved
  /\ gone' = reg.removals /\ todo' = reg.removals
  /\ reg' = [reg EXCEPT !.removals = Zero]
  /\ told' = [i \in Ids |-> told[i] - reg.removals[i]]
  /\ added' = {} /\ changed' = FALSE
  /\ wpc' = "remove"
  /\ UNCHANGED <<files, seen, batch, notify, steam, package, ui>>

Places(i) == {k \in 1..size : mem[k] = i}

(* FindAndFastRemove: the first match is overwritten by the last element.  *)
RemoveNext(i) ==
  /\ wpc = "remove" /\ todo[i] > 0
  /\ todo' = [todo EXCEPT ![i] = todo[i] - 1]
  /\ IF Places(i) = {} THEN UNCHANGED <<mem, size, changed>>
     ELSE LET k == CHOOSE k \in Places(i) : \A j \in Places(i) : k <= j
          IN  /\ mem' = [mem EXCEPT ![k] = mem[size]]
              /\ size' = size - 1
              /\ changed' = TRUE
  /\ UNCHANGED <<reg, told, files, seen, wpc, batch, notify, gone, added, steam, ui>>

RemovalsDone ==
  /\ wpc = "remove" /\ todo = Zero
  /\ wpc' = "add"
  /\ UNCHANGED <<reg, told, files, seen, batch, notify, gone, todo, added,
                 changed, steam, package, ui>>

(* The vector's contents once `ids` have been written at `from` and m_Size *)
(* set past them.                                                          *)
WriteAt(from, ids) ==
  /\ mem' = [k \in 1..(IF from + Len(ids) > Len(mem) THEN from + Len(ids) ELSE Len(mem)) |->
               IF k \in from + 1..from + Len(ids) THEN ids[k - from] ELSE mem[k]]
  /\ size' = from + Len(ids)

(* The additions, as the vector TakePendingAdditions returns.              *)
Vector(bag) == SetToSeq(UNION {{i} \X (1..bag[i]) : i \in Ids})

TakeAdditions ==
  /\ wpc = "add"
  /\ wpc' = "mark"
  /\ reg' = [reg EXCEPT !.additions = Zero]
  /\ told' = [i \in Ids |-> told[i] + reg.additions[i]]

Added == {i \in Ids : reg.additions[i] > 0}

(* An applied addition cancels the UI removal of the same id.              *)
ApplyAdditions ==
  LET ids == Vector(reg.additions)
  IN  /\ TakeAdditions
      /\ WriteAt(size, [k \in DOMAIN ids |-> ids[k][1]])
      /\ added' = Added
      /\ changed' = (changed \/ Added # {})
      /\ queue' = queue \ Added
      /\ dropped' = dropped \ Added
      /\ UNCHANGED <<drain, files, seen, batch, notify, gone, todo, steam>>

(* EnsureRoom fails: the additions have been taken, and are lost.          *)
LoseAdditions ==
  /\ "full" \in world
  /\ Added # {}
  /\ TakeAdditions
  /\ UNCHANGED <<files, seen, batch, notify, gone, todo, added, changed, steam,
                 package, ui>>

(* Mutant of QueueRemovals: ids that were added again are queued too.      *)
QueueEveryRemoval ==
  /\ wpc = "mark"
  /\ wpc' = "wait"
  /\ queue' = IF changed /\ RefreshPinned
              THEN queue \cup {i \in Ids : gone[i] > 0} ELSE queue
  /\ UNCHANGED <<drain, dropped, reg, told, files, seen, batch, notify, gone, todo,
                 added, changed, steam, package>>

(* Mark package 0 as changed; when that worked, hand the removals that     *)
(* were not added again to the UI thread.                                  *)
QueueRemovals ==
  /\ wpc = "mark"
  /\ wpc' = "wait"
  /\ queue' = IF changed /\ RefreshPinned
              THEN queue \cup {i \in Ids : gone[i] > 0 /\ i \notin added}
              ELSE queue
  /\ UNCHANGED <<drain, dropped, reg, told, files, seen, batch, notify, gone, todo,
                 added, changed, steam, package>>

----------------------------------------------------------------------------
(* Steam's thread, inside CheckAppOwnership, which is hooked once the      *)
(* startup pass is over.                                                   *)
Hooked == notify \/ wpc \in {"open", "wait"}

(* TryInitFakeLicenseOnce finds package 0 but cannot use it yet: it is not *)
(* Available, or would not grow.  The pointer is kept all the same.        *)
PackageUnusable ==
  /\ Hooked /\ spc = "idle" /\ ~licensed /\ ~resolved
  /\ resolved' = TRUE
  /\ UNCHANGED <<reg, told, files, watcher, licensed, spc, first, at, owned,
                 package, ui>>

(* InitFakeLicenseOnce reads the depots and the size, and makes room ...   *)
StartInjection ==
  /\ Hooked /\ spc = "idle" /\ ~licensed
  /\ resolved' = TRUE
  /\ first' \in SetToSeqs(reg.keys) /\ at' = size
  /\ spc' = "inject"
  /\ UNCHANGED <<reg, told, files, watcher, licensed, owned, package, ui>>

(* ... then writes what it read where it read, if there is anything.       *)
Inject ==
  /\ spc = "inject"
  /\ IF first = <<>> THEN UNCHANGED package ELSE WriteAt(at, first)
  /\ licensed' = TRUE /\ spc' = "idle" /\ first' = <<>> /\ at' = 0
  /\ UNCHANGED <<reg, told, files, watcher, resolved, owned, ui>>

(* Steam finds the app in a second package: it is really owned.            *)
MarkOwned(i) ==
  /\ Hooked /\ licensed
  /\ i \in reg.keys /\ i \in Bought /\ Places(i) # {}
  /\ owned' = owned \cup {i}
  /\ UNCHANGED <<reg, told, files, watcher, resolved, licensed, spc, first, at,
                 package, ui>>

----------------------------------------------------------------------------
(* The UI thread: RunFrame takes the queue under its lock and works        *)
(* through it without; the set of hidden apps is locked again for each.    *)
RunFrame ==
  /\ drain = {} /\ queue # {}
  /\ drain' = queue /\ queue' = {}
  /\ UNCHANGED <<dropped, reg, told, files, watcher, steam, package>>

HideApp(i) ==
  /\ i \in drain
  /\ drain' = drain \ {i}
  /\ dropped' = IF i \in owned \cup Installed THEN dropped ELSE dropped \cup {i}
  /\ UNCHANGED <<queue, reg, told, files, watcher, steam, package>>

----------------------------------------------------------------------------
WatcherNext ==
  \/ Boot
  \/ Collect
  \/ UnloadNext
  \/ RunNext
  \/ EndPass
  \/ OpenWatches
  \/ NotifyTooEarly
  \/ TakeRemovals
  \/ \E i \in Ids : RemoveNext(i)
  \/ RemovalsDone
  \/ ApplyAdditions
  \/ LoseAdditions
  \/ QueueRemovals

SteamNext ==
  \/ StartInjection
  \/ Inject

UINext ==
  \/ RunFrame
  \/ \E i \in Ids : HideApp(i)

LiveNext ==
  \/ \E f \in Files, content \in Scripts \cup {Gone} : EditFile(f, content)
  \/ Reload
  \/ WatcherNext
  \/ SteamNext
  \/ PackageUnusable
  \/ \E i \in Ids : MarkOwned(i)
  \/ UINext

(* The watcher is a thread of its own and never blocks for good; Steam     *)
(* keeps asking about ownership, and draws frames.  Nobody has to edit a   *)
(* file, and package 0 may be unusable for any time but not for ever.      *)
LiveSpec ==
  /\ LiveInit /\ [][LiveNext]_liveVars
  /\ WF_liveVars(WatcherNext)
  /\ WF_liveVars(SteamNext)
  /\ WF_liveVars(UINext)

----------------------------------------------------------------------------
(* Properties.                                                             *)

(* Every thread's variables have their types.                              *)
LiveTypeOK ==
  /\ RegistryTypeOK
  /\ disk \in [Files -> Scripts \cup {Gone}]
  /\ watching \in BOOLEAN /\ notify \in BOOLEAN /\ changed \in BOOLEAN
  /\ wpc \in {"boot", "files", "parse", "open", "wait", "take", "remove", "add", "mark"}
  /\ gone \in Counts /\ todo \in Counts /\ added \subseteq Ids
  /\ resolved \in BOOLEAN /\ licensed \in BOOLEAN /\ spc \in {"idle", "inject"}
  /\ first \in Seq(Ids) /\ mem \in Seq(Ids) /\ size \in 0..Len(mem)
  /\ owned \subseteq Ids /\ queue \subseteq Ids /\ drain \subseteq Ids
  /\ dropped \subseteq Ids

(* Between passes package 0 lists every registered depot once and nothing  *)
(* else: "Remove depots that were unloaded", "Add depots that are newly    *)
(* loaded", whatever order files were written, shared, reloaded and        *)
(* removed in.  When the vector could not grow a depot may be missing, but *)
(* none is listed twice or after its file is gone.                         *)
PackageIsTheRegistry ==
  wpc = "wait" /\ licensed /\ "early" \notin world =>
    \A i \in Ids :
      Cardinality(Places(i)) \in (IF i \in reg.keys THEN {1} ELSE {0})
                                \cup (IF "full" \in world THEN {0} ELSE {})

(* "Remove depots that were unloaded": once a pass is over, a depot that   *)
(* no file names any more is not in package 0, also when files changed     *)
(* before Steam first asked about ownership.                               *)
UnloadedMeansUnlisted ==
  wpc = "wait" /\ spc = "idle" => \A k \in 1..size : mem[k] \in reg.keys

(* "ParseFile unloads the old file before parsing the replacement.  Do not *)
(* queue that transient removal": between passes, no depot a file names    *)
(* waits to be hidden, unless its addition was lost.                       *)
QueuedMeansRemoved ==
  wpc = "wait" /\ "full" \notin world => queue \cap reg.keys = {}

(* "An applied addition invalidates any UI removal that has not reached    *)
(* the UI thread yet": once all three threads are at rest, no depot a file *)
(* names is hidden.                                                        *)
HiddenMeansRemoved ==
  wpc = "wait" /\ drain = {} => dropped \cap reg.keys = {}

(* "Drop a .lua in while Steam is running and it gets picked up": when the *)
(* files stop changing, package 0 ends up listing what they name, once.    *)
FilesArePickedUp ==
  world = {} => <>[](\A i \in Ids : Cardinality(Places(i)) = IF i \in OnDisk THEN 1 ELSE 0)

(* The package and the library both follow the files.                      *)
SteamFollowsTheFiles == PackageIsTheRegistry /\ QueuedMeansRemoved
=============================================================================
