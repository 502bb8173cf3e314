---------------------------- MODULE LuaRegistry ----------------------------
(***************************************************************************)
(* What LuaConfig knows from the watched .lua files, and how parsing and   *)
(* unloading one file changes it: src/src/Utils/Config/LuaConfig.cpp.      *)
(*                                                                         *)
(* Several files may name the same depot, so depots are counted per file,  *)
(* and several may pin the same depot's manifest, where the file parsed    *)
(* last wins.  Depots that appear or disappear are queued for              *)
(* Hooks_Package::NotifyLicenseChanged, which takes the two queues.        *)
(*                                                                         *)
(* A file is abstracted to what running it registers: the depots it adds   *)
(* and the manifests it pins.  A syntax error, a run-time error or a       *)
(* half-written file just registers less.  Keys, tokens and purchase times *)
(* follow the depots and are left out.                                     *)
(*                                                                         *)
(* LuaConfig has no lock of its own: Unload and Run are operators on the   *)
(* registry so that LiveLicense can put other threads' reads between them. *)
(***************************************************************************)
EXTENDS Integers, FiniteSets

CONSTANTS
  Files,      \* paths of .lua files
  Ids,        \* depot and app ids
  Gids,       \* manifest gids a depot can be pinned to
  NoPin,      \* a depot that is not pinned
  Gone,       \* a file that does not exist
  Scripts,    \* what files may register, see ScriptsOK
  MaxPending, \* bound: queued additions per depot
  MaxParses   \* bound: files parsed in a behaviour of the registry alone

Pins == [Ids -> Gids \cup {NoPin}]

ASSUME ScriptsOK ==
  /\ IsFiniteSet(Files)
  /\ Scripts \subseteq [ids : SUBSET Ids, pins : Pins]
  /\ Gone \notin Scripts
  /\ NoPin \notin Gids
  /\ MaxPending \in Nat /\ MaxParses \in Nat

VARIABLES
  reg,   \* LuaConfig's tables
  told   \* history: net additions NotifyLicenseChanged was told, per depot

registryVars == <<reg, told>>

NoPins == [i \in Ids |-> NoPin]
Zero   == [i \in Ids |-> 0]

(* The tables of LuaConfig before the first file.                          *)
EmptyRegistry ==
  [depots    |-> [f \in Files |-> {}],      \* g_fileDepots
   refs      |-> Zero,                      \* g_depotRefCount
   keys      |-> {},                        \* the ids in DepotKeySet
   filePins  |-> [f \in Files |-> NoPins],  \* g_fileManifestOverrides
   seq       |-> [f \in Files |-> 0],       \* g_fileParseSequence; 0: no entry
   parses    |-> 0,                         \* g_nextFileParseSequence
   pins      |-> NoPins,                    \* ManifestOverrides
   removals  |-> Zero,                      \* g_pendingRemovals, as a bag
   additions |-> Zero]                      \* g_pendingAdditions, as a bag

RegistryInit ==
  /\ reg = EmptyRegistry
  /\ told = Zero

(* Mutant of Winner: the file parsed first wins.                           *)
FirstWinner(filePins, seq, i) ==
  LET pinning == {f \in Files : filePins[f][i] # NoPin /\ seq[f] # 0}
      first   == CHOOSE f \in pinning : \A g \in pinning : seq[f] <= seq[g]
  IN  IF pinning = {} THEN NoPin ELSE filePins[first][i]

(* RebuildManifestOverride: of the files that pin a depot, the one parsed  *)
(* last.                                                                   *)
Winner(filePins, seq, i) ==
  LET pinning == {f \in Files : filePins[f][i] # NoPin /\ seq[f] # 0}
      last    == CHOOSE f \in pinning : \A g \in pinning : seq[g] <= seq[f]
  IN  IF pinning = {} THEN NoPin ELSE filePins[last][i]

----------------------------------------------------------------------------
(* Mutants of LastProvided, NewlyProvided and Erased, in this order: the   *)
(* count is not looked at; it is not looked at; the entry stays.           *)
EveryProvided(r, f)  == r.depots[f]
EveryNamed(r, ids)   == ids
NotErased(depots, f) == depots

(* The depots whose count drops to zero when f goes, and those whose count *)
(* becomes one when a file with these ids comes.                           *)
LastProvided(r, f)    == {i \in r.depots[f] : r.refs[i] = 1}
NewlyProvided(r, ids) == {i \in ids : r.refs[i] = 0}

Erased(depots, f) == [depots EXCEPT ![f] = {}]

(* UnloadFile: depots no other file names go, and are queued as removals;  *)
(* what the file pinned falls back to the next file.  Of a file that       *)
(* registered nothing the sequence number stays.                           *)
Unload(r, f) ==
  LET ids    == r.depots[f]
      last   == LastProvided(r, f)
      files  == [r.filePins EXCEPT ![f] = NoPins]
      pinned == {i \in Ids : r.filePins[f][i] # NoPin}
  IN  IF ids = {} /\ pinned = {} THEN r
      ELSE [depots    |-> Erased(r.depots, f),
            refs      |-> [i \in Ids |-> IF i \in ids THEN r.refs[i] - 1 ELSE r.refs[i]],
            keys      |-> r.keys \ last,
            filePins  |-> files,
            seq       |-> [r.seq EXCEPT ![f] = 0],
            parses    |-> r.parses,
            pins      |-> [i \in Ids |-> IF i \in pinned THEN Winner(files, r.seq, i)
                                        ELSE r.pins[i]],
            removals  |-> [i \in Ids |-> IF i \in last THEN r.removals[i] + 1
                                        ELSE r.removals[i]],
            additions |-> r.additions]

(* The rest of ParseFile, once the file is open: it becomes the latest,    *)
(* and each addappid and setManifestid in it is applied.                   *)
Run(r, f, script) ==
  LET new   == NewlyProvided(r, script.ids)
      files == [r.filePins EXCEPT ![f] = script.pins]
      seq   == [r.seq EXCEPT ![f] = r.parses + 1]
  IN  [depots    |-> [r.depots EXCEPT ![f] = script.ids],
       refs      |-> [i \in Ids |-> IF i \in script.ids THEN r.refs[i] + 1 ELSE r.refs[i]],
       keys      |-> r.keys \cup script.ids,
       filePins  |-> files,
       seq       |-> seq,
       parses    |-> r.parses + 1,
       pins      |-> [i \in Ids |-> IF script.pins[i] # NoPin THEN Winner(files, seq, i)
                                   ELSE r.pins[i]],
       removals  |-> r.removals,
       additions |-> [i \in Ids |-> IF i \in new THEN r.additions[i] + 1
                                   ELSE r.additions[i]]]

(* Mutant of Parse: the old entries are not unloaded first.                *)
ParseOver(r, f, content) ==
  IF content = Gone THEN Unload(r, f) ELSE Run(r, f, content)

(* ParseFile: the old entries go first, and stay gone if the file cannot   *)
(* be opened.                                                              *)
Parse(r, f, content) ==
  IF content = Gone THEN Unload(r, f) ELSE Run(Unload(r, f), f, content)

----------------------------------------------------------------------------
(* The registry alone: any file may be parsed, with any content, or        *)
(* unloaded at any time.                                                   *)
ParseFile(f, content) ==
  /\ reg.parses < MaxParses
  /\ \A i \in Ids : reg.additions[i] < MaxPending
  /\ reg' = Parse(reg, f, content)
  /\ UNCHANGED told

UnloadFile(f) ==
  /\ reg' = Unload(reg, f)
  /\ UNCHANGED told

(* TakePendingRemovals and TakePendingAdditions: the one caller of either  *)
(* calls both, with no parse in between.                                   *)
Taken(r) == [r EXCEPT !.removals = Zero, !.additions = Zero]

TakePending ==
  /\ reg' = Taken(reg)
  /\ told' = [i \in Ids |-> told[i] + reg.additions[i] - reg.removals[i]]

RegistryNext ==
  \/ \E f \in Files :
       \/ \E content \in Scripts \cup {Gone} : ParseFile(f, content)
       \/ UnloadFile(f)
  \/ TakePending

RegistrySpec == RegistryInit /\ [][RegistryNext]_registryVars

----------------------------------------------------------------------------
(* Properties.                                                             *)

Counts == [Ids -> Nat]

Registries ==
  [depots : [Files -> SUBSET Ids], refs : Counts, keys : SUBSET Ids,
   filePins : [Files -> Pins], seq : [Files -> Nat], parses : Nat, pins : Pins,
   removals : Counts, additions : Counts]

(* LuaConfig's tables have the types of their declarations.                *)
RegistryTypeOK == reg \in Registries /\ told \in [Ids -> Int]

(* g_depotRefCount counts the files that name a depot, and a depot has a   *)
(* key entry exactly while some file does: what HasDepot answers depends   *)
(* on no order of parses and unloads.                                      *)
Providers(r, i) == {f \in Files : i \in r.depots[f]}

CountedIn(r) ==
  \A i \in Ids :
    /\ r.refs[i] = Cardinality(Providers(r, i))
    /\ i \in r.keys <=> Providers(r, i) # {}

RefCounted == CountedIn(reg)

(* The manifest a depot is pinned to is the one named by the most recently *)
(* parsed file among those that still pin it, however ManifestOverrides    *)
(* was updated on the way: RebuildManifestOverride.                        *)
Pinning(r, i) == {f \in Files : r.filePins[f][i] # NoPin}

LatestIn(r) ==
  \A i \in Ids :
    /\ Pinning(r, i) = {} => r.pins[i] = NoPin
    /\ \A f \in Pinning(r, i) :
         (\A g \in Pinning(r, i) : r.seq[g] <= r.seq[f])
           => r.pins[i] = r.filePins[f][i]

LatestPinWins == LatestIn(reg)

(* The two queues account for every appearance and disappearance of a      *)
(* depot exactly once: what the consumer was told, plus what is queued, is *)
(* what is registered.                                                     *)
QueuesAccountForKeys ==
  \A i \in Ids :
    told[i] + reg.additions[i] - reg.removals[i] = IF i \in reg.keys THEN 1 ELSE 0
=============================================================================
