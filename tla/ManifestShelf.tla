--------------------------- MODULE ManifestShelf ----------------------------
(***************************************************************************)
(* The Lua manifests the UI installs, updates, removes and puts back.      *)
(*                                                                         *)
(* A removal renames the file, so that it can be undone until Steam starts *)
(* again, when what is still removed is deleted.  Handlers run under the   *)
(* API's lock; Steam can die between two calls of one, and renames fail.   *)
(***************************************************************************)
EXTENDS Naturals

CONSTANTS Apps, Versions,
          Nowhere       \* no file

ASSUME ShelfAssumption == Nowhere \notin Versions

VARIABLES
  live,      \* the manifest in service for each app
  removed,   \* the one renamed to .removed
  removing,  \* the app whose removal has unlinked an earlier .removed
  inService, \* history: what the last answers say is in service
  kept       \* history: what the last answers say can be put back

shelf == <<live, removed, removing, inService, kept>>

Files == [Apps -> Versions \cup {Nowhere}]
NoApp == {}

ShelfInit ==
  /\ live \in [Apps -> {Nowhere}] /\ removed = live
  /\ removing = NoApp /\ inService = live /\ kept = live

(* JsonUpdate and /api/install: the sources are tried from the top, each   *)
(* attempt leaves the installed file or replaces it whole.                 *)
Update(a) ==
  /\ removing = NoApp
  /\ \E outcomes \in {<<v>> : v \in Versions} \cup {<<>>} :
       LET v == IF outcomes = <<>> THEN live[a] ELSE outcomes[1]
       IN live' = [live EXCEPT ![a] = v] /\ inService' = [inService EXCEPT ![a] = v]
  /\ UNCHANGED <<removed, removing, kept>>

(* JsonRemove: an earlier removal is unlinked, then the file renamed.      *)
RemoveBegins(a) ==
  /\ removing = NoApp /\ live[a] # Nowhere
  /\ removed' = [removed EXCEPT ![a] = Nowhere]
  /\ removing' = {a}
  /\ UNCHANGED <<live, inService, kept>>

RemoveRenames(a) ==
  /\ removing = {a}
  /\ removed' = [removed EXCEPT ![a] = live[a]]
  /\ live' = [live EXCEPT ![a] = Nowhere]
  /\ inService' = [inService EXCEPT ![a] = Nowhere]
  /\ kept' = [kept EXCEPT ![a] = live[a]]
  /\ removing' = NoApp

RemoveFails == removing # NoApp /\ removing' = NoApp /\ UNCHANGED <<live, removed, inService, kept>>

(* Mutant: whatever is in service is overwritten.                          *)
RestoreOver(a) ==
  /\ removing = NoApp /\ removed[a] # Nowhere
  /\ live' = [live EXCEPT ![a] = removed[a]]
  /\ removed' = [removed EXCEPT ![a] = Nowhere]
  /\ inService' = IF live[a] = Nowhere THEN [inService EXCEPT ![a] = kept[a]] ELSE inService
  /\ kept' = IF live[a] = Nowhere THEN [kept EXCEPT ![a] = Nowhere] ELSE kept
  /\ UNCHANGED removing

(* JsonRestore refuses if the app has a manifest again.                    *)
Restore(a) ==
  /\ removing = NoApp /\ removed[a] # Nowhere /\ live[a] = Nowhere
  /\ live' = [live EXCEPT ![a] = removed[a]]
  /\ removed' = [removed EXCEPT ![a] = Nowhere]
  /\ inService' = [inService EXCEPT ![a] = kept[a]]
  /\ kept' = [kept EXCEPT ![a] = Nowhere]
  /\ UNCHANGED removing

(* Steam dies, perhaps within a removal, and starts: SweepRemoved deletes  *)
(* what is still removed.                                                  *)
SteamStarts ==
  /\ removed' = [a \in Apps |-> Nowhere]
  /\ removing' = NoApp /\ kept' = removed'
  /\ UNCHANGED <<live, inService>>

ShelfNext ==
  \/ \E a \in Apps : Update(a) \/ RemoveBegins(a) \/ RemoveRenames(a) \/ Restore(a)
  \/ RemoveFails \/ SteamStarts

ShelfSpec == ShelfInit /\ [][ShelfNext]_shelf

-----------------------------------------------------------------------------
(* The directory is what the answers said: a failed update or removal      *)
(* leaves the manifest that was working, a restored one never replaces one *)
(* added since, a removed one can be put back until the next start         *)
(* (JsonRemove, JsonRestore and JsonUpdate, LuaFlipperUI.cpp:2175).        *)
ShelfMatchesAnswers ==
  /\ live \in Files /\ removed \in Files
  /\ live = inService
  /\ \A a \in Apps : live[a] = Nowhere => removed[a] = kept[a]

=============================================================================
