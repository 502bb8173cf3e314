----------------------------- MODULE AutoUpdate -----------------------------
(***************************************************************************)
(* Updating the module and syncing depot keys (AppUpdater and the thread   *)
(* of LuaFlipperUI that starts them).  Both need Steam closed, so both are *)
(* detached helpers that close it, work, and start it again.  What helpers *)
(* leave for the next session is the file update-status, which the two     *)
(* share.                                                                  *)
(*                                                                         *)
(* Versions are places in the sequence Releases, published in order.  The *)
(* user restarts Steam for as long as they like; what they publish, press, *)
(* add and break is bounded.                                               *)
(***************************************************************************)
EXTENDS Integers, Sequences, FiniteSets

CONSTANTS
  Releases,      \* the versions published, each a sequence of fields
  BrokenBuilds,  \* those that do not build
  Depots,        \* depots a manifest may carry a key for
  Unread,        \* those whose key the script that writes them does not find
  MaxClicks, MaxTrouble   \* bounds on what the user presses and what fails

ASSUME UpdateAssumption ==
  /\ Releases \in Seq(Seq(Nat)) /\ Releases # <<>>
  /\ BrokenBuilds \subseteq DOMAIN Releases \ {1}   \* the first one is in use
  /\ Unread \subseteq Depots /\ MaxClicks \in Nat /\ MaxTrouble \in Nat

VARIABLES
  autoInstall,  \* [update] auto_install, with a repo
  autoSync,     \* [keys] auto_sync
  dirty,        \* the checkout has local changes
  remote,       \* the newest version published
  source,       \* the checkout's
  installed,    \* the module on disk
  running,      \* the module in the Steam that is up
  steam,        \* Steam is up
  game,         \* and a game is running under it
  thread,       \* where AutoUpdateThread is, "off" when it has ended
  seen,         \* the remote version it read, 0 for none
  helper,       \* where each helper is
  status,       \* update-status
  wanted,       \* depots with a key in the manifests
  keyed,        \* those with one in config.vdf
  loadedKeys,   \* those Steam read at its start and writes at its exit
  under,        \* history: the Steam that is up came up under a helper at work
  refused,      \* history: versions whose build failed
  clicks, trouble

update == <<autoInstall, autoSync, dirty, remote, source, installed, running, steam,
            game, thread, seen, helper, status, wanted, keyed, loadedKeys, under, refused,
            clicks, trouble>>

Helpers == {"update", "keys"}
NoVersion == 0
NoStatus == [state |-> "none", version |-> NoVersion]
Pending == wanted \ keyed

(* Field by field; a field that is missing reads as 0.                     *)
Field(v, i) == IF i \in DOMAIN v THEN v[i] ELSE 0

(* Mutant: the versions are compared as text, "10" before "9".             *)
CompareAsText(a, b) ==
  LET first(n) == IF n > 9 THEN n \div 10 ELSE n
      differ == {i \in 1..(Len(a) + Len(b)) : first(Field(a, i)) # first(Field(b, i))}
      at == CHOOSE i \in differ : \A j \in differ : i <= j
  IN IF differ = {} THEN 0 ELSE IF first(Field(a, at)) < first(Field(b, at)) THEN -1 ELSE 1

CompareVersions(a, b) ==
  LET differ == {i \in 1..(Len(a) + Len(b)) : Field(a, i) # Field(b, i)}
      at == CHOOSE i \in differ : \A j \in differ : i <= j
  IN IF differ = {} THEN 0 ELSE IF Field(a, at) < Field(b, at) THEN -1 ELSE 1

(* CheckSource.  "net" is what GitHub lets it read: the VERSION file, only *)
(* the commit at the head of the branch, or nothing.  A commit's direction *)
(* is settled in the checkout, so it is the checkout's and not the build's.*)
Relation(net) ==
  LET of(c) == CASE c < 0 -> "behind" [] c > 0 -> "ahead" [] c = 0 -> "current"
  IN CASE net = "version" -> of(CompareVersions(Releases[running], Releases[remote]))
       [] net = "commit"  -> IF running = remote THEN "" ELSE of(source - remote)
       [] net = "nothing" -> ""

RemoteVersion(net) == IF net = "version" THEN remote ELSE NoVersion

(* PullSource: a fast-forward of a clean tree, or nothing.                 *)
Pulls(reachable) == ~dirty /\ reachable
Pulled(reachable) == IF Pulls(reachable) THEN remote ELSE source

-----------------------------------------------------------------------------
UpdateInit ==
  /\ autoInstall \in BOOLEAN /\ autoSync \in BOOLEAN /\ dirty \in BOOLEAN
  /\ remote = 1 /\ source = 1 /\ installed = 1 /\ running = 1
  /\ steam = FALSE /\ game = FALSE /\ thread = "off" /\ seen = NoVersion
  /\ helper = [h \in Helpers |-> "idle"] /\ status = NoStatus
  /\ wanted = {} /\ keyed = {} /\ loadedKeys = {} /\ under = FALSE /\ refused = {}
  /\ clicks = 0 /\ trouble = 0

Trouble == trouble < MaxTrouble /\ trouble' = trouble + 1
Click   == clicks < MaxClicks /\ clicks' = clicks + 1
Switches == <<autoInstall, autoSync, dirty>>
Trees   == <<remote, source, installed>>
KeyState == <<wanted, keyed, loadedKeys, under>>

(* Steam comes up with the module on disk and starts the thread.           *)
SteamUp ==
  /\ steam' = TRUE /\ game' = FALSE
  /\ running' = installed /\ loadedKeys' = keyed
  /\ under' = \E h \in Helpers : helper[h] = "writing"
  /\ thread' = "wait" /\ seen' = NoVersion

(* It leaves, writing the configuration it has in memory.                  *)
SteamDown ==
  /\ steam' = FALSE /\ game' = FALSE /\ keyed' = loadedKeys /\ under' = FALSE
  /\ thread' = "off" /\ seen' = NoVersion

StartSteam ==
  /\ ~steam /\ SteamUp /\ helper = [h \in Helpers |-> "idle"]
  /\ UNCHANGED <<Switches, Trees, helper, status, wanted, keyed, refused, clicks, trouble>>

(* By hand, while a helper thinks it closed.                               *)
StartUnderHelper ==
  /\ ~steam /\ SteamUp /\ helper # [h \in Helpers |-> "idle"] /\ Click
  /\ UNCHANGED <<Switches, Trees, helper, status, wanted, keyed, refused, trouble>>

QuitSteam ==
  /\ steam /\ SteamDown
  /\ UNCHANGED <<Switches, Trees, running, helper, status, wanted, loadedKeys, refused,
                 clicks, trouble>>

StartGame ==
  /\ steam /\ ~game /\ Click /\ game' = TRUE
  /\ UNCHANGED <<Switches, Trees, running, steam, thread, seen, helper, status, KeyState,
                 refused, trouble>>

StopGame ==
  /\ game /\ game' = FALSE
  /\ UNCHANGED <<Switches, Trees, running, steam, thread, seen, helper, status, KeyState,
                 refused, clicks, trouble>>

PublishVersion ==
  /\ remote < Len(Releases) /\ remote' = remote + 1
  /\ UNCHANGED <<Switches, source, installed, running, steam, game, thread, seen, helper,
                 status, KeyState, refused, clicks, trouble>>

AddManifest(d) ==
  /\ d \notin wanted /\ wanted' = wanted \cup {d}
  /\ UNCHANGED <<Switches, Trees, running, steam, game, thread, seen, helper, status,
                 keyed, loadedKeys, under, refused, clicks, trouble>>

JsonAutoInstall ==
  /\ steam /\ Click /\ autoInstall' = ~autoInstall
  /\ UNCHANGED <<autoSync, dirty, Trees, running, steam, game, thread, seen, helper, status,
                 KeyState, refused, trouble>>

(* LaunchHelper: fails when the script or Steam's binary is not to be      *)
(* found or the shell does not start.                                      *)
LaunchHelper(h) ==
  \/ /\ helper[h] = "idle" /\ helper' = [helper EXCEPT ![h] = "started"]
     /\ UNCHANGED trouble
  \/ Trouble /\ UNCHANGED helper

(* Mutant: the switch is not looked at.                                    *)
SyncAlways ==
  IF Pending # {} THEN LaunchHelper("keys") ELSE UNCHANGED <<helper, trouble>>

(* Mutant: nothing is synced where an update was looked for.               *)
SyncWithoutUpdates ==
  IF autoSync /\ ~autoInstall /\ Pending # {} THEN LaunchHelper("keys") ELSE UNCHANGED <<helper, trouble>>

MaybeSyncDepotKeys ==
  IF autoSync /\ Pending # {} THEN LaunchHelper("keys") ELSE UNCHANGED <<helper, trouble>>

ThreadOnly == UNCHANGED <<Switches, remote, installed, running, steam, game, status, KeyState,
                          refused, clicks>>

(* AutoUpdateThread, 45 seconds in: not under a game; and without the      *)
(* switch or a repository only the keys.  A helper that has seen Steam     *)
(* close looks for it again within those seconds.                          *)
LookAround ==
  /\ thread = "wait" /\ seen' = NoVersion
  /\ \A h \in Helpers : helper[h] # "work"
  /\ IF ~game /\ autoInstall
       THEN thread' = "check" /\ UNCHANGED <<helper, trouble>>
       ELSE /\ thread' = "off"
            /\ IF game THEN UNCHANGED <<helper, trouble>> ELSE MaybeSyncDepotKeys
  /\ UNCHANGED source /\ ThreadOnly

(* Mutant: a version that failed is tried again at the next start.         *)
RetryAll(v) == FALSE

(* The last helper's failure counts against the version it was for.        *)
AlreadyFailed(v) == status.state = "failed" /\ v # NoVersion /\ status.version = v

CheckSource(net) ==
  /\ thread = "check" /\ seen' = RemoteVersion(net)
  /\ IF Relation(net) = "behind" /\ ~AlreadyFailed(RemoteVersion(net))
       THEN thread' = "pull" /\ UNCHANGED helper
            /\ IF net = "version" THEN UNCHANGED trouble ELSE Trouble
       ELSE /\ thread' = "off"
            /\ \/ net = "version" /\ MaybeSyncDepotKeys
               \/ /\ net # "version" /\ Trouble
                  /\ IF autoSync /\ Pending # {} /\ helper["keys"] = "idle"
                       THEN helper' = [helper EXCEPT !["keys"] = "started"]
                       ELSE UNCHANGED helper
  /\ UNCHANGED source /\ ThreadOnly

PullSource(reachable) ==
  /\ thread = "pull" /\ thread' = "off"
  /\ source' = Pulled(reachable)
  /\ IF Pulls(reachable)
       THEN LaunchHelper("update")
       ELSE IF reachable THEN MaybeSyncDepotKeys
       ELSE /\ Trouble
            /\ IF autoSync /\ Pending # {} /\ helper["keys"] = "idle"
                 THEN helper' = [helper EXCEPT !["keys"] = "started"]
                 ELSE UNCHANGED helper
  /\ UNCHANGED seen /\ ThreadOnly

(* The buttons: JsonSourceApply pulls and hands over, JsonKeySync hands    *)
(* the pending keys over.                                                  *)
JsonSourceApply ==
  /\ steam /\ Click
  /\ source' = Pulled(TRUE)
  /\ IF Pulls(TRUE) THEN LaunchHelper("update") ELSE UNCHANGED <<helper, trouble>>
  /\ UNCHANGED <<Switches, remote, installed, running, steam, game, thread, seen, status,
                 KeyState, refused>>

JsonKeySync ==
  /\ steam /\ Pending # {} /\ Click /\ LaunchHelper("keys")
  /\ UNCHANGED <<Switches, Trees, running, steam, game, thread, seen, status, KeyState, refused>>

-----------------------------------------------------------------------------
(* A helper begins by writing update-status, and ends by writing it with   *)
(* the checkout's version.                                                 *)
HelperStarts(h) ==
  /\ helper[h] = "started" /\ helper' = [helper EXCEPT ![h] = "closing"]
  /\ status' = [state |-> "running", version |-> NoVersion]
  /\ UNCHANGED <<Switches, Trees, running, steam, game, thread, seen, KeyState, refused,
                 clicks, trouble>>

FinishWith(h, state) ==
  /\ helper' = [helper EXCEPT ![h] = "idle"]
  /\ status' = [state |-> state, version |-> source]

(* steam -shutdown, and two minutes of waiting.                            *)
SteamCloses(h) ==
  /\ helper[h] = "closing"
  /\ IF steam THEN SteamDown ELSE UNCHANGED <<steam, game, keyed, under, thread, seen>>
  /\ helper' = [helper EXCEPT ![h] = "work"]
  /\ UNCHANGED <<Switches, Trees, running, status, wanted, loadedKeys, refused, clicks, trouble>>

SteamStays(h) ==
  /\ helper[h] = "closing" /\ steam /\ Trouble
  /\ FinishWith(h, "failed")
  /\ UNCHANGED <<Switches, Trees, running, steam, game, thread, seen, KeyState, refused, clicks>>

(* sync_depot_keys.py writes the keys it finds, which are those of one     *)
(* directory in statements of one line, and is content.                    *)
Synced == keyed \cup (wanted \ Unread)

(* The installer and the key writer refuse while Steam is up, which it is  *)
(* again if someone started it; the key writer only where it has something *)
(* to write.                                                               *)
HelperRefuses(h) ==
  /\ helper[h] = "work" /\ steam
  /\ FinishWith(h, IF h = "keys" /\ Synced = keyed THEN "ok" ELSE "failed")
  /\ UNCHANGED <<Switches, Trees, running, steam, game, thread, seen, KeyState, refused,
                 clicks, trouble>>

Restarted(h) ==
  IF steam THEN UNCHANGED <<running, steam, game, thread, seen, loadedKeys, under>>
  ELSE /\ steam' = TRUE /\ game' = FALSE /\ running' = installed'
       /\ loadedKeys' = keyed' /\ thread' = "wait" /\ seen' = NoVersion
       /\ under' = \E other \in Helpers \ {h} : helper[other] = "writing"

(* Mutant: nobody looks whether Steam is up again.                         *)
BeginsUnasked(h) ==
  /\ helper[h] = "work"
  /\ helper' = [helper EXCEPT ![h] = "writing"]
  /\ UNCHANGED <<Switches, Trees, running, steam, game, thread, seen, status, KeyState, refused,
                 clicks, trouble>>

HelperBegins(h) ==
  /\ helper[h] = "work" /\ ~steam
  /\ helper' = [helper EXCEPT ![h] = "writing"]
  /\ UNCHANGED <<Switches, Trees, running, steam, game, thread, seen, status, KeyState, refused,
                 clicks, trouble>>

(* Within the installer it only warns: it refuses if Steam is up by now.   *)
KeysInInstaller ==
  \/ keyed' = Synced /\ UNCHANGED trouble
  \/ steam /\ UNCHANGED <<keyed, trouble>>
  \/ Trouble /\ UNCHANGED keyed

InstallerDone ==
  /\ helper["update"] = "writing" /\ source \notin BrokenBuilds
  /\ installed' = source /\ KeysInInstaller
  /\ refused' = refused \ {source}
  /\ Restarted("update") /\ FinishWith("update", "ok")
  /\ UNCHANGED <<Switches, remote, source, wanted, clicks>>

(* A version that does not build changes nothing.                          *)
BuildFails ==
  /\ helper["update"] = "writing" /\ source \in BrokenBuilds
  /\ UNCHANGED <<installed, keyed>>
  /\ refused' = refused \cup {source}
  /\ Restarted("update") /\ FinishWith("update", "failed")
  /\ UNCHANGED <<Switches, remote, source, wanted, clicks, trouble>>

(* One that does may fail on the way all the same: before it is copied     *)
(* over the module or after, where the bootstrap is built and the patterns *)
(* made, with the keys not come to yet, or written.                        *)
InstallerFails ==
  /\ helper["update"] = "writing" /\ source \notin BrokenBuilds /\ Trouble
  /\ \/ UNCHANGED <<installed, keyed>>
     \/ installed' = source /\ keyed' \in {keyed, Synced}
  /\ Restarted("update") /\ FinishWith("update", "failed")
  /\ UNCHANGED <<Switches, remote, source, wanted, refused, clicks>>

KeysWritten ==
  /\ helper["keys"] = "writing"
  /\ UNCHANGED installed /\ keyed' = Synced
  /\ Restarted("keys") /\ FinishWith("keys", "ok")
  /\ UNCHANGED <<Switches, remote, source, wanted, refused, clicks, trouble>>

KeysFail ==
  /\ helper["keys"] = "writing" /\ Trouble
  /\ UNCHANGED <<installed, keyed>>
  /\ Restarted("keys") /\ FinishWith("keys", "failed")
  /\ UNCHANGED <<Switches, remote, source, wanted, refused, clicks>>

HelperSteps ==
  \/ \E h \in Helpers : HelperStarts(h) \/ SteamCloses(h) \/ SteamStays(h)
                          \/ HelperRefuses(h) \/ HelperBegins(h)
  \/ InstallerDone \/ BuildFails \/ InstallerFails \/ KeysWritten \/ KeysFail

Looks == \E net \in {"version", "commit", "nothing"} : CheckSource(net)
Pull  == \E reachable \in BOOLEAN : PullSource(reachable)

UpdateNext ==
  \/ StartSteam \/ StartUnderHelper \/ QuitSteam \/ StartGame \/ StopGame
  \/ PublishVersion \/ \E d \in Depots : AddManifest(d)
  \/ JsonAutoInstall \/ JsonSourceApply \/ JsonKeySync
  \/ LookAround \/ Looks \/ Pull \/ HelperSteps

UpdateSteps == UpdateInit /\ [][UpdateNext]_update

(* The helpers and the thread run; the user comes back to Steam, lets a    *)
(* game end, and leaves Steam up long enough for the thread to be through. *)
UpdateFairness ==
  /\ WF_update(HelperSteps)
  /\ SF_update(LookAround) /\ SF_update(Looks) /\ SF_update(Pull)
  /\ WF_update(StartSteam) /\ WF_update(StopGame) /\ WF_update(QuitSteam)

UpdateSpec == UpdateSteps /\ UpdateFairness

-----------------------------------------------------------------------------
UpdateTypeOK ==
  /\ {remote, source, installed, running} \subseteq DOMAIN Releases
  /\ thread \in {"off", "wait", "check", "pull"}
  /\ helper \in [Helpers -> {"idle", "started", "closing", "work", "writing"}]
  /\ status.version \in DOMAIN Releases \cup {NoVersion}
  /\ loadedKeys \subseteq wanted /\ keyed \subseteq wanted
  /\ thread # "off" => steam

(* Steam writes config.vdf at its exit from what it read at its start and  *)
(* "discards anything written underneath it" (LuaFlipperUI.cpp:3106): a    *)
(* key once written stays, however often Steam is closed and started by    *)
(* the user and by two helpers, unless that Steam came up under a helper   *)
(* that was writing already.                                               *)
KeysStayWritten == [][keyed \subseteq keyed' \/ under]_update

(* Not so: "The previous module is still installed" (auto_update.sh:88).   *)
FailedLeavesModule ==
  [][helper["update"] = "writing" /\ status'.state = "failed" => installed' = installed]_update

(* Every way AutoUpdateThread ends but one, a running game, has the keys   *)
(* looked at (the comment at LuaFlipperUI.cpp:3155): if it ends with keys  *)
(* waiting and the switch on, a helper is under way that writes them, or   *)
(* starting one failed.                                                    *)
KeysAreNotForgotten ==
  [][(thread # "off" /\ thread' = "off" /\ steam' /\ autoSync /\ Pending # {} /\ ~game)
       => helper' # [h \in Helpers |-> "idle"] \/ trouble' # trouble]_update

(* With the switch off, no key sync is started but by the button.          *)
NobodyIsClosedUnasked ==
  [][(helper["keys"] = "idle" /\ helper'["keys"] = "started" /\ ~autoSync)
       => clicks' # clicks]_update

(* Steam is not closed for ever: once nothing is published, added, pressed *)
(* or failing any more, some start is the last one a helper follows, even  *)
(* if the newest version does not build; but not while keys are to be      *)
(* synced that the script does not find.                                   *)
NoUpdateLoop ==
  <>[](helper = [h \in Helpers |-> "idle"] \/ (autoSync /\ Pending \cap Unread # {}))

(* Not so: with one such key Steam is closed at every start.               *)
StartsSettle == <>[](helper = [h \in Helpers |-> "idle"])

(* A version that builds arrives, given the switch, a clean checkout and   *)
(* restarts; unless the last helper's failure is held against it.          *)
UpdatesArrive ==
  <>[](autoInstall /\ ~dirty
         => \/ running = remote \/ remote \in BrokenBuilds
            \/ status = [state |-> "failed", version |-> remote])

(* So do keys: at last none is waiting that the script finds.              *)
KeysArrive == <>[](autoSync => Pending \subseteq Unread)

(* Not so of the others.                                                   *)
EveryKeyArrives == <>[](autoSync => Pending = {})

(* What the comment says of the thread: "Do not retry a version that       *)
(* already failed to build" (LuaFlipperUI.cpp:3164).  The key helper       *)
(* writes its own outcome over the one that says so.                       *)
FailedIsNotRetried ==
  [][(thread = "pull" /\ helper["update"] = "idle" /\ helper'["update"] = "started")
       => source' \notin refused]_update

(* No start closes Steam unasked or leaves keys out, and the starts settle *)
(* with everything in place that can be.                                   *)
UpdatesSettle ==
  /\ KeysAreNotForgotten /\ NobodyIsClosedUnasked
  /\ NoUpdateLoop /\ UpdatesArrive /\ KeysArrive
=============================================================================
