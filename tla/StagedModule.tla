---------------------------- MODULE StagedModule ----------------------------
(***************************************************************************)
(* The self-update of the Windows build: a check of what is published, a   *)
(* download, and a swap of the module under the process that has it        *)
(* mapped.  Crashes come between any two steps of the swap.                *)
(***************************************************************************)
EXTENDS Integers, Sequences

CONSTANTS Builds,     \* builds ever published
          First,      \* the one installed
          Short, Absent,   \* a module cut short; no file
          Mirrors,    \* the mirrors in the order they are asked
          MaxStarts   \* bound on Steam starts

ASSUME StagedAssumption ==
  /\ First \in Builds /\ {Short, Absent} \cap Builds = {}
  /\ Mirrors \in Seq({"main", "cdn", "lua"}) /\ MaxStarts \in Nat

VARIABLES
  self, old,    \* the module's file and the one it was moved aside to
  mapped,       \* the module of the Steam that is up, Absent for none
  latest,       \* what latest.toml names
  step,         \* of the update thread
  body,         \* what it downloaded
  starts

staged == <<self, old, mapped, latest, step, body, starts>>

StagedInit ==
  /\ self = First /\ old = Absent /\ mapped = Absent
  /\ latest = First /\ step = "off" /\ body = Absent /\ starts = 0

(* Mirror::Fetch: each mirror serves the file, something else, or nothing. *)
(* The first that answers 200 with a body is believed.                     *)
FetchFirst(reply) ==
  LET asked == {i \in DOMAIN Mirrors : reply[Mirrors[i]] # Absent}
  IN IF asked = {} THEN Absent
     ELSE reply[Mirrors[CHOOSE i \in asked : \A j \in asked : i <= j]]

Replies == [{Mirrors[i] : i \in DOMAIN Mirrors} -> {latest, Short, Absent}]

(* Steam starts with whatever is under the module's name: a file cut short *)
(* does not load.  The update thread removes the copy of the last update.  *)
StartModule ==
  /\ mapped = Absent /\ step = "off" /\ starts < MaxStarts
  /\ starts' = starts + 1
  /\ mapped' = IF self \in Builds THEN self ELSE Absent
  /\ step' = IF self \in Builds THEN "check" ELSE "off"
  /\ UNCHANGED <<self, old, latest, body>>

PublishBuild(b) ==
  /\ latest' = b /\ b # latest
  /\ UNCHANGED <<self, old, mapped, step, body, starts>>

CleanupStagedBackup ==
  /\ step = "check" /\ step' = "ask"
  /\ old' = Absent
  /\ UNCHANGED <<self, mapped, latest, body, starts>>

(* Check: any difference from the build that runs is an update.            *)
Check ==
  /\ step = "ask"
  /\ \E reachable \in BOOLEAN :
       step' = IF reachable /\ latest # mapped THEN "fetch" ELSE "done"
  /\ UNCHANGED <<self, old, mapped, latest, body, starts>>

(* DownloadAndStage up to the swap: of a plausible size and the digest     *)
(* latest.toml names.                                                      *)
Download ==
  /\ step = "fetch"
  /\ \E reply \in Replies :
       /\ body' = FetchFirst(reply)
       /\ step' = IF body' \in {Absent, Short} THEN "done" ELSE "aside"
  /\ UNCHANGED <<self, old, mapped, latest, starts>>

(* Mutant: the module is written over.                                     *)
KeepInPlace ==
  /\ step = "aside" /\ step' = "open"
  /\ UNCHANGED <<self, old, mapped, latest, body, starts>>

(* The swap: the module is moved aside, opened anew, and written.          *)
MoveAside ==
  /\ step = "aside"
  /\ \/ old' = self /\ self' = Absent /\ step' = "open"
     \/ UNCHANGED <<old, self>> /\ step' = "done"
  /\ UNCHANGED <<mapped, latest, body, starts>>

OpenModule ==
  /\ step = "open"
  /\ \/ self' = Short /\ step' = "write"
     \/ UNCHANGED self /\ step' = "restore"
  /\ UNCHANGED <<old, mapped, latest, body, starts>>

WriteModule ==
  /\ step = "write"
  /\ \/ self' = body /\ step' = "done"
     \/ UNCHANGED self /\ step' = "restore"
  /\ UNCHANGED <<old, mapped, latest, body, starts>>

RestoreModule ==
  /\ step = "restore" /\ step' = "done"
  /\ \/ self' = old /\ old' = Absent
     \/ UNCHANGED <<self, old>>
  /\ UNCHANGED <<mapped, latest, body, starts>>

(* Steam ends, by RestartSteam, by hand or in a crash, at any step.        *)
StopModule ==
  /\ mapped # Absent
  /\ mapped' = Absent /\ step' = "off" /\ body' = Absent
  /\ UNCHANGED <<self, old, latest, starts>>

StagedNext ==
  \/ StartModule \/ \E b \in Builds : PublishBuild(b)
  \/ CleanupStagedBackup \/ Check \/ Download
  \/ MoveAside \/ OpenModule \/ WriteModule \/ RestoreModule \/ StopModule

StagedSpec == StagedInit /\ [][StagedNext]_staged

-----------------------------------------------------------------------------
(* Whatever step a crash or a full disk comes at, a whole module is left   *)
(* under one of the two names.  (Not under the right one: nothing moves    *)
(* the copy back after a crash, and Steam then starts without a module.)   *)
AWholeModuleIsLeft == {self, old} \cap Builds # {}

=============================================================================
