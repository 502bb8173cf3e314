------------------------------- MODULE Startup -------------------------------
(***************************************************************************)
(* What InitThread loads before it hooks anything: the addresses of        *)
(* Steam's functions and the description of its IPC, each keyed by the     *)
(* digest of the client on disk, taken from the first mirror that has it   *)
(* or from what an earlier session kept (RemoteToml, PatternLoader,        *)
(* IPCLoader), and for the addresses from a generator on this machine.     *)
(*                                                                         *)
(* A file is the build it is for and the functions it has.  Steam updates  *)
(* itself between sessions and may die at any step of one.                 *)
(***************************************************************************)
EXTENDS Integers, FiniteSets, Sequences, FiniteSetsExt

CONSTANTS
  MaxBuild,      \* builds of the Steam client
  Required,      \* functions ownership needs (RequiredForUnlock)
  Optional,      \* functions the Linux build does without
  ChainLength,   \* mirrors
  Generator      \* gen_linux_patterns.py is beside the module

ASSUME StartupAssumption ==
  /\ MaxBuild \in Nat \ {0} /\ ChainLength \in Nat /\ Generator \in BOOLEAN
  /\ Required # {}

VARIABLES
  client,    \* the build on disk, and so the one that runs
  offered,   \* [component -> builds upstream has a file for]
  kept,      \* [component -> [build -> the file cached]]
  phase,     \* of InitThread
  work,      \* the component being loaded
  fetched,   \* what Fetch returned for it
  retried,   \* the generator has run
  inUse,     \* [component -> the file in use, Nothing]
  hooked, told,   \* functions hooked; what the user was told
  owed       \* history: components this session ought to have loaded

startup == <<client, offered, kept, phase, work, fetched, retried, inUse, hooked, told, owed>>

Components == {"pattern", "ipc"}
Functions  == Required \cup Optional
Chain     == 1..ChainLength
NoSpec    == [of |-> 0, has |-> {}]     \* no file, or one that does not parse
Junk       == [of |-> -1, has |-> {}]    \* somebody else's page, kept as a file
File(b)    == [of |-> b, has |-> Functions]
Derived(b) == [of |-> b, has |-> Required]   \* what the generator writes
AllKept(f) == [c \in Components |-> [b \in 1..MaxBuild |-> f]]

StartupInit ==
  /\ client = 1 /\ offered = [c \in Components |-> {}] /\ kept = AllKept(NoSpec)
  /\ phase = "off" /\ work = "pattern" /\ fetched = NoSpec /\ retried = FALSE
  /\ inUse = [c \in Components |-> NoSpec] /\ hooked = {} /\ told = {} /\ owed = {}

World == <<client, offered>>

(* The module is loaded into a Steam client, which is found and loads.     *)
StartClient ==
  /\ phase = "off" /\ phase' = "fetch"
  /\ work' = "pattern" /\ fetched' = NoSpec /\ retried' = FALSE
  /\ inUse' = [c \in Components |-> NoSpec] /\ hooked' = {} /\ told' = {}
  /\ owed' = {c \in Components : kept[c][client].has # {}}
  /\ UNCHANGED <<World, kept>>

UpdateClient ==
  /\ phase = "off" /\ client < MaxBuild
  /\ client' = client + 1
  /\ UNCHANGED <<offered, kept, phase, work, fetched, retried, inUse, hooked, told, owed>>

PublishFile(c) ==
  /\ offered' = [offered EXCEPT ![c] = @ \cup {client}]
  /\ UNCHANGED <<client, kept, phase, work, fetched, retried, inUse, hooked, told, owed>>

(* What each mirror answers: nothing, another status than 200, an empty    *)
(* body, a page of a network that wants a login, or the file.              *)
Answers(c) == {"down", "404", "empty", "page"} \cup
              (IF client \in offered[c] THEN {"file"} ELSE {})
Is200(a) == a \in {"empty", "page", "file"}

(* Mutant: a mirror that lacks the file ends the search.                   *)
StopAt404(reply) ==
  LET ends == {i \in Chain : reply[i] # "down"}
  IN IF ends = {} THEN "down" ELSE reply[Min(ends)]

Winner200(reply) ==
  LET hits == {i \in Chain : Is200(reply[i])}
  IN IF hits = {} THEN "down" ELSE reply[Min(hits)]

(* Mutant: the cache holds one file for each component.                    *)
KeptForAny(c) == LET has == {b \in 1..MaxBuild : kept[c][b].has # {}}
                 IN IF has = {} THEN NoSpec ELSE kept[c][Min(has)]

KeptFor(c) == kept[c][client]

(* The start of a file: it may end between two tables and still parse.     *)
Starts(f) == {NoSpec} \cup {[f EXCEPT !.has = part] : part \in SUBSET f.has \ {{}}}

(* Fetch, for the digest of the client on disk.  A body is written over    *)
(* the cached file as it is; without one the cached file is read.          *)
Fetch ==
  /\ phase = "fetch"
  /\ \E reply \in [Chain -> Answers(work)] :
       LET got == Winner200(reply)
           use == IF got = "file" THEN File(client)
                  ELSE IF got = "page" THEN Junk ELSE KeptFor(work)
       IN /\ fetched' = use
          /\ phase' = IF got \in {"file", "page"} THEN "keep" ELSE "parse"
          /\ \E cut \in Starts(use) :
               kept' = IF got \in {"file", "page"}
                         THEN [kept EXCEPT ![work][client] = cut] ELSE kept
          /\ owed' = IF \E i \in Chain : reply[i] = "file" /\ \A j \in 1..(i - 1) : ~Is200(reply[j])
                       THEN owed \cup {work}
                     ELSE IF got = "page" THEN owed \ {work} ELSE owed
  /\ UNCHANGED <<World, work, retried, inUse, hooked, told>>

(* The write ends, or cannot be done.                                      *)
Keep ==
  /\ phase = "keep" /\ phase' = "parse"
  /\ kept' = [kept EXCEPT ![work][client] = fetched]
  /\ UNCHANGED <<World, work, fetched, retried, inUse, hooked, told, owed>>

Usable(f) == f.has # {}
NextComponent == IF work = "pattern" THEN phase' = "fetch" /\ work' = "ipc"
         ELSE phase' = "hook" /\ UNCHANGED work

LoadOK ==
  /\ phase = "parse" /\ Usable(fetched)
  /\ inUse' = [inUse EXCEPT ![work] = fetched]
  /\ NextComponent
  /\ UNCHANGED <<World, kept, fetched, retried, hooked, told, owed>>

(* RegenerateFor: the generator writes the file where Fetch looks last.    *)
Regenerate ==
  /\ phase = "parse" /\ ~Usable(fetched) /\ work = "pattern" /\ Generator /\ ~retried
  /\ retried' = TRUE /\ phase' = "fetch"
  /\ \/ kept' = [kept EXCEPT ![work][client] = Derived(client)] /\ owed' = owed \cup {work}
     \/ UNCHANGED <<kept, owed>>
  /\ UNCHANGED <<World, work, fetched, inUse, hooked, told>>

(* PatternLoader tells the user, IPCLoader only notes it.                  *)
LoadFails ==
  /\ phase = "parse" /\ ~Usable(fetched)
  /\ ~(work = "pattern" /\ Generator /\ ~retried)
  /\ told' = IF work = "pattern" THEN told \cup {"unsupported"} ELSE told
  /\ NextComponent
  /\ UNCHANGED <<World, kept, fetched, retried, inUse, hooked, owed>>

(* FindPattern: of a module without a file, nothing and nothing said.      *)
Missing == IF inUse["pattern"] = NoSpec THEN {} ELSE Functions \ inUse["pattern"].has

(* INSTALL_HOOK and RESOLVE attach what FindPattern finds and pass over    *)
(* what it does not.                                                       *)
Attached == inUse["pattern"].has

CoreHook ==
  /\ phase = "hook" /\ phase' = "report"
  /\ hooked' = Attached
  /\ UNCHANGED <<World, kept, work, fetched, retried, inUse, told, owed>>

(* Mutant: whatever is missing is a fault.                                 *)
ReportAll ==
  /\ phase = "report" /\ phase' = "ready"
  /\ told' = IF Missing # {} THEN told \cup {"missing"} ELSE told
  /\ UNCHANGED <<World, kept, work, fetched, retried, inUse, hooked, owed>>

ReportMissingFunctions ==
  /\ phase = "report" /\ phase' = "ready"
  /\ told' = IF Missing \cap Required # {} THEN told \cup {"missing"} ELSE told
  /\ UNCHANGED <<World, kept, work, fetched, retried, inUse, hooked, owed>>

(* Steam ends or is killed, a file half written with it.                   *)
StopClient ==
  /\ phase # "off" /\ phase' = "off"
  /\ UNCHANGED <<World, kept, work, fetched, retried, inUse, hooked, told, owed>>

StartupNext ==
  \/ StartClient \/ UpdateClient \/ \E c \in Components : PublishFile(c)
  \/ Fetch \/ Keep \/ LoadOK \/ Regenerate \/ LoadFails
  \/ CoreHook \/ ReportMissingFunctions \/ StopClient

StartupSpec == StartupInit /\ [][StartupNext]_startup

-----------------------------------------------------------------------------
(* Steam updates itself between sessions, the cache outlives it and the    *)
(* network comes and goes: the addresses and the IPC description in use    *)
(* are always those of the client that runs.  Another build's addresses    *)
(* crash it.                                                               *)
LoadedForThisClient ==
  phase # "off" => \A c \in Components : inUse[c].of \in {0, client}

(* A component whose file an earlier session kept whole, or that a mirror  *)
(* has, is loaded, however many mirrors lack it; but for a page answered   *)
(* with 200 in its place, which is believed and written over what was kept.*)
WhatIsThereIsLoaded ==
  phase = "ready" => \A c \in owed : Usable(inUse[c])

(* The user is told if and only if ownership is off: never of a function   *)
(* Linux does without, always of one it needs.                             *)
ToldIffOff == phase = "ready" => (told # {} <=> ~(Required \subseteq hooked))

(* A start loads what there is for this client, and tells what it lacks.   *)
StartIsWhole == LoadedForThisClient /\ WhatIsThereIsLoaded /\ ToldIffOff
=============================================================================
