---------------------------- MODULE WatcherLife ----------------------------
(***************************************************************************)
(* The life of the two watcher threads (LuaFileWatcher, ConfigFileWatcher) *)
(* over DirectoryWatch: InitThread starts them, the config watcher stops   *)
(* and starts the other when lua_paths changes, and the exit handlers stop *)
(* both.  A std::thread that is joinable when it is assigned or destroyed  *)
(* ends the process with abort.                                            *)
(*                                                                         *)
(* What a parsed file does is LuaRegistry's and LiveLicense's; here a file *)
(* is a version on disk and the version loaded, so that nothing is lost    *)
(* between a watch, its buffer and a restart.                              *)
(***************************************************************************)
EXTENDS Integers, Sequences, SequencesExt

CONSTANTS
  WatchedFiles,    \* .lua files of the default directory
  EventLimit,      \* events a watch holds before it overflows
  ReadLimit,       \* events one read of the inotify descriptor fits
  MaxEdits,        \* bound: edits of each file
  MaxRepaths,      \* bound: edits of lua_paths
  EarlyExit        \* may Steam exit while InitThread is at work?

ASSUME WatcherAssumption ==
  EventLimit \in Nat \ {0} /\ ReadLimit \in Nat \ {0} /\ EarlyExit \in BOOLEAN

VARIABLE life   \* the threads, what they watch, and the files

(* os        whose DirectoryWatch this is                                   *)
(* running   g_running of each; object is each g_watcherThread: empty,      *)
(*           alive, finished and still joinable, or destroyed               *)
(* once      who has registered its exit handler; handlers in that order    *)
(* init, main, lua, config   where each thread is                           *)
(* open      the Lua watch is open; events is what it holds; over tells     *)
(*           that Windows dropped some                                      *)
(* batch     the files accumulated since the last pass                      *)
(* paths, read, wake   the edits of lua_paths, the one in force, and        *)
(*           whether the config watch has an event                          *)
(* disk, loaded    versions of the files; missed: files whose last change   *)
(*           no watch holds any more                                        *)
(* aborted   std::terminate was called                                      *)
LifeInit ==
  \E os \in {"linux", "windows"} :
    life = [os |-> os, running |-> [w \in {"lua", "config"} |-> FALSE],
            object |-> [w \in {"lua", "config"} |-> "empty"], handlers |-> <<>>,
            init |-> "parse", main |-> "up", lua |-> "open", config |-> "open",
            open |-> FALSE, events |-> <<>>, over |-> FALSE, batch |-> {},
            paths |-> 0, read |-> 0, wake |-> FALSE, listening |-> FALSE,
            disk |-> [f \in WatchedFiles |-> 0], loaded |-> [f \in WatchedFiles |-> 0],
            missed |-> {}, aborted |-> FALSE]

Joinable(w) == life.object[w] \in {"alive", "finished"}
Up == life.main # "gone" /\ ~life.aborted

(* ParseFile of some files; ReloadDirectories parses every one.            *)
Parsed(s, fs) ==
  [s EXCEPT !.loaded = [f \in WatchedFiles |-> IF f \in fs THEN s.disk[f] ELSE @[f]], !.missed = @ \ fs]

-----------------------------------------------------------------------------
(* Start, in two steps: the flag and the exit handler, then the thread.    *)
Flagged(s, w) ==
  [s EXCEPT !.running[w] = TRUE,
            !.handlers = IF w \in {s.handlers[i] : i \in DOMAIN s.handlers} \/ s.running[w] THEN @
                         ELSE Append(@, w)]

Spawned(s, w) ==
  IF Joinable(w) THEN [s EXCEPT !.aborted = TRUE]
  ELSE [s EXCEPT !.object[w] = "alive", ![w] = "open"]

(* Stop: nothing unless running; else the flag, and then the join.         *)
Unflagged(s, w) == [s EXCEPT !.running[w] = FALSE]
CanJoin(w) == life.object[w] # "alive"
Joined(s, w) == [s EXCEPT !.object[w] = IF @ = "finished" THEN "empty" ELSE @]

(* InitThread, and the order in which it starts the two.                   *)
(* Mutant: the config watcher is started first.                            *)
ConfigFirst == <<"config", "lua">>

StartOrder == <<"lua", "config">>

InitSteps ==
  /\ Up
  /\ \/ life.init = "parse" /\ life' = [Parsed(life, WatchedFiles) EXCEPT !.init = "start1"]
     \/ \E i \in 1 .. 2 :
          \/ /\ life.init = <<"start1", "start2">>[i]
             /\ life' = [Flagged(life, StartOrder[i]) EXCEPT !.init = <<"spawn1", "spawn2">>[i]]
          \/ /\ life.init = <<"spawn1", "spawn2">>[i]
             /\ life' = [Spawned(life, StartOrder[i]) EXCEPT !.init = <<"start2", "done">>[i]]

-----------------------------------------------------------------------------
(* The kernel's side of a watch.  Linux keeps what fits and says something *)
(* was lost with an event of no name; Windows loses the whole buffer.      *)
EditLuaFile(f) ==
  /\ Up /\ life.disk[f] < MaxEdits
  /\ LET edited == [life EXCEPT !.disk[f] = @ + 1]
         held   == {life.events[i] : i \in DOMAIN life.events}
     IN  life' = IF ~life.open THEN [edited EXCEPT !.missed = @ \cup {f}]
                 ELSE IF life.over THEN [edited EXCEPT !.missed = @ \cup {f}]
                 ELSE IF Len(life.events) < EventLimit THEN [edited EXCEPT !.events = Append(@, f)]
                 ELSE IF life.os = "linux" THEN [edited EXCEPT !.missed = @ \cup ({f} \ held)]
                 ELSE [edited EXCEPT !.missed = @ \cup held \cup {f}, !.over = TRUE]

EditLuaPaths ==
  /\ Up /\ life.paths < MaxRepaths
  /\ life' = [life EXCEPT !.paths = @ + 1, !.wake = life.listening]

(* Watch::Drain and IssueRead: Linux reads what fits its buffer, Windows   *)
(* everything or, after an overflow, nothing.                              *)
Taken(s) == IF s.os = "linux" THEN SubSeq(s.events, 1, ReadLimit)
            ELSE IF s.over THEN <<>> ELSE s.events
Left(s)  == IF s.os = "linux" THEN SubSeq(s.events, ReadLimit + 1, Len(s.events)) ELSE <<>>

(* Mutant: a second batch of changes takes the place of the first.         *)
MergedLast(s) == [s EXCEPT !.batch = {Taken(s)[i] : i \in DOMAIN Taken(s)}, !.events = Left(s), !.over = FALSE]

Merged(s) ==
  [s EXCEPT !.batch = @ \cup {Taken(s)[i] : i \in DOMAIN Taken(s)}, !.events = Left(s), !.over = FALSE]

Signaled == life.events # <<>> \/ life.over

(* LuaFileWatcher's thread.  The watch may fail to open, which ends the    *)
(* thread with g_running still set.  A batch that Stop interrupts is       *)
(* processed all the same.                                                 *)
Closed(s) == [s EXCEPT !.object["lua"] = "finished", !.open = FALSE, !.events = <<>>, !.over = FALSE]

LuaOpens ==
  /\ life.lua = "open"
  /\ life' = [life EXCEPT !.open = TRUE, !.lua = "wait"] \/ life' = Closed(life)

(* Mutant: the wait has no timeout.                                        *)
LuaWaitsForever ==
  /\ life.lua = "wait" /\ Signaled
  /\ life' = IF life.running["lua"] THEN [Merged(life) EXCEPT !.lua = "debounce"] ELSE Closed(life)

LuaWaits ==
  /\ life.lua = "wait"
  /\ \/ ~life.running["lua"] /\ life' = Closed(life)
     \/ life.running["lua"] /\ Signaled /\ life' = [Merged(life) EXCEPT !.lua = "debounce"]

LuaDebounces ==
  /\ life.lua = "debounce"
  /\ life' = IF life.running["lua"] /\ Signaled THEN Merged(life) ELSE [life EXCEPT !.lua = "process"]

LuaProcesses ==
  /\ life.lua = "process"
  /\ life' = IF life.batch = {} THEN [life EXCEPT !.lua = "wait"]
             ELSE LET f == CHOOSE f \in life.batch : TRUE
                  IN  [Parsed(life, {f}) EXCEPT !.batch = @ \ {f}]

LuaSteps == Up /\ life.object["lua"] = "alive" /\ (LuaOpens \/ LuaWaits \/ LuaDebounces \/ LuaProcesses)

(* ConfigFileWatcher's thread; RestartLuaWatcher is its steps from stop on.*)
ConfigOpens ==
  /\ life.config = "open"
  /\ \/ life' = [life EXCEPT !.listening = TRUE, !.config = "wait"]
     \/ life' = [life EXCEPT !.object["config"] = "finished"]

ConfigWaits ==
  /\ life.config = "wait"
  /\ \/ ~life.running["config"] /\ life' = [life EXCEPT !.object["config"] = "finished", !.listening = FALSE]
     \/ /\ life.running["config"] /\ life.wake
        /\ life' = [life EXCEPT !.wake = FALSE, !.config = "load"]

ReloadConfig ==
  /\ life.config = "load"
  /\ life' = [life EXCEPT !.read = life.paths, !.config = IF life.read = life.paths THEN "wait" ELSE "stop"]

(* Mutant: the files are read while the old thread may still be at them.   *)
StopLuaUnjoined ==
  /\ life.config = "stop"
  /\ life' = [Unflagged(life, "lua") EXCEPT !.config = "reload"]

StopLua ==
  \/ /\ life.config = "stop"
     /\ life' = IF life.running["lua"] THEN [Unflagged(life, "lua") EXCEPT !.config = "join"]
                ELSE [life EXCEPT !.config = "reload"]
  \/ life.config = "join" /\ CanJoin("lua") /\ life' = [Joined(life, "lua") EXCEPT !.config = "reload"]

ReloadDirectories == life.config = "reload" /\ life' = [Parsed(life, WatchedFiles) EXCEPT !.config = "start"]

StartLua ==
  \/ life.config = "start" /\ life' = [Flagged(life, "lua") EXCEPT !.config = IF life.running["lua"] THEN "wait" ELSE "spawn"]
  \/ life.config = "spawn" /\ life' = [Spawned(life, "lua") EXCEPT !.config = "wait"]

ConfigSteps ==
  /\ Up /\ life.object["config"] = "alive"
  /\ ConfigOpens \/ ConfigWaits \/ ReloadConfig \/ StopLua \/ ReloadDirectories \/ StartLua

-----------------------------------------------------------------------------
(* exit: the handlers in reverse order, then the static objects; OnUnload, *)
(* later still, finds g_running cleared.                                   *)
ExitSteam ==
  /\ life.main = "up" /\ ~life.aborted /\ (EarlyExit \/ life.init = "done")
  /\ life' = [life EXCEPT !.main = "exit"]

Stopping == Last(life.handlers)

RunHandler ==
  /\ life.main = "exit" /\ life.handlers # <<>>
  /\ life' = IF life.running[Stopping] THEN [Unflagged(life, Stopping) EXCEPT !.main = "join"]
             ELSE [life EXCEPT !.handlers = Front(@)]

HandlerJoins ==
  /\ life.main = "join" /\ CanJoin(Stopping)
  /\ life' = [Joined(life, Stopping) EXCEPT !.main = "exit", !.handlers = Front(@)]

DestroyThreads ==
  /\ life.main = "exit" /\ life.handlers = <<>>
  /\ life' = IF Joinable("lua") \/ Joinable("config") THEN [life EXCEPT !.aborted = TRUE]
             ELSE [life EXCEPT !.main = "gone"]

ExitSteps == ~life.aborted /\ (RunHandler \/ HandlerJoins \/ DestroyThreads)

LifeNext ==
  \/ InitSteps \/ LuaSteps \/ ConfigSteps \/ ExitSteam \/ ExitSteps
  \/ EditLuaPaths \/ \E f \in WatchedFiles : EditLuaFile(f)

(* The threads are scheduled; nobody has to edit or to exit.               *)
LifeSpec ==
  /\ LifeInit /\ [][LifeNext]_life
  /\ WF_life(InitSteps) /\ WF_life(LuaSteps) /\ WF_life(ConfigSteps) /\ WF_life(ExitSteps)

-----------------------------------------------------------------------------
(* "Stop() gets to join while the object is still alive"                   *)
(* (LuaFileWatcher.cpp:218): however an exit meets a restart of the Lua    *)
(* watcher, or a thread that ended by itself, no thread object is joinable *)
(* when it is assigned or destroyed.                                       *)
NeverAborted == ~life.aborted

(* LuaConfig's tables have no lock: the reload reads files only while the  *)
(* Lua watcher's thread reads none.                                        *)
OneReader ==
  life.config = "reload" => life.object["lua"] # "alive"

(* An exit ends: main joins the config watcher, which may just be joining  *)
(* the Lua watcher, and neither waits for the other.                       *)
ExitEnds == <>[](life.main \notin {"exit", "join"})

(* What is edited is loaded in the end, whatever batches, partial reads    *)
(* and restarts come between, but for what the watch could not hold and    *)
(* what came while there was none.                                         *)
EditsAreLoaded ==
  \A f \in WatchedFiles :
    []<>(\/ life.loaded[f] = life.disk[f] \/ f \in life.missed
         \/ life.main # "up" \/ ~life.open)

(* Starts, stops and reloads of the two threads never abort the process    *)
(* nor let two of them read files at once.                                 *)
ThreadsAreSafe == NeverAborted /\ OneReader

(* An exit ends, and until then every edit is loaded.                      *)
WatchersFinish == ExitEnds /\ EditsAreLoaded
=============================================================================
