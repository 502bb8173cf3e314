---------------------------- MODULE SettingsFile ----------------------------
(***************************************************************************)
(* steamflipper.toml: the threads that rewrite one setting of it, the user *)
(* who edits it, and the watcher that loads it.                            *)
(*                                                                         *)
(* API handlers run one at a time, under the API's lock, and are one       *)
(* thread here; the watcher of Steam's console log is another and takes no *)
(* lock.  The file's text is what it sets; a setting it lacks is Default.  *)
(* Names are links to inodes: two threads that open the same temporary     *)
(* file share it, and a rename moves whatever is under that name.          *)
(***************************************************************************)
EXTENDS Integers, FiniteSets, FiniteSetsExt

CONSTANTS
  Settings, Values,
  Default,      \* a setting the file does not have
  Toggle,       \* the setting JsonCloudEnable and JsonCloudDisable flip
  UrlKey,       \* the setting the console-log watcher writes
  Threads,      \* "api", and "url" for the console-log watcher
  DiskFull,     \* whether filling a file may fail
  Broken,       \* a text that is no TOML
  None, Due,    \* no load is going on; one is due
  MaxAsked      \* bound on the changes asked for

ASSUME SettingsAssumption ==
  /\ Default \notin Values /\ {Toggle, UrlKey} \subseteq Settings
  /\ Threads \subseteq {"api", "url"} /\ MaxAsked \in Nat

VARIABLES
  data,     \* what each inode holds
  cfg, tmp, \* the inodes under the file's name and the temporary name
  writer,   \* the state of each writing thread
  stale,    \* a change the watcher has not drained
  loading,  \* what the watcher is about to apply, or None or Due
  conf,     \* the loaded settings
  asked,    \* history: the values last asked for and acknowledged
  torn,     \* history: a write was cut short by a crash or a full disk
  count     \* changes asked for

settings == <<data, cfg, tmp, writer, stale, loading, conf, asked, torn, count>>

Inodes == 1..4
NoFile == 0
Empty  == [s \in Settings |-> Default]
Texts  == [Settings -> Values \cup {Default}]
Resting == [pc |-> "idle"]
Resting4 == [t \in Threads |-> Resting]
Idle(t) == writer[t].pc = "idle"
Quiet   == \A t \in Threads : Idle(t)

SettingsInit ==
  /\ data = [i \in Inodes |-> Empty]
  /\ cfg = 1 /\ tmp = NoFile
  /\ writer = Resting4
  /\ stale = FALSE /\ loading = None
  /\ conf = Empty /\ asked = Empty /\ torn = FALSE /\ count = 0

Held == {writer[t].fd : t \in {u \in Threads : writer[u].pc \in {"fill", "rename", "refill"}}}
Fresh == Min(Inodes \ ({cfg, tmp} \cup Held))
Go(t, pc) == [writer EXCEPT ![t].pc = pc]
GoWith(t, pc, i) == [writer EXCEPT ![t] = [pc |-> pc, key |-> @.key, val |-> @.val, body |-> @.body, fd |-> i]]

(* The text with one setting changed: its line replaced if it has one,     *)
(* else added to its section, which is added if there is none.             *)
Edited(text, k, v) == [text EXCEPT ![k] = v]

(* WriteConfigKey reads the file and edits the text in memory ...          *)
ReadConfig(t, k, v) ==
  /\ Idle(t) /\ data[cfg] # Broken /\ count < MaxAsked
  /\ writer' = [writer EXCEPT ![t] =
       [pc |-> "open", key |-> k, val |-> v, body |-> Edited(data[cfg], k, v), fd |-> NoFile]]
  /\ count' = count + 1
  /\ UNCHANGED <<data, cfg, tmp, stale, loading, conf, asked, torn>>

(* ... opens the temporary file, which empties one left there, ...         *)
OpenTemp(t) ==
  /\ writer[t].pc = "open"
  /\ LET i == IF tmp = NoFile THEN Fresh ELSE tmp
     IN /\ tmp' = i
        /\ data' = [data EXCEPT ![i] = Empty]
        /\ writer' = GoWith(t, "fill", i)
  /\ UNCHANGED <<cfg, stale, loading, conf, asked, torn, count>>

(* ... fills it, without looking whether that worked, ...                  *)
FillTemp(t) ==
  /\ writer[t].pc = "fill"
  /\ \/ data' = [data EXCEPT ![writer[t].fd] = writer[t].body] /\ UNCHANGED torn
     \/ DiskFull /\ torn' = TRUE /\ UNCHANGED data
  /\ stale' = (stale \/ writer[t].fd = cfg)
  /\ writer' = Go(t, "rename")
  /\ UNCHANGED <<cfg, tmp, loading, conf, asked, count>>

(* ... and renames what is under the temporary name over the file.         *)
Rename(t) ==
  /\ writer[t].pc = "rename" /\ tmp # NoFile
  /\ cfg' = tmp /\ tmp' = NoFile
  /\ stale' = TRUE
  /\ asked' = [asked EXCEPT ![writer[t].key] = writer[t].val]
  /\ writer' = [writer EXCEPT ![t] = Resting]
  /\ UNCHANGED <<data, loading, conf, torn, count>>

(* The rename fails, because another thread has taken the file or the disk *)
(* refuses; the temporary name is removed and the caller told.             *)
RenameFails(t) ==
  /\ writer[t].pc = "rename"
  /\ tmp' = NoFile
  /\ writer' = [writer EXCEPT ![t] = Resting]
  /\ UNCHANGED <<data, cfg, stale, loading, conf, asked, torn, count>>

(* JsonCloudEnable without a [cloud] section appends one to the file.      *)
AppendToggle(v) ==
  /\ Idle("api") /\ data[cfg] # Broken /\ count < MaxAsked
  /\ data[cfg][Toggle] = Default
  /\ data' = [data EXCEPT ![cfg][Toggle] = v]
  /\ asked' = [asked EXCEPT ![Toggle] = v]
  /\ stale' = TRUE /\ count' = count + 1
  /\ UNCHANGED <<cfg, tmp, writer, loading, conf, torn>>

(* With one, it and JsonCloudDisable empty the file and write it again.    *)
ReadToggle(v) ==
  /\ Idle("api") /\ data[cfg] # Broken /\ count < MaxAsked
  /\ data[cfg][Toggle] # Default
  /\ writer' = [writer EXCEPT !["api"] =
       [pc |-> "trunc", key |-> Toggle, val |-> v, body |-> Edited(data[cfg], Toggle, v), fd |-> NoFile]]
  /\ count' = count + 1
  /\ UNCHANGED <<data, cfg, tmp, stale, loading, conf, asked, torn>>

Truncate ==
  /\ writer["api"].pc = "trunc"
  /\ data' = [data EXCEPT ![cfg] = Empty]
  /\ writer' = GoWith("api", "refill", cfg)
  /\ stale' = TRUE
  /\ UNCHANGED <<cfg, tmp, loading, conf, asked, torn, count>>

Refill ==
  /\ writer["api"].pc = "refill"
  /\ \/ data' = [data EXCEPT ![writer["api"].fd] = writer["api"].body] /\ UNCHANGED torn
     \/ DiskFull /\ torn' = TRUE /\ UNCHANGED data
  /\ asked' = [asked EXCEPT ![Toggle] = writer["api"].val]
  /\ stale' = TRUE
  /\ writer' = [writer EXCEPT !["api"] = Resting]
  /\ UNCHANGED <<cfg, tmp, loading, conf, count>>

(* The user saves the file from an editor, with a typo or without, at a    *)
(* moment when no thread is rewriting it; a typo is corrected at last.     *)
UserEdits ==
  /\ Quiet
  /\ \/ /\ data[cfg] # Broken /\ count < MaxAsked /\ count' = count + 1
        /\ \E k \in Settings, v \in Values :
             data' = [data EXCEPT ![cfg] = Edited(asked, k, v)] /\ asked' = Edited(asked, k, v)
     \/ data[cfg] # Broken /\ ~torn /\ data' = [data EXCEPT ![cfg] = Broken] /\ UNCHANGED <<asked, count>>
     \/ data[cfg] = Broken /\ data' = [data EXCEPT ![cfg] = asked] /\ UNCHANGED <<asked, count>>
  /\ stale' = TRUE
  /\ UNCHANGED <<cfg, tmp, writer, loading, conf, torn>>

(* The watcher: drains the directory's events and, once none has come for  *)
(* a while, reads the file and applies it; a text that does not parse      *)
(* changes nothing.                                                        *)
DrainEvents ==
  /\ stale /\ loading = None
  /\ stale' = FALSE /\ loading' = Due
  /\ UNCHANGED <<data, cfg, tmp, writer, conf, asked, torn, count>>

ParseFile ==
  /\ loading = Due
  /\ loading' = data[cfg]
  /\ UNCHANGED <<data, cfg, tmp, writer, stale, conf, asked, torn, count>>

(* Mutant: the events are drained once the file is loaded.                 *)
ApplyThenDrain ==
  /\ loading \notin {None, Due}
  /\ conf' = IF loading = Broken THEN conf ELSE loading
  /\ loading' = None /\ stale' = FALSE
  /\ UNCHANGED <<data, cfg, tmp, writer, asked, torn, count>>

ApplySnapshot ==
  /\ loading \notin {None, Due}
  /\ conf' = IF loading = Broken THEN conf ELSE loading
  /\ loading' = None
  /\ UNCHANGED <<data, cfg, tmp, writer, stale, asked, torn, count>>

(* Steam dies and is started again: defaults if the file does not parse.   *)
Restart ==
  /\ writer' = Resting4
  /\ torn' = (torn \/ ("api" \in Threads /\ writer["api"].pc = "refill"))
  /\ stale' = FALSE /\ loading' = None
  /\ conf' = IF data[cfg] = Broken THEN Empty ELSE data[cfg]
  /\ UNCHANGED <<data, cfg, tmp, asked, count>>

Keys(t) == IF t = "url" THEN {UrlKey} ELSE Settings \ {Toggle}

SettingsNext ==
  \/ \E t \in Threads :
       \/ \E k \in Keys(t), v \in Values : ReadConfig(t, k, v)
       \/ OpenTemp(t) \/ FillTemp(t) \/ Rename(t) \/ RenameFails(t)
  \/ \E v \in Values : AppendToggle(v) \/ ReadToggle(v)
  \/ Truncate \/ Refill
  \/ UserEdits \/ DrainEvents \/ ParseFile \/ ApplySnapshot \/ Restart

SettingsSteps == SettingsInit /\ [][SettingsNext]_settings

(* The watcher's thread runs on; its waits time out.                       *)
SettingsFairness == WF_settings(DrainEvents \/ ParseFile \/ ApplySnapshot)
SettingsSpec == SettingsSteps /\ SettingsFairness

-----------------------------------------------------------------------------
(* Between two writes the file says what was last asked for, setting by    *)
(* setting: "the key inside it is rewritten if present and appended if     *)
(* not, and everything else is untouched" (WriteConfigKey,                 *)
(* LuaFlipperUI.cpp:968), also after a crash, unless a write was cut.      *)
SettingsKept ==
  Quiet /\ ~torn /\ data[cfg] # Broken => data[cfg] = asked

(* What the program runs on lags behind the file only for a while: every   *)
(* change is loaded, one that comes during a load included, unless what is *)
(* there by then does not parse.                                           *)
SettingsReachConfig ==
  (conf # data[cfg]) ~> (conf = data[cfg] \/ data[cfg] = Broken)

=============================================================================
