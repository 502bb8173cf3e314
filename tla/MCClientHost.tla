---------------------------- MODULE MCClientHost ----------------------------
(***************************************************************************)
(* The module in Steam's process: its parts share no state, so each        *)
(* behaviour works one of them and leaves the others as they begin.        *)
(***************************************************************************)
EXTENDS RichPresence, Startup, StagedModule, AutoUpdate, PipeSession, Trap, PacketRewrite,
        LuaTables, WatcherLife

CONSTANTS d1, d2, k1, k2   \* depots and their keys

VARIABLE part   \* the component this behaviour works

(* Three versions, the last one older than the others as a text.           *)
MCReleases == <<<<1, 0, 8>>, <<1, 0, 9>>, <<1, 0, 10>>>>
MCMirrors  == <<"main", "cdn">>

(* A library for every game, and one for a game with a flag.               *)
MCDlls == {[path |-> "dllA", allGames |-> TRUE, whenAppids |-> {}, whenCmdline |-> FALSE],
           [path |-> "dllB", allGames |-> FALSE, whenAppids |-> {1}, whenCmdline |-> TRUE]}

(* A depot with a key, two with one of them without, statements of several *)
(* lines after one that raises an error, and a line that is no Lua.        *)
MCLuaTexts == {<<Whole(Add(d1, k1))>>,
               <<Whole(Add(d1, NoKey)), Whole(Add(d2, k2))>>,
               <<Whole(Raise), Open, Close(Add(d1, k2)), Whole(Add(d2, NoKey))>>,
               <<Whole(Note(d1)), Garbled, Whole(Add(d2, k1))>>}

all == <<presence, startup, staged, update, ipc, trap, wire, request, lua, life>>

MCInit ==
  /\ PresenceInit /\ StartupInit /\ StagedInit /\ PipeInit /\ TrapInit /\ WireInit /\ LuaInit
  /\ UpdateInit /\ LifeInit
  /\ \/ part = "request" /\ BodyInit
     \/ /\ part \in {"presence", "startup", "staged", "update", "ipc", "trap", "wire", "lua", "life"}
        /\ request = NoRequest
  /\ part = "life" \/ life.os = "linux"
  /\ part = "update" \/ (autoInstall /\ autoSync /\ ~dirty)

MCNext ==
  /\ UNCHANGED part
  /\ \/ /\ part = "presence" /\ PresenceNext
        /\ UNCHANGED <<startup, staged, update, ipc, trap, wire, request, lua, life>>
     \/ /\ part = "startup" /\ StartupNext
        /\ UNCHANGED <<presence, staged, update, ipc, trap, wire, request, lua, life>>
     \/ /\ part = "staged" /\ StagedNext
        /\ UNCHANGED <<presence, startup, update, ipc, trap, wire, request, lua, life>>
     \/ /\ part = "update" /\ UpdateNext
        /\ UNCHANGED <<presence, startup, staged, ipc, trap, wire, request, lua, life>>
     \/ /\ part = "ipc" /\ PipeNext
        /\ UNCHANGED <<presence, startup, staged, update, trap, wire, request, lua, life>>
     \/ /\ part = "trap" /\ TrapNext
        /\ UNCHANGED <<presence, startup, staged, update, ipc, wire, request, lua, life>>
     \/ /\ part = "wire" /\ WireNext
        /\ UNCHANGED <<presence, startup, staged, update, ipc, trap, request, lua, life>>
     \/ /\ part = "lua" /\ LuaNext
        /\ UNCHANGED <<presence, startup, staged, update, ipc, trap, wire, request, life>>
     \/ /\ part = "life" /\ LifeNext
        /\ UNCHANGED <<presence, startup, staged, update, ipc, trap, wire, request, lua>>

(* The fairness of the components, each for the behaviours that work it.   *)
Only(name, A) == part = name /\ A

MCSpec ==
  /\ MCInit /\ [][MCNext]_<<all, part>>
  /\ WF_update(Only("update", HelperSteps))
  /\ SF_update(Only("update", LookAround)) /\ SF_update(Only("update", Looks))
  /\ SF_update(Only("update", Pull))
  /\ WF_update(Only("update", StartSteam)) /\ WF_update(Only("update", StopGame))
  /\ WF_update(Only("update", QuitSteam))
  /\ WF_life(Only("life", InitSteps)) /\ WF_life(Only("life", LuaSteps))
  /\ WF_life(Only("life", ConfigSteps)) /\ WF_life(Only("life", ExitSteps))

=============================================================================
