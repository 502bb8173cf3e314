---------------------------- MODULE PipeSession ----------------------------
(***************************************************************************)
(* Steam's IPC server as the module sees it: processes open pipes, the     *)
(* handshake decides whose game a pipe belongs to (PipeManager.cpp,        *)
(* ProcessInspector.cpp) and injects the configured libraries once per     *)
(* process (Injection.cpp); calls are answered by post-handlers            *)
(* (Hooks_IPC*.cpp), some of them later (PendingAPICalls.cpp).             *)
(* Steam runs one game at a time, as Hooks_Misc.cpp assumes.               *)
(***************************************************************************)
EXTENDS Integers, FiniteSets

CONSTANTS
  Pids,                   \* process ids, reused once their process is gone
  GameApps,               \* the apps that can be launched
  Configured,             \* those a Lua file configures
  OwnedApps,              \* those the user has bought
  Named,                  \* those addprocess() names the executable of
  Ticketed,               \* those an encrypted ticket can be served for
  Dlls,                   \* [[inject]] entries, see Dll
  kAppIdResolveRetries,   \* samples of the pipe's app
  MaxBirths,              \* bound: processes started
  MaxHandles,             \* bound: asynchronous calls made
  MaxPipes                \* bound: handshakes made

kOnlineFixAppId == 480
Unbound     == 0    \* k_uAppIdInvalid
Idle      == [pid |-> 0, key |-> <<0, 0>>, env |-> Unbound, samples |-> 0]
Gone      == [birth |-> 0, game |-> Unbound, env |-> Unbound, lag |-> 0, fix |-> FALSE, flag |-> FALSE, p2p |-> FALSE]

Dll == [path : {"dllA", "dllB"}, allGames : BOOLEAN, whenAppids : SUBSET GameApps, whenCmdline : BOOLEAN]

ASSUME PipeAssumption ==
  /\ Configured \cup OwnedApps \cup Named \cup Ticketed \subseteq GameApps
  /\ 0 \notin Pids /\ GameApps \subseteq Nat \ {Unbound, kOnlineFixAppId}
  /\ Dlls \subseteq Dll /\ kAppIdResolveRetries \in Nat \ {0}

VARIABLE ipc   \* the processes, what the module keeps of them, and what it answered

(* procs    the process behind each pid: its creation time, its game (Unbound for Steam's own), the app  *)
(*          its environment names, the samples its pipe needs to be bound, whether it was launched     *)
(*          with -onlinefix, has the flag an entry waits for, and has used the networking sockets      *)
(* cache    g_processes: process keys with the app their environment named                             *)
(* hand     the handshake in progress: its process, the app of its environment, the samples taken      *)
(* injected g_injected; tries counts the calls of InjectLibrary for each process and path              *)
(* real     g_OnlineFixRealAppId; sockets is g_NetworkingSocketsActive                                 *)
(* pending  g_encryptedTickets; owed and done are the calls recorded and the calls answered            *)
(* owned    OwnedAppIdSet, where LuaConfig keeps the configured apps Steam says are bought             *)
(* seen     the contexts the finished handshakes made; told is the last answer to GetAppID             *)
PipeInit ==
  ipc = [procs |-> [pid \in Pids |-> Gone], births |-> 0, pipes |-> 0, cache |-> {}, hand |-> Idle,
         injected |-> {}, tries |-> [k \in Pids \X (1 .. MaxBirths) \X {"dllA", "dllB"} |-> 0],
         real |-> Unbound, sockets |-> FALSE, pending |-> {}, owed |-> {}, done |-> {}, owned |-> {},
         seen |-> {}, told |-> Unbound]

Live(pid) == ipc.procs[pid] # Gone
IsGame(pid) == Live(pid) /\ ipc.procs[pid].game # Unbound
Playing == {pid \in Pids : IsGame(pid)}
ProcessKey(pid) == <<pid, ipc.procs[pid].birth>>

-----------------------------------------------------------------------------
(* OnSpawnProcessHit, with the environment Steam then builds for the game:  *)
(* the overlay's id, which ReadSteamEnvironment prefers, is put back by     *)
(* BuildSpawnEnvBlock.                                                      *)
SpawnedEnv(app, exported) == IF exported THEN app ELSE Unbound

(* Mutant: the sockets of the last launch still count.                      *)
SpawnFlagsKeepSockets(app, onlinefix) == [ipc EXCEPT !.real = IF onlinefix THEN app ELSE Unbound]

SpawnFlags(app, onlinefix) ==
  IF onlinefix THEN [ipc EXCEPT !.real = app, !.sockets = FALSE] ELSE [ipc EXCEPT !.real = Unbound]

Process(pid, app, env, lag, onlinefix, flag) ==
  [birth |-> ipc.births + 1, game |-> app, env |-> env, lag |-> lag, fix |-> onlinefix, flag |-> flag,
   p2p |-> FALSE]

(* A launch may fall within a handshake's retries; a pid is not used again  *)
(* in the milliseconds those take.                                          *)
SpawnGame(pid) ==
  /\ ~Live(pid) /\ Playing = {} /\ ipc.births < MaxBirths /\ pid # ipc.hand.pid
  /\ \E app \in GameApps, exported, onlinefix, flag \in BOOLEAN, lag \in 0 .. kAppIdResolveRetries :
       /\ exported => lag = 0   \* not asked then
       /\ ipc' = [SpawnFlags(app, onlinefix) EXCEPT
                    !.births = @ + 1, !.told = Unbound,
                    !.procs[pid] = Process(pid, app, SpawnedEnv(app, exported), lag, onlinefix, flag)]

(* A process of Steam's own, with neither environment nor game.            *)
StartHelper(pid) ==
  /\ ~Live(pid) /\ ipc.births < MaxBirths /\ pid # ipc.hand.pid
  /\ ipc' = [ipc EXCEPT !.births = @ + 1, !.procs[pid] = Process(pid, Unbound, Unbound, 0, FALSE, FALSE)]

Exit(pid) ==
  /\ Live(pid)
  /\ ipc' = [ipc EXCEPT !.procs[pid] = Gone]

(* LuaConfig::HasDepot leaves out what the user owns, unless asked not to. *)
HasDepot(app, excludeOwned) == app \in Configured /\ (excludeOwned => app \notin ipc.owned)

(* CheckAppOwnership, as far as it notes an owned app.                     *)
MarkOwned(app) ==
  /\ app \in OwnedApps \cap Configured
  /\ ipc' = [ipc EXCEPT !.owned = @ \cup {app}]

-----------------------------------------------------------------------------
(* ResolveProcess: the snapshot kept for this pid and creation time, or one *)
(* taken now and kept.                                                      *)
Snapshot(pid) == [key |-> ProcessKey(pid), env |-> ipc.procs[pid].env]
Cached(pid) == {s \in ipc.cache : s.key = ProcessKey(pid)}

(* Mutant: known by pid alone.                                              *)
CachedByPid(pid) == {s \in ipc.cache : s.key[1] = pid}
ResolveProcessByPid(pid) == IF CachedByPid(pid) # {} THEN CHOOSE s \in CachedByPid(pid) : TRUE ELSE Snapshot(pid)

ResolveProcess(pid) == IF Cached(pid) # {} THEN CHOOSE s \in Cached(pid) : TRUE ELSE Snapshot(pid)

(* HandleHandshake and the first half of OnHandshake.  A process that died  *)
(* before it could be inspected has no creation time and is ignored.        *)
OnHandshake(pid) ==
  /\ Live(pid) /\ ipc.hand = Idle /\ ipc.pipes < MaxPipes
  /\ LET s == ResolveProcess(pid)
     IN  ipc' = [ipc EXCEPT !.cache = @ \cup {s}, !.pipes = @ + 1,
                            !.hand = [pid |-> pid, key |-> ProcessKey(pid), env |-> s.env, samples |-> 0]]

(* Hooks_Misc::ResolveAppId asked in the course of a call of this process,  *)
(* whose pipe Steam has bound to an app or not yet.                         *)
ResolveAppId(bound) == IF ipc.real # Unbound THEN ipc.real ELSE bound
BoundApp(pid, samples) ==
  IF ~Live(pid) \/ samples < ipc.procs[pid].lag THEN Unbound ELSE ipc.procs[pid].game

(* Injection::Matches; the command line of a dead process cannot be read.   *)
Matches(dll, app, tracked, flag) ==
  /\ dll.allGames \/ tracked
  /\ dll.whenAppids = {} \/ app \in dll.whenAppids
  /\ dll.whenCmdline => flag

(* Mutant: the creation time left out of the key.                           *)
InjectionKeyByPid(key, path) == <<key[1], 0, path>>

InjectionKey(key, path) == <<key[1], key[2], path>>

(* Mutant: nothing is claimed.                                              *)
ClaimedAgain(key, app, tracked, flag) == {dll \in Dlls : Matches(dll, app, tracked, flag)}

(* Injection::Apply: each matching library claimed, and tried, at most once *)
(* for the process.                                                         *)
Claimed(key, app, tracked, flag) ==
  {dll \in Dlls : Matches(dll, app, tracked, flag) /\ InjectionKey(key, dll.path) \notin ipc.injected}

Apply(key, app, gameProcess, tracked, flag) ==
  LET paths == IF gameProcess THEN {dll.path : dll \in Claimed(key, app, tracked, flag)} ELSE {}
  IN  [ipc EXCEPT
         !.hand = Idle,
         !.seen = @ \cup {[key |-> key, app |-> app, tracked |-> tracked, game |-> gameProcess, flag |-> flag]},
         !.injected = @ \cup {InjectionKey(key, path) : path \in paths},
         !.tries = [k \in DOMAIN @ |-> @[k] + IF <<k[1], k[2]>> = key /\ k[3] \in paths THEN 1 ELSE 0]]

(* The rest of OnHandshake, once the app is resolved.                       *)
Finish(app) ==
  LET h == ipc.hand
      tracked == HasDepot(app, FALSE)
      flag == Live(h.pid) /\ ipc.procs[h.pid].flag
  IN  ipc' = Apply(h.key, app, h.env # Unbound \/ tracked, tracked, flag)

(* ResolveAppIdWithRetry, one sample at a time.                             *)
FromEnvironment == ipc.hand # Idle /\ ipc.hand.env # Unbound /\ Finish(ipc.hand.env)

PipeApp == ResolveAppId(BoundApp(ipc.hand.pid, ipc.hand.samples))

(* Mutant: the first sample is taken for the answer.                        *)
SampleOnce ==
  /\ ipc.hand # Idle /\ ipc.hand.env = Unbound /\ ipc.hand.samples < kAppIdResolveRetries
  /\ IF PipeApp # Unbound THEN Finish(PipeApp) ELSE ipc' = [ipc EXCEPT !.hand.samples = kAppIdResolveRetries]

Sample ==
  /\ ipc.hand # Idle /\ ipc.hand.env = Unbound /\ ipc.hand.samples < kAppIdResolveRetries
  /\ IF PipeApp # Unbound THEN Finish(PipeApp) ELSE ipc' = [ipc EXCEPT !.hand.samples = @ + 1]

(* The executable's name, read when the process was inspected.              *)
FromName ==
  /\ ipc.hand # Idle /\ ipc.hand.env = Unbound /\ ipc.hand.samples = kAppIdResolveRetries
  /\ LET game == IF Live(ipc.hand.pid) THEN ipc.procs[ipc.hand.pid].game ELSE Unbound
     IN  Finish(IF game \in Named THEN game ELSE Unbound)

-----------------------------------------------------------------------------
(* ResolveDispatch: calls are handled when their app is configured and not  *)
(* known to be owned.  The pipes of a running process are long bound.       *)
CallApp(pid) == ResolveAppId(ipc.procs[pid].game)
Dispatched(pid) == HasDepot(CallApp(pid), TRUE)

(* DetectNetworkingSockets                                                  *)
UseSockets(pid) ==
  /\ IsGame(pid) /\ ipc.hand = Idle
  /\ ipc' = [ipc EXCEPT !.sockets = @ \/ ipc.real # Unbound, !.procs[pid].p2p = TRUE]

ShouldReportOnlineFixAppId == ipc.real # Unbound /\ ipc.sockets

(* HandlerPost_IClientUtils_GetAppID over what steamclient answered.        *)
GetAppID(pid) ==
  /\ IsGame(pid) /\ ipc.hand = Idle
  /\ LET native == IF ipc.procs[pid].fix THEN kOnlineFixAppId ELSE ipc.procs[pid].game
     IN  ipc' = [ipc EXCEPT !.told =
                   IF ~Dispatched(pid) \/ ShouldReportOnlineFixAppId THEN native ELSE CallApp(pid)]

(* HandlerPost_IClientUser_RequestEncryptedAppTicket: the call steamclient  *)
(* just numbered is remembered when there is a ticket to answer it with.    *)
RequestEncryptedAppTicket(pid) ==
  /\ IsGame(pid) /\ ipc.hand = Idle /\ Dispatched(pid) /\ Cardinality(ipc.owed) < MaxHandles
  /\ CallApp(pid) \in Ticketed
  /\ LET call == Cardinality(ipc.owed) + 1
     IN  ipc' = [ipc EXCEPT !.pending = @ \cup {call}, !.owed = @ \cup {call}]

(* Mutant: taken and not put back.                                          *)
AnswerCallTaken(call, fits) ==
  [ipc EXCEPT !.pending = @ \ {call}, !.done = IF fits THEN @ \cup {call} ELSE @]

(* HandleCallback_EncryptedAppTicketResponse: taken, and put back when the  *)
(* caller's buffer cannot hold the answer.                                  *)
AnswerCall(call, fits) ==
  IF fits THEN [ipc EXCEPT !.pending = @ \ {call}, !.done = @ \cup {call}] ELSE ipc

GetAPICallResult(pid) ==
  /\ IsGame(pid) /\ ipc.hand = Idle /\ Dispatched(pid)
  /\ \E call \in ipc.pending, fits \in BOOLEAN : ipc' = AnswerCall(call, fits)

PipeNext ==
  \/ \E pid \in Pids :
       \/ SpawnGame(pid) \/ StartHelper(pid) \/ Exit(pid) \/ OnHandshake(pid)
       \/ UseSockets(pid) \/ GetAppID(pid) \/ RequestEncryptedAppTicket(pid) \/ GetAPICallResult(pid)
  \/ \E app \in GameApps : MarkOwned(app)
  \/ FromEnvironment \/ Sample \/ FromName

PipeSpec == PipeInit /\ [][PipeNext]_ipc

-----------------------------------------------------------------------------
(* A pipe belongs to the game of its own process, however late Steam binds  *)
(* it, whichever process had its pid before, and not to nobody when the     *)
(* environment, the samples or the executable's name can tell.              *)
PipesKnowTheirGame ==
  \A c \in ipc.seen, pid \in Playing :
    LET process == ipc.procs[pid]
    IN  (c.key = ProcessKey(pid)
         /\ (process.env # Unbound \/ process.lag < kAppIdResolveRetries \/ process.game \in Named))
        => c.app = process.game

(* Every library an entry asks for is injected into each process exactly    *)
(* once: not again for its further pipes, and not left out because an       *)
(* earlier process had the same pid.                                        *)
InjectedExactlyOnce ==
  \A k \in DOMAIN ipc.tries :
    ipc.tries[k] = IF \E c \in ipc.seen, dll \in Dlls :
                        /\ c.key = <<k[1], k[2]>> /\ dll.path = k[3] /\ c.game
                        /\ Matches(dll, c.app, c.tracked, c.flag)
                   THEN 1 ELSE 0

(* A configured game the user is not known to own, launched with -onlinefix *)
(* or not, is told its own id until it uses the networking sockets under    *)
(* -onlinefix and the shared one from then on; what an earlier launch did   *)
(* with them does not count.  An owned one is not told apart, see below.    *)
ToldItsOwnId ==
  [][\A pid \in Playing :
       (ipc'.told # ipc.told /\ ipc'.told # Unbound /\ ipc.procs[pid].game \in Configured \ ipc.owned)
       => ipc'.told = IF ipc.procs[pid].fix /\ ipc.procs[pid].p2p
                      THEN kOnlineFixAppId ELSE ipc.procs[pid].game]_ipc

(* What the comment at the handler asks, of every configured game.  It is   *)
(* not so: the calls of an owned one are not dispatched (Hooks_IPC.cpp:78   *)
(* leaves the owned out), and launched with -onlinefix it is told 480 from  *)
(* the start.                                                               *)
EveryConfiguredIsTold ==
  [][\A pid \in Playing :
       (ipc'.told # ipc.told /\ ipc'.told # Unbound /\ ipc.procs[pid].game \in Configured)
       => ipc'.told = IF ipc.procs[pid].fix /\ ipc.procs[pid].p2p
                      THEN kOnlineFixAppId ELSE ipc.procs[pid].game]_ipc

(* A call the module promised to answer stays pending until it is answered, *)
(* polled with too small a buffer or not, and is answered once.             *)
OwedCallsAreKept ==
  /\ ipc.owed = ipc.pending \cup ipc.done
  /\ ipc.pending \cap ipc.done = {}

(* Games are told apart by their processes: in the contexts, in what is    *)
(* injected, and in every answer.                                          *)
PipesAreKnown ==
  [](PipesKnowTheirGame /\ InjectedExactlyOnce /\ OwedCallsAreKept) /\ ToldItsOwnId
=============================================================================
