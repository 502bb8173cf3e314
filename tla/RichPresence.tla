---------------------------- MODULE RichPresence ----------------------------
(***************************************************************************)
(* Hooks_NetPacket_RichPresence: the banner a friend list shows for the    *)
(* user, while games Valve does not believe the account owns are running.  *)
(*                                                                         *)
(* Valve drops what it is told about such games, so the send hook follows  *)
(* GamesPlayed itself and stages a PersonaState packet built from the last *)
(* real push about the user; the receive hook slips it in before the next  *)
(* packet, and patches every real push while such a game is on top.        *)
(*                                                                         *)
(* A packet is what it says about the user: the game and its rich presence *)
(* keys, or that it leaves the keys alone (status flag 0x1000 clear).  Key *)
(* values are named by the game that uploaded them.  Each hook call is one *)
(* step.                                                                   *)
(***************************************************************************)
EXTENDS Naturals, Sequences, SequencesExt

CONSTANTS
  Unowned,   \* apps a manifest adds: LuaConfig::HasDepot
  Owned,     \* other apps, and 480, under which -onlinefix games run
  NoApp,     \* app id 0
  MaxStack   \* bound: games running at once

Apps == Unowned \cup Owned

(* The keys of a packet: those a game uploaded, an empty list, or none of  *)
(* the packet's business.                                                  *)
Empty     == "empty"
Untouched == "untouched"

ASSUME PresenceAssumption ==
  /\ Unowned \cap Owned = {}
  /\ {NoApp, Empty, Untouched} \cap Apps = {}
  /\ MaxStack \in Nat \ {0}

VARIABLES
  stack,           \* the running games, last launched last
  g_PlayingAppId,
  g_LocalSteamId,  \* is it known?
  g_HaveSelfCached,
  g_InjectPkt,     \* the staged packet
  g_InjectPending,
  g_RPKvsByAppId,  \* per game, whose upload is stored
  announced,       \* the game Valve broadcasts
  banner           \* what Steam shows: game and keys

presence == <<stack, g_PlayingAppId, g_LocalSteamId, g_HaveSelfCached,
              g_InjectPkt, g_InjectPending, g_RPKvsByAppId, announced, banner>>

Keys    == Apps \cup {Empty}
Packets == [app : Apps \cup {NoApp}, keys : Keys \cup {Untouched}]
Nothing == [app |-> NoApp, keys |-> Empty]

PresenceInit ==
  /\ stack = <<>>
  /\ g_PlayingAppId = NoApp /\ g_LocalSteamId = FALSE /\ g_HaveSelfCached = FALSE
  /\ g_InjectPkt = Nothing /\ g_InjectPending = FALSE
  /\ g_RPKvsByAppId = [a \in Unowned |-> Empty]
  /\ announced = NoApp /\ banner = Nothing

Top(s) == IF s = <<>> THEN NoApp ELSE Last(s)

(* ApplyGameFields                                                         *)
GameFields(app, kvs) ==
  [app  |-> app,
   keys |-> IF app = NoApp THEN Empty
            ELSE IF kvs[app] = Empty THEN Untouched ELSE kvs[app]]

(* Staging goes through only with a self push to build on.                 *)
Stage(app, kvs) ==
  IF g_HaveSelfCached
  THEN g_InjectPkt' = GameFields(app, kvs) /\ g_InjectPending' = TRUE
  ELSE UNCHANGED <<g_InjectPkt, g_InjectPending>>

(* Steam on a PersonaState about the user.                                 *)
Shown(old, pkt) ==
  [app |-> pkt.app, keys |-> IF pkt.keys = Untouched THEN old.keys ELSE pkt.keys]

----------------------------------------------------------------------------
(* TrackSend: GamesPlayed lists the running games; the last is followed if *)
(* it is one of ours.                                                      *)
Followed(s) == IF Top(s) \in Unowned THEN Top(s) ELSE NoApp

TrackSend(s) ==
  /\ g_LocalSteamId' = TRUE
  /\ g_PlayingAppId' = Followed(s)
  /\ IF g_PlayingAppId # Followed(s) /\ (Top(s) \in Unowned \/ s = <<>>)
     THEN Stage(Followed(s), g_RPKvsByAppId)
     ELSE UNCHANGED <<g_InjectPkt, g_InjectPending>>

(* Valve takes note of the top game if the account owns it.                *)
Announced(s) == IF Top(s) \in Unowned THEN announced ELSE Top(s)

GamesPlayed(s) ==
  /\ stack' = s
  /\ TrackSend(s)
  /\ announced' = Announced(s)
  /\ UNCHANGED <<g_HaveSelfCached, g_RPKvsByAppId, banner>>

Launch(a) == /\ Len(stack) < MaxStack /\ ~Contains(stack, a)
             /\ GamesPlayed(Append(stack, a))

Quit(a) == /\ Contains(stack, a)
           /\ GamesPlayed(Remove(stack, a))

(* TrackRPSend: a running game uploads its rich presence, or an empty one. *)
UploadUnstaged(a) ==                                               \* mutant
  /\ Contains(stack, a)
  /\ g_LocalSteamId /\ g_PlayingAppId # NoApp
  /\ \E keys \in {a, Empty} :
       g_RPKvsByAppId' = [g_RPKvsByAppId EXCEPT ![g_PlayingAppId] = keys]
  /\ UNCHANGED <<stack, g_PlayingAppId, g_LocalSteamId, g_HaveSelfCached,
                 g_InjectPkt, g_InjectPending, announced, banner>>

Upload(a) ==
  /\ Contains(stack, a)
  /\ g_LocalSteamId /\ g_PlayingAppId # NoApp
  /\ \E keys \in {a, Empty} :
       g_RPKvsByAppId' = [g_RPKvsByAppId EXCEPT ![g_PlayingAppId] = keys]
  /\ Stage(g_PlayingAppId, g_RPKvsByAppId')
  /\ UNCHANGED <<stack, g_PlayingAppId, g_LocalSteamId, g_HaveSelfCached,
                 announced, banner>>

----------------------------------------------------------------------------
(* TryInject, on every packet: the banner once the staged packet is in.    *)
Injected == IF g_InjectPending THEN Shown(banner, g_InjectPkt) ELSE banner

(* A packet about anything else.                                           *)
RecvOther ==
  /\ g_InjectPending
  /\ banner' = Injected /\ g_InjectPending' = FALSE
  /\ UNCHANGED <<stack, g_PlayingAppId, g_LocalSteamId, g_HaveSelfCached,
                 g_InjectPkt, g_RPKvsByAppId, announced>>

RecvPushUnpatched ==                                               \* mutant
  /\ g_LocalSteamId
  /\ banner' = Shown(Injected, [app |-> announced, keys |-> Empty])
  /\ g_InjectPending' = FALSE /\ g_HaveSelfCached' = TRUE
  /\ UNCHANGED <<stack, g_PlayingAppId, g_LocalSteamId, g_InjectPkt,
                 g_RPKvsByAppId, announced>>

(* HandleRecv: Valve's push about the user, the template from now on, is   *)
(* patched while a game of ours is on top.                                 *)
RecvPush ==
  /\ g_LocalSteamId
  /\ banner' = Shown(Injected,
                     IF g_PlayingAppId = NoApp
                     THEN [app |-> announced, keys |-> Empty]
                     ELSE GameFields(g_PlayingAppId, g_RPKvsByAppId))
  /\ g_InjectPending' = FALSE /\ g_HaveSelfCached' = TRUE
  /\ UNCHANGED <<stack, g_PlayingAppId, g_LocalSteamId, g_InjectPkt,
                 g_RPKvsByAppId, announced>>

PresenceNext ==
  \/ \E a \in Apps : Launch(a) \/ Quit(a) \/ Upload(a)
  \/ RecvOther \/ RecvPush

PresenceSpec == PresenceInit /\ [][PresenceNext]_presence

----------------------------------------------------------------------------
(* The state is well-formed, and the game followed is the last one running *)
(* if it is ours, else none.                                               *)
PresenceTypeOK ==
  /\ stack \in Seq(Apps) /\ Len(stack) <= MaxStack
  /\ g_PlayingAppId = Followed(stack)
  /\ g_LocalSteamId \in BOOLEAN /\ g_HaveSelfCached \in BOOLEAN
  /\ g_InjectPkt \in Packets /\ g_InjectPending \in BOOLEAN
  /\ g_RPKvsByAppId \in [Unowned -> Keys]
  /\ announced \in Owned \cup {NoApp}
  /\ banner \in [app : Apps \cup {NoApp}, keys : Keys]

(* From the first real push on, a game of ours on top is on the banner or  *)
(* in the staged packet: no switch of games, refresh by Valve or missing   *)
(* template loses it.                                                      *)
Coming == IF g_InjectPending THEN Shown(banner, g_InjectPkt) ELSE banner

BannerOnItsWay ==
  g_HaveSelfCached /\ Top(stack) \in Unowned => Coming.app = Top(stack)

(* The same for its rich presence: the keys stored for the game on top,    *)
(* once there are any, are what the banner shows or is about to.           *)
KeysOnTheirWay ==
  LET kvs == g_RPKvsByAppId[g_PlayingAppId]
  IN  g_HaveSelfCached /\ g_PlayingAppId # NoApp /\ kvs # Empty => Coming.keys = kvs

(* "Stack went empty - inject a clear so the cache reverts": no game of    *)
(* ours outlives the last running game on the banner.                      *)
EmptyStackClears ==
  g_HaveSelfCached /\ stack = <<>> => Coming.app \notin Unowned

(* "Per-AppId so a multi-game stack does not conflate KV state": what is   *)
(* stored for a game is what that game uploaded.                           *)
KeysAreItsOwn == \A a \in Unowned : g_RPKvsByAppId[a] \in {Empty, a}

(* Neither the game on top nor its rich presence is lost on the way.       *)
PresenceOnItsWay == BannerOnItsWay /\ KeysOnTheirWay
=============================================================================
