----------------------------- MODULE CloudSync ------------------------------
(***************************************************************************)
(* CloudStore together with the Steam client that syncs one app's saves    *)
(* against it: the changelist on launch, the downloads it calls for, and   *)
(* upload batches afterwards.                                              *)
(*                                                                         *)
(* The client is Valve's.  It is modelled from how CloudSaves.cpp uses it  *)
(* and is as careful as the comments there let it be: it deletes a local   *)
(* file only when a full inventory omits it and the file is unchanged      *)
(* since it was last synced, and it accepts a download only when the bytes *)
(* have the listed SHA.                                                    *)
(*                                                                         *)
(* Both live in one process, so a crash takes them down together; local    *)
(* files, and what the client remembers of the last sync, survive it.  A   *)
(* PUT is in flight apart from the RPCs and may land after the client has  *)
(* given up on it.                                                         *)
(***************************************************************************)
EXTENDS CloudStore, Sequences

CONSTANTS
  ForeignCn,     \* change number of an earlier, foreign history; 0 for none
  LooseCommits,  \* does the client also commit outside a batch?
  MaxPuts        \* bound: PUTs in flight

ASSUME SyncBoundsOK ==
  /\ ForeignCn \in 0..MaxCn
  /\ LooseCommits \in BOOLEAN
  /\ MaxPuts \in Nat

VARIABLES
  local,   \* the save files on this machine
  base,    \* per file, the content the client last saw in sync
  synced,  \* the synced_change_number the client sends
  phase,   \* idle, apply (a full inventory), ready, batch
  goal,    \* the number to record as synced when the phase completes
  gets,    \* downloads the inventory calls for
  cur,     \* the upload in progress
  puts,    \* PUT requests queued at the loopback endpoint
  asked    \* history: names whose last change was a deletion by the client

client == <<local, base, synced, phase, goal, gets, cur, puts, asked>>
syncVars == <<vars, client>>

Contents == Shas \cup {Absent}
NoUpload == [name |-> Absent, sha |-> Absent, stored |-> FALSE]
Uploads  == [name : Names, sha : Shas, stored : BOOLEAN]

SyncInit ==
  /\ Init
  /\ IF ForeignCn = 0 THEN base = NoFiles ELSE base \in [Names -> Shas]
  /\ local = base
  /\ synced = ForeignCn
  /\ phase = "idle" /\ goal = 0
  /\ gets = {} /\ cur = NoUpload /\ puts = <<>> /\ asked = {}

(* The client's job ends early: it keeps its files and its last sync.      *)
GiveUp ==
  /\ phase' = "idle" /\ goal' = 0 /\ gets' = {} /\ cur' = NoUpload
  /\ UNCHANGED <<local, base, synced>>

----------------------------------------------------------------------------
(* The game writes or removes a save between two syncs.                    *)
Play(n, c) ==
  /\ phase \in {"idle", "ready"}
  /\ cur = NoUpload
  /\ local[n] # c
  /\ local' = [local EXCEPT ![n] = c]
  /\ UNCHANGED <<vars, base, synced, phase, goal, gets, cur, puts, asked>>

(* Launch: the store reports no change.                                    *)
SyncUnchanged ==
  /\ phase = "idle"
  /\ ChangelistUnchanged(synced)
  /\ phase' = "ready"
  /\ UNCHANGED <<local, base, synced, goal, gets, cur, puts, asked>>

(* Launch: the store sends a full inventory.  What it omits and this       *)
(* machine has not touched goes; what it has changed is downloaded; where  *)
(* both sides changed the user picks.                                      *)
Listed(listed) ==
  [n \in Names |-> IF n \in listed THEN Inventory[n].sha ELSE Absent]

Omitted(r)   == {n \in Names : r[n] = Absent /\ local[n] = base[n]}
Newer(r)     == {n \in Names : r[n] \notin {Absent, local[n]} /\ local[n] = base[n]}
Conflicts(r) == {n \in Names : /\ r[n] \notin {Absent, local[n], base[n]}
                               /\ local[n] # base[n]}

SyncFull(listed, theirs) ==
  LET r == Listed(listed)
  IN  /\ phase = "idle"
      /\ ChangelistFull(synced, listed)
      /\ theirs \subseteq Conflicts(r)
      /\ gets' = Newer(r) \cup theirs
      /\ local' = [n \in Names |-> IF n \in Omitted(r) THEN Absent ELSE local[n]]
      /\ base' = [n \in Names |-> IF n \in gets' THEN base[n] ELSE r[n]]
      /\ phase' = "apply"
      /\ goal' = GetState.cn
      /\ UNCHANGED <<synced, cur, puts, asked>>

Download(n) ==
  /\ phase = "apply" /\ n \in gets
  /\ FileDownload(n)
  /\ Inventory[n] # Absent
  /\ HttpGet(n) = Inventory[n].sha
  /\ local' = [local EXCEPT ![n] = HttpGet(n)]
  /\ base' = [base EXCEPT ![n] = HttpGet(n)]
  /\ gets' = gets \ {n}
  /\ UNCHANGED <<synced, phase, goal, cur, puts, asked>>

Applied ==
  /\ phase = "apply" /\ gets = {}
  /\ synced' = goal
  /\ phase' = "ready" /\ goal' = 0
  /\ UNCHANGED <<vars, local, base, gets, cur, puts, asked>>

----------------------------------------------------------------------------
(* Uploads.                                                                *)
OpenBatch ==
  /\ phase = "ready" /\ cur = NoUpload
  /\ BeginBatch
  /\ phase' = "batch" /\ goal' = GetState.cn + 1
  /\ UNCHANGED <<local, base, synced, gets, cur, puts, asked>>

MayWrite ==
  /\ cur = NoUpload
  /\ phase \in IF LooseCommits THEN {"batch", "ready"} ELSE {"batch"}

Upload(n) ==
  /\ MayWrite /\ local[n] \notin {Absent, base[n]} /\ Len(puts) < MaxPuts
  /\ BeginFileUpload(n, [root |-> NoRoot, sha |-> local[n]])
  /\ cur' = [name |-> n, sha |-> local[n], stored |-> FALSE]
  /\ puts' = Append(puts, [name |-> n, sha |-> local[n]])
  /\ UNCHANGED <<local, base, synced, phase, goal, gets, asked>>

(* Mutant of ServePut: a thread per connection, so the newest may land     *)
(* first.                                                                  *)
ServeNewestPut ==
  /\ puts # <<>>
  /\ HttpPut(puts[Len(puts)].name, puts[Len(puts)].sha)
  /\ puts' = SubSeq(puts, 1, Len(puts) - 1)
  /\ cur' = IF cur # NoUpload THEN [cur EXCEPT !.stored = TRUE] ELSE cur
  /\ UNCHANGED <<local, base, synced, phase, goal, gets, asked>>

(* The accept thread serves connections one at a time, in order; the last  *)
(* one queued is the upload in progress, if there is one.                  *)
ServePut ==
  /\ puts # <<>>
  /\ HttpPut(Head(puts).name, Head(puts).sha)
  /\ puts' = Tail(puts)
  /\ cur' = IF cur # NoUpload /\ Len(puts) = 1
            THEN [cur EXCEPT !.stored = TRUE] ELSE cur
  /\ UNCHANGED <<local, base, synced, phase, goal, gets, asked>>

(* Short body, header over the limit, disk full: nothing is published.     *)
RefusePut ==
  /\ active /\ puts # <<>>
  /\ puts' = Tail(puts)
  /\ UNCHANGED <<vars, local, base, synced, phase, goal, gets, cur, asked>>

StoreCommit ==
  /\ cur.stored
  /\ CommitFileUpload(cur.name, NoRoot, cur.sha)
  /\ asked' = asked \ {cur.name}

Commit ==
  /\ StoreCommit
  /\ base' = [base EXCEPT ![cur.name] = cur.sha]
  /\ cur' = NoUpload
  /\ UNCHANGED <<local, synced, phase, goal, gets, puts>>

(* The transfer timed out or was refused; its PUT may still be queued.     *)
UploadFails ==
  /\ cur # NoUpload /\ ~cur.stored
  /\ CommitFailed(cur.name)
  /\ GiveUp
  /\ UNCHANGED <<puts, asked>>

StoreRemove(n) ==
  /\ MayWrite /\ local[n] = Absent /\ base[n] # Absent
  /\ DeleteFile(n)
  /\ asked' = asked \cup {n}

Remove(n) ==
  /\ StoreRemove(n)
  /\ base' = [base EXCEPT ![n] = Absent]
  /\ UNCHANGED <<local, synced, phase, goal, gets, cur, puts>>

StoreComplete ==
  /\ phase = "batch" /\ cur = NoUpload /\ local = base
  /\ CompleteBatch

CloseBatch ==
  /\ StoreComplete
  /\ synced' = goal
  /\ phase' = "ready" /\ goal' = 0
  /\ UNCHANGED <<local, base, gets, cur, puts, asked>>

----------------------------------------------------------------------------
(* Failures.                                                               *)

(* The request was handled, its reply never reached the job.               *)
LostReply ==
  /\ GiveUp
  /\ UNCHANGED puts
  /\ \/ phase = "ready" /\ cur = NoUpload /\ BeginBatch /\ UNCHANGED asked
     \/ StoreCommit
     \/ \E n \in Names : StoreRemove(n)
     \/ StoreComplete /\ UNCHANGED asked

(* The job is cancelled, or the app leaves g_appIds in mid-sync and the    *)
(* rest of its requests go to Valve.                                       *)
Abandon ==
  /\ phase # "idle"
  /\ GiveUp
  /\ UNCHANGED <<vars, puts, asked>>

Crash ==
  /\ GiveUp
  /\ puts' = <<>>
  /\ \/ Stop /\ UNCHANGED asked
     \/ \E n \in Names :
          /\ MayWrite /\ local[n] = Absent /\ base[n] # Absent
          /\ CrashInDelete(n)
          /\ asked' = asked \cup {n}

Restart == Initialize /\ UNCHANGED client

SyncNext ==
  \/ \E n \in Names, c \in Contents : Play(n, c)
  \/ SyncUnchanged
  \/ \E listed, theirs \in SUBSET Names : SyncFull(listed, theirs)
  \/ \E n \in Names : Download(n) \/ Upload(n) \/ Remove(n)
  \/ Applied
  \/ OpenBatch
  \/ ServePut
  \/ RefusePut
  \/ Commit
  \/ UploadFails
  \/ CloseBatch
  \/ LostReply
  \/ Abandon
  \/ Crash
  \/ Restart

SyncSpec == SyncInit /\ [][SyncNext]_syncVars

----------------------------------------------------------------------------
(* Properties.                                                             *)

(* The client's variables have their types.                                *)
SyncTypeOK ==
  /\ TypeOK
  /\ local \in [Names -> Contents]
  /\ base \in [Names -> Contents]
  /\ synced \in 0..MaxCn
  /\ phase \in {"idle", "apply", "ready", "batch"}
  /\ goal \in 0..MaxCn
  /\ gets \subseteq Names
  /\ cur \in Uploads \cup {NoUpload}
  /\ puts \in Seq([name : Names, sha : Shas])
  /\ asked \subseteq Names

(* A client at the store's number holds, file by file, what the store      *)
(* holds: answering "unchanged" to it is the truth, whatever replies were  *)
(* lost and wherever either side died.  The promise behind the first       *)
(* branch of RpcGetAppFileChangelist, for a client with no history from    *)
(* elsewhere.                                                              *)
StoredSha(n) == IF Inventory[n] = Absent THEN Absent ELSE Inventory[n].sha

SyncedMeansStored ==
  synced = Version => \A n \in Names : StoredSha(n) = base[n]

(* "A full inventory that omits a file tells the client the cloud dropped  *)
(* it, and the client deletes the local copy to match": an inventory only  *)
(* makes the client drop a file whose deletion the client itself asked.    *)
OmissionMeansDeleted ==
  [][phase = "idle" /\ phase' = "apply" =>
       \A n \in Names :
         local[n] # Absent /\ local'[n] = Absent => n \in asked]_syncVars

(* When the client commits an upload, the name holds exactly the bytes of  *)
(* that upload: no late PUT of an upload the client gave up on has landed  *)
(* over them.  Connections are served one at a time on the accept thread.  *)
CommittedBytesArrived == cur.stored => blob[cur.name] = cur.sha

(* "The number handed out here is what the client records as synced, so it *)
(* has to be the one the batch's writes land under": nothing moves it      *)
(* while the client has the batch open.                                    *)
BatchKeepsItsNumber == phase = "batch" => Version = goal

(* "Outside a batch every commit is its own change."                       *)
LooseCommitIsItsOwnChange ==
  [][phase = "ready" /\ Inventory' # Inventory => Version' = Version + 1]_syncVars

(* A transfer the client gave up on leaves the last committed copy, and    *)
(* the bytes its record points at, as they were.                           *)
FailedUploadKeepsGoodBytes ==
  [][\A n \in Names :
       /\ Inventory[n] # Absent
       /\ blob[n] = Inventory[n].sha
       /\ UploadFails
       => blob'[n] = blob[n]]_syncVars
=============================================================================
