----------------------------- MODULE CloudStore -----------------------------
(***************************************************************************)
(* The native cloud-save backend, src/src/Utils/CloudSaves/CloudSaves.cpp, *)
(* for one account and one app.                                            *)
(*                                                                         *)
(* The backend keeps an AppState in memory, loaded from a manifest file on *)
(* first use and written back, atomically, by every handler that changes   *)
(* it.  The bytes of a save travel apart from the RPCs, over a loopback    *)
(* HTTP endpoint with a thread of its own that does not take g_mutex, and  *)
(* land in one file per name.  The client is unconstrained here: any       *)
(* request may arrive at any time.  CloudSync adds the client.             *)
(*                                                                         *)
(* A save's bytes are abstracted to its SHA: two contents are equal iff    *)
(* their SHA is.  Sizes and timestamps ride along with the SHA and are     *)
(* left out.  A handler runs under g_mutex, so it is one action; the disk  *)
(* effects a crash can separate have an action of their own.               *)
(***************************************************************************)
EXTENDS Integers, FiniteSets

CONSTANTS
  Names,      \* clean relative names that pass IsSafeRelativeName
  Roots,      \* the "%Token%/" prefixes a file name can carry
  NoRoot,     \* the empty prefix
  Shas,       \* contents
  NoSha,      \* an empty sha field
  Absent,     \* no record, no blob, no announcement
  MaxCn,      \* bound: largest change number a behaviour reaches
  MaxListed,  \* the reply's byte cap, counted in files
  DiskFails   \* may a write of the manifest fail (disk full, no permission)?

ASSUME SentinelsDistinct ==
  /\ NoRoot \in Roots
  /\ NoSha \notin Shas
  /\ Absent \notin Shas
  /\ Absent \notin [root : Roots, sha : Shas \cup {NoSha}]

ASSUME BoundsOK ==
  /\ MaxCn \in Nat
  /\ MaxListed \in Nat
  /\ DiskFails \in BOOLEAN

(* FileRecord.                                                             *)
Records == [root : Roots, sha : Shas \cup {NoSha}]

VARIABLES
  active,    \* g_active: Initialize has run and Shutdown has not
  st,        \* g_apps[AppKey]: the AppState in memory
  pending,   \* g_pending: uploads announced and not yet committed
  manifest,  \* the manifest file
  blob       \* the save files under AppDir

vars == <<active, st, pending, manifest, blob>>

NoFiles == [n \in Names |-> Absent]

(* A fresh g_apps entry, before LoadManifest.                              *)
Unloaded == [loaded |-> FALSE, cn |-> 0, inBatch |-> FALSE, files |-> NoFiles]

(* Mutant of GetState: the number is loaded, the files are not.            *)
GetStateNoFiles ==
  IF st.loaded THEN st
  ELSE [loaded |-> TRUE, cn |-> manifest.cn, inBatch |-> FALSE, files |-> NoFiles]

(* GetState: the entry, loaded from the manifest on first use.             *)
GetState ==
  IF st.loaded THEN st
  ELSE [loaded |-> TRUE, cn |-> manifest.cn, inBatch |-> FALSE,
        files |-> manifest.files]

Present(files) == {n \in Names : files[n] # Absent}

Init ==
  /\ active = FALSE
  /\ st = Unloaded
  /\ pending = NoFiles
  /\ manifest = [cn |-> 0, files |-> NoFiles]
  /\ blob = NoFiles

(***************************************************************************)
(* SaveManifest: WriteAtomic replaces the file as a whole or, when it      *)
(* fails, leaves the old one; the handler goes on either way.              *)
(***************************************************************************)
SaveManifest(s) ==
  \/ manifest' = [cn |-> s.cn, files |-> s.files]
  \/ DiskFails /\ UNCHANGED manifest

(* Mutant of NextCn: a commit moves the number inside a batch too.         *)
NextCnAlways(s) == s.cn + 1

(* "Outside a batch every commit is its own change."                       *)
NextCn(s) == IF s.inBatch THEN s.cn ELSE s.cn + 1

(* The change a commit or a deletion makes to the AppState.                *)
Change(s, n, r) ==
  [s EXCEPT !.files = [s.files EXCEPT ![n] = r], !.cn = NextCn(s)]

----------------------------------------------------------------------------
(* The RPCs, in the order HandleRpc dispatches them.                       *)

BeginFileUpload(n, r) ==
  /\ active
  /\ pending' = [pending EXCEPT ![n] = r]
  /\ UNCHANGED <<active, st, manifest, blob>>

(* Mutant of CommitFailed: the published record goes too.                  *)
CommitFailedForgets(n) ==
  /\ active
  /\ pending' = [pending EXCEPT ![n] = Absent]
  /\ blob' = [blob EXCEPT ![n] = Absent]
  /\ st' = [GetState EXCEPT !.files = [GetState.files EXCEPT ![n] = Absent]]
  /\ UNCHANGED <<active, manifest>>

(* The client gave up on the transfer: the announcement and the blob go.   *)
CommitFailed(n) ==
  /\ active
  /\ pending' = [pending EXCEPT ![n] = Absent]
  /\ blob' = [blob EXCEPT ![n] = Absent]
  /\ UNCHANGED <<active, st, manifest>>

(* The client says the transfer succeeded, but no blob ever arrived.       *)
CommitWithoutBlob(n) ==
  /\ active
  /\ blob[n] = Absent
  /\ pending' = [pending EXCEPT ![n] = Absent]
  /\ UNCHANGED <<active, st, manifest, blob>>

(* The record a commit publishes: the announced one, completed from the    *)
(* commit request where the announcement is missing or says nothing.       *)
CommitRecord(n, root, sha) ==
  LET ann == IF pending[n] # Absent THEN pending[n]
             ELSE [root |-> NoRoot, sha |-> NoSha]
  IN  [root |-> IF ann.root = NoRoot THEN root ELSE ann.root,
       sha  |-> IF sha = NoSha THEN ann.sha ELSE sha]

CommitFileUpload(n, root, sha) ==
  LET s    == GetState
      next == Change(s, n, CommitRecord(n, root, sha))
  IN  /\ active
      /\ blob[n] # Absent
      /\ NextCn(s) <= MaxCn
      /\ pending' = [pending EXCEPT ![n] = Absent]
      /\ st' = next
      /\ SaveManifest(next)
      /\ UNCHANGED <<active, blob>>

(* Answers from the record alone; the bytes are fetched by HttpGet.        *)
FileDownload(n) ==
  /\ active
  /\ st' = GetState
  /\ UNCHANGED <<active, pending, manifest, blob>>

DeleteFile(n) ==
  LET s    == GetState
      next == Change(s, n, Absent)
  IN  /\ active
      /\ pending' = [pending EXCEPT ![n] = Absent]
      /\ IF s.files[n] = Absent
           THEN st' = s /\ UNCHANGED <<manifest, blob>>
           ELSE /\ NextCn(s) <= MaxCn
                /\ blob' = [blob EXCEPT ![n] = Absent]
                /\ st' = next
                /\ SaveManifest(next)
      /\ UNCHANGED active

(* Mutants of ChangelistUnchanged: the adopted number is not saved; a      *)
(* client one behind is taken to be up to date.                            *)
ChangelistUnsaved(synced) ==
  /\ active
  /\ synced >= GetState.cn
  /\ st' = [GetState EXCEPT !.cn = synced]
  /\ UNCHANGED <<active, pending, manifest, blob>>

ChangelistOffByOne(synced) ==
  /\ active
  /\ synced + 1 >= GetState.cn
  /\ st' = GetState
  /\ UNCHANGED <<active, pending, manifest, blob>>

(* The client is at or beyond the store's number: report no change, and    *)
(* adopt the client's number when it is beyond.                            *)
ChangelistUnchanged(synced) ==
  LET s    == GetState
      next == [s EXCEPT !.cn = synced]
  IN  /\ active
      /\ synced >= s.cn
      /\ st' = next
      /\ IF synced > s.cn THEN SaveManifest(next) ELSE UNCHANGED manifest
      /\ UNCHANGED <<active, pending, blob>>

(* What a full changelist may list.  It stops at the first file that does  *)
(* not fit; which files come first is the hash map's choice.               *)
Listings(files) ==
  {listed \in SUBSET Present(files) :
     /\ Cardinality(listed) <= MaxListed
     /\ listed = Present(files) \/ Cardinality(listed) = MaxListed}

(* The client is behind: send the inventory as the whole truth.            *)
ChangelistFull(synced, listed) ==
  /\ active
  /\ synced < GetState.cn
  /\ listed \in Listings(GetState.files)
  /\ st' = GetState
  /\ UNCHANGED <<active, pending, manifest, blob>>

QuotaUsage ==
  /\ active
  /\ st' = GetState
  /\ UNCHANGED <<active, pending, manifest, blob>>

(* Mutant of BeginBatch: the claimed number is not saved.                  *)
BeginBatchUnsaved ==
  /\ active
  /\ GetState.cn < MaxCn
  /\ st' = [GetState EXCEPT !.cn = GetState.cn + 1, !.inBatch = TRUE]
  /\ UNCHANGED <<active, pending, manifest, blob>>

BeginBatch ==
  LET s    == GetState
      next == [s EXCEPT !.cn = s.cn + 1, !.inBatch = TRUE]
  IN  /\ active
      /\ s.cn < MaxCn
      /\ st' = next
      /\ SaveManifest(next)
      /\ UNCHANGED <<active, pending, blob>>

CompleteBatch ==
  LET next == [GetState EXCEPT !.inBatch = FALSE]
  IN  /\ active
      /\ st' = next
      /\ SaveManifest(next)
      /\ UNCHANGED <<active, pending, blob>>

----------------------------------------------------------------------------
(* Mutant of HttpPut: a short body is published.                           *)
HttpPutShort(n, c) ==
  /\ active
  /\ blob' = [blob EXCEPT ![n] = NoSha]
  /\ UNCHANGED <<active, st, pending, manifest>>

(* The loopback endpoint.  A PUT is published by one rename; a GET reads   *)
(* whatever the name holds and changes nothing.                            *)
HttpPut(n, c) ==
  /\ active
  /\ blob' = [blob EXCEPT ![n] = c]
  /\ UNCHANGED <<active, st, pending, manifest>>

HttpGet(n) == blob[n]

----------------------------------------------------------------------------
(* The process.  The backend lives inside the Steam client, so a crash and *)
(* an orderly Shutdown both end with the memory gone and the disk kept.    *)
Initialize ==
  /\ ~active
  /\ active' = TRUE
  /\ UNCHANGED <<st, pending, manifest, blob>>

LoseMemory ==
  /\ active' = FALSE
  /\ st' = Unloaded
  /\ pending' = NoFiles

Stop ==
  /\ active
  /\ LoseMemory
  /\ UNCHANGED <<manifest, blob>>

(* DeleteFile removes the blob before it saves the manifest; the process   *)
(* dies in between.                                                        *)
CrashInDelete(n) ==
  /\ active
  /\ GetState.files[n] # Absent
  /\ blob' = [blob EXCEPT ![n] = Absent]
  /\ LoseMemory
  /\ UNCHANGED manifest

----------------------------------------------------------------------------
Next ==
  \/ \E n \in Names :
       \/ \E r \in Records : BeginFileUpload(n, r)
       \/ CommitFailed(n)
       \/ CommitWithoutBlob(n)
       \/ \E root \in Roots, sha \in Shas \cup {NoSha} :
            CommitFileUpload(n, root, sha)
       \/ FileDownload(n)
       \/ DeleteFile(n)
       \/ \E c \in Shas : HttpPut(n, c)
       \/ CrashInDelete(n)
  \/ \E synced \in 0..MaxCn :
       \/ ChangelistUnchanged(synced)
       \/ \E listed \in SUBSET Names : ChangelistFull(synced, listed)
  \/ QuotaUsage
  \/ BeginBatch
  \/ CompleteBatch
  \/ Initialize
  \/ Stop

Spec == Init /\ [][Next]_vars

----------------------------------------------------------------------------
(* Properties.                                                             *)

FileMaps == [Names -> Records \cup {Absent}]

(* Every variable has the shape its declaration in CloudSaves.cpp gives    *)
(* it.                                                                     *)
TypeOK ==
  /\ active \in BOOLEAN
  /\ st \in [loaded : BOOLEAN, cn : Nat, inBatch : BOOLEAN, files : FileMaps]
  /\ pending \in FileMaps
  /\ manifest \in [cn : Nat, files : FileMaps]
  /\ blob \in [Names -> Shas \cup {Absent}]

(* What a client is entitled to rely on: the inventory and the number the  *)
(* next handler will work from.                                            *)
Inventory == GetState.files
Version   == GetState.cn

(* A handler has answered only after its change is on disk: whatever the   *)
(* memory says, a restart would load the same.  Holds when no manifest     *)
(* write fails.                                                            *)
MemoryIsDurable ==
  st.loaded => manifest = [cn |-> st.cn, files |-> st.files]

(* A change number, once issued, is never issued again and never goes      *)
(* back, whatever crashes: RpcBeginBatch, RpcCommitFileUpload,             *)
(* RpcDeleteFile and the adoption in RpcGetAppFileChangelist.              *)
VersionNeverGoesBack == [][Version' >= Version]_vars

(* The store implements the catalogue: no crash, at any point of any       *)
(* handler, changes what the client was told was stored.                   *)
Catalog == INSTANCE SaveCatalog WITH catalog <- Inventory, version <- Version

ImplementsCatalog == Catalog!Spec
=============================================================================
