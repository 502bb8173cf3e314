-------------------------- MODULE CloudSyncProofs ---------------------------
(***************************************************************************)
(* The cloud saves, for every set of names, roots and contents and every   *)
(* bound.                                                                  *)
(*                                                                         *)
(* The store alone: type correctness holds outright; durability, the       *)
(* monotone change number and the refinement of SaveCatalog hold when no   *)
(* manifest write fails, which the theorems state as ~DiskFails.           *)
(*                                                                         *)
(* The store and its client together: that a committed name holds          *)
(* the committed bytes and that a batch keeps its number hold outright.    *)
(* That "unchanged" is the truth, and that an omission deletes nothing the *)
(* client did not ask to delete, hold under TrustedStore; the first fails  *)
(* when any one of its conditions does.                                    *)
(***************************************************************************)
EXTENDS CloudSync, FiniteSetTheorems, SequenceTheorems, TLAPS

-----------------------------------------------------------------------------
(* The store alone.                                                        *)

AppStates == [loaded : BOOLEAN, cn : Nat, inBatch : BOOLEAN, files : FileMaps]

(* Recording or forgetting one name keeps a map of records one.            *)
LEMMA FileMapUpdate ==
  ASSUME NEW f \in FileMaps, NEW n \in Names,
         NEW r \in Records \cup {Absent}
  PROVE  [f EXCEPT ![n] = r] \in FileMaps
BY DEF FileMaps

(* The map without any record is one.                                      *)
LEMMA NoFilesType == NoFiles \in FileMaps
BY DEF NoFiles, FileMaps

(* GetState hands a handler a well-typed, loaded AppState, and running it  *)
(* twice is running it once.                                               *)
LEMMA GetStateType ==
  ASSUME TypeOK
  PROVE  /\ GetState \in AppStates
         /\ GetState.loaded
BY DEF TypeOK, GetState, AppStates

(* The record a commit stores is a FileRecord.                             *)
LEMMA CommitRecordType ==
  ASSUME TypeOK, NEW n \in Names, NEW root \in Roots,
         NEW sha \in Shas \cup {NoSha}
  PROVE  CommitRecord(n, root, sha) \in Records
BY SentinelsDistinct DEF TypeOK, FileMaps, CommitRecord, Records

(* The state a commit or a deletion leaves in memory is well-typed.        *)
LEMMA UpdateType ==
  ASSUME NEW s \in AppStates, NEW n \in Names,
         NEW r \in Records \cup {Absent}
  PROVE  /\ NextCn(s) \in {s.cn, s.cn + 1}
         /\ Change(s, n, r) \in AppStates
<1>1. [s.files EXCEPT ![n] = r] \in FileMaps
  BY FileMapUpdate DEF AppStates
<1>2. NextCn(s) \in Nat /\ NextCn(s) \in {s.cn, s.cn + 1}
  BY DEF AppStates, NextCn
<1> QED
  BY <1>1, <1>2 DEF AppStates, Change

(* So is the state a new batch leaves.                                     *)
LEMMA BeginType ==
  ASSUME NEW s \in AppStates
  PROVE  [s EXCEPT !.cn = s.cn + 1, !.inBatch = TRUE] \in AppStates
<1>1. s.cn + 1 \in Nat
  BY DEF AppStates
<1> QED
  BY <1>1 DEF AppStates

(* SaveManifest leaves the old manifest or writes the new one.             *)
LEMMA SaveManifestType ==
  ASSUME TypeOK, NEW s \in AppStates, SaveManifest(s)
  PROVE  manifest' \in [cn : Nat, files : FileMaps]
BY DEF TypeOK, SaveManifest, AppStates

(* What a crash or a shutdown leaves in memory is well-typed.              *)
LEMMA LoseMemoryType ==
  ASSUME LoseMemory
  PROVE  /\ active' \in BOOLEAN
         /\ st' \in AppStates
         /\ pending' \in FileMaps
BY NoFilesType DEF LoseMemory, Unloaded, AppStates

(* Type correctness is inductive on its own.                               *)
LEMMA TypeOKStep ==
  ASSUME TypeOK, [Next]_vars
  PROVE  TypeOK'
<1> USE DEF TypeOK
<1>1. GetState \in AppStates
  BY GetStateType
<1>2. ASSUME NEW n \in Names, NEW r \in Records, BeginFileUpload(n, r)
      PROVE  TypeOK'
  BY <1>2, FileMapUpdate DEF BeginFileUpload
<1>3. ASSUME NEW n \in Names, CommitFailed(n)
      PROVE  TypeOK'
  BY <1>3, FileMapUpdate DEF CommitFailed
<1>4. ASSUME NEW n \in Names, CommitWithoutBlob(n)
      PROVE  TypeOK'
  BY <1>4, FileMapUpdate DEF CommitWithoutBlob
<1>5. ASSUME NEW n \in Names, NEW root \in Roots, NEW sha \in Shas \cup {NoSha},
             CommitFileUpload(n, root, sha)
      PROVE  TypeOK'
  <2> DEFINE r == CommitRecord(n, root, sha)
             next == Change(GetState, n, r)
  <2>1. next \in AppStates
    BY <1>1, CommitRecordType, UpdateType
  <2>2. manifest' \in [cn : Nat, files : FileMaps]
    BY <1>5, <2>1, SaveManifestType DEF CommitFileUpload
  <2>3. st' = next /\ UNCHANGED <<active, blob>>
        /\ pending' = [pending EXCEPT ![n] = Absent]
    BY <1>5 DEF CommitFileUpload
  <2> QED
    BY <2>1, <2>2, <2>3, FileMapUpdate DEF AppStates
<1>6. ASSUME NEW n \in Names, FileDownload(n)
      PROVE  TypeOK'
  BY <1>1, <1>6 DEF FileDownload, AppStates
<1>7. ASSUME NEW n \in Names, DeleteFile(n)
      PROVE  TypeOK'
  <2> DEFINE next == Change(GetState, n, Absent)
  <2>1. next \in AppStates
    BY <1>1, UpdateType
  <2>2. CASE GetState.files[n] = Absent
    BY <1>1, <1>7, <2>2, FileMapUpdate DEF DeleteFile, AppStates
  <2>3. CASE GetState.files[n] # Absent
    <3>1. st' = next /\ SaveManifest(next) /\ UNCHANGED active
          /\ blob' = [blob EXCEPT ![n] = Absent]
          /\ pending' = [pending EXCEPT ![n] = Absent]
      BY <1>7, <2>3 DEF DeleteFile
    <3>2. manifest' \in [cn : Nat, files : FileMaps]
      BY <2>1, <3>1, SaveManifestType
    <3> QED
      BY <2>1, <3>1, <3>2, FileMapUpdate DEF AppStates
  <2> QED
    BY <2>2, <2>3
<1>8. ASSUME NEW n \in Names, NEW c \in Shas, HttpPut(n, c)
      PROVE  TypeOK'
  BY <1>8 DEF HttpPut
<1>9. ASSUME NEW n \in Names, CrashInDelete(n)
      PROVE  TypeOK'
  BY <1>9, LoseMemoryType DEF CrashInDelete, AppStates
<1>10. ASSUME NEW told \in 0..MaxCn, ChangelistUnchanged(told)
       PROVE  TypeOK'
  <2> DEFINE next == [GetState EXCEPT !.cn = told]
  <2>0. told \in Nat
    BY BoundsOK
  <2>1. next \in AppStates
    BY <1>1, <2>0 DEF AppStates
  <2>2. st' = next /\ UNCHANGED <<active, pending, blob>>
        /\ (SaveManifest(next) \/ UNCHANGED manifest)
    BY <1>10 DEF ChangelistUnchanged
  <2>3. manifest' \in [cn : Nat, files : FileMaps]
    BY <2>1, <2>2, SaveManifestType
  <2> QED
    BY <2>1, <2>2, <2>3 DEF AppStates
<1>11. ASSUME NEW told, NEW listed, ChangelistFull(told, listed)
       PROVE  TypeOK'
  BY <1>1, <1>11 DEF ChangelistFull, AppStates
<1>12. CASE QuotaUsage
  BY <1>1, <1>12 DEF QuotaUsage, AppStates
<1>13. CASE BeginBatch
  <2> DEFINE next == [GetState EXCEPT !.cn = GetState.cn + 1, !.inBatch = TRUE]
  <2>1. next \in AppStates
    BY <1>1, BeginType
  <2>2. st' = next /\ SaveManifest(next) /\ UNCHANGED <<active, pending, blob>>
    BY <1>13 DEF BeginBatch
  <2>3. manifest' \in [cn : Nat, files : FileMaps]
    BY <2>1, <2>2, SaveManifestType
  <2> QED
    BY <2>1, <2>2, <2>3 DEF AppStates
<1>14. CASE CompleteBatch
  <2> DEFINE next == [GetState EXCEPT !.inBatch = FALSE]
  <2>1. next \in AppStates
    BY <1>1 DEF AppStates
  <2>2. st' = next /\ SaveManifest(next) /\ UNCHANGED <<active, pending, blob>>
    BY <1>14 DEF CompleteBatch
  <2>3. manifest' \in [cn : Nat, files : FileMaps]
    BY <2>1, <2>2, SaveManifestType
  <2> QED
    BY <2>1, <2>2, <2>3 DEF AppStates
<1>15. CASE Initialize
  BY <1>15 DEF Initialize
<1>16. CASE Stop
  BY <1>16, LoseMemoryType DEF Stop, AppStates
<1>17. CASE UNCHANGED vars
  BY <1>17 DEF vars
<1> QED
  BY <1>2, <1>3, <1>4, <1>5, <1>6, <1>7, <1>8, <1>9, <1>10, <1>11, <1>12,
     <1>13, <1>14, <1>15, <1>16, <1>17 DEF Next

(* The first state is well-typed.                                          *)
LEMMA TypeOKInit == Init => TypeOK
<1> SUFFICES ASSUME Init PROVE TypeOK
  OBVIOUS
<1> QED
  BY NoFilesType DEF Init, TypeOK, Unloaded, NoFiles

(* Every variable keeps the shape its declaration in CloudSaves.cpp gives  *)
(* it.                                                                     *)
THEOREM TypeCorrect == Spec => []TypeOK
BY TypeOKInit, TypeOKStep, PTL DEF Spec

----------------------------------------------------------------------------
(* Durability, when no manifest write fails.  The invariant that carries   *)
(* everything below: whatever memory says, a restart would load the same.  *)
DurableInv == TypeOK /\ MemoryIsDurable

(* A handler that writes the manifest leaves it equal to what it leaves in *)
(* memory.                                                                 *)
LEMMA SavedIsDurable ==
  ASSUME ~DiskFails, NEW s \in AppStates, SaveManifest(s), st' = s
  PROVE  MemoryIsDurable'
BY DEF SaveManifest, MemoryIsDurable

(* A handler that only loads the entry leaves the two equal.               *)
LEMMA LoadedIsDurable ==
  ASSUME DurableInv, st' = GetState, UNCHANGED manifest
  PROVE  MemoryIsDurable'
BY DEF DurableInv, TypeOK, MemoryIsDurable, GetState

(* Every handler keeps memory and manifest equal, or drops the memory.     *)
LEMMA DurableStep ==
  ASSUME ~DiskFails, DurableInv, [Next]_vars
  PROVE  DurableInv'
<1>1. TypeOK /\ MemoryIsDurable
  BY DEF DurableInv
<1>2. TypeOK'
  BY <1>1, TypeOKStep
<1>3. GetState \in AppStates
  BY <1>1, GetStateType
<1>4. ASSUME UNCHANGED <<st, manifest>>
      PROVE  MemoryIsDurable'
  BY <1>1, <1>4 DEF MemoryIsDurable
<1>5. ASSUME NEW n \in Names, NEW r \in Records, BeginFileUpload(n, r)
      PROVE  MemoryIsDurable'
  BY <1>4, <1>5 DEF BeginFileUpload
<1>6. ASSUME NEW n \in Names, CommitFailed(n) \/ CommitWithoutBlob(n)
      PROVE  MemoryIsDurable'
  BY <1>4, <1>6 DEF CommitFailed, CommitWithoutBlob
<1>7. ASSUME NEW n \in Names, NEW root \in Roots, NEW sha \in Shas \cup {NoSha},
             CommitFileUpload(n, root, sha)
      PROVE  MemoryIsDurable'
  <2>1. Change(GetState, n, CommitRecord(n, root, sha)) \in AppStates
    BY <1>1, <1>3, CommitRecordType, UpdateType
  <2> QED
    BY <1>7, <2>1, SavedIsDurable DEF CommitFileUpload
<1>8. ASSUME NEW n \in Names, FileDownload(n)
      PROVE  MemoryIsDurable'
  BY <1>8, LoadedIsDurable DEF FileDownload
<1>9. ASSUME NEW n \in Names, DeleteFile(n)
      PROVE  MemoryIsDurable'
  <2>1. CASE GetState.files[n] = Absent
    BY <1>9, <2>1, LoadedIsDurable DEF DeleteFile
  <2>2. CASE GetState.files[n] # Absent
    <3>1. Change(GetState, n, Absent) \in AppStates
      BY <1>3, UpdateType
    <3> QED
      BY <1>9, <2>2, <3>1, SavedIsDurable DEF DeleteFile
  <2> QED
    BY <2>1, <2>2
<1>10. ASSUME NEW n \in Names, NEW c \in Shas, HttpPut(n, c)
       PROVE  MemoryIsDurable'
  BY <1>4, <1>10 DEF HttpPut
<1>11. ASSUME LoseMemory
       PROVE  MemoryIsDurable'
  BY <1>11 DEF LoseMemory, Unloaded, MemoryIsDurable
<1>12. ASSUME NEW told \in 0..MaxCn, ChangelistUnchanged(told)
       PROVE  MemoryIsDurable'
  <2> DEFINE next == [GetState EXCEPT !.cn = told]
  <2>0. told \in Nat
    BY BoundsOK
  <2>1. next \in AppStates /\ st' = next
    BY <1>3, <1>12, <2>0 DEF AppStates, ChangelistUnchanged
  <2>2. CASE told > GetState.cn
    <3>1. SaveManifest(next)
      BY <1>12, <2>2 DEF ChangelistUnchanged
    <3> QED
      BY <2>1, <3>1, SavedIsDurable
  <2>3. CASE ~(told > GetState.cn)
    <3>1. told = GetState.cn /\ UNCHANGED manifest
      BY <1>3, <1>12, <2>3, BoundsOK DEF AppStates, ChangelistUnchanged
    <3>2. next = GetState
      BY <1>3, <3>1 DEF AppStates
    <3> QED
      BY <2>1, <3>1, <3>2, LoadedIsDurable
  <2> QED
    BY <2>2, <2>3
<1>13. ASSUME NEW told, NEW listed, ChangelistFull(told, listed)
       PROVE  MemoryIsDurable'
  BY <1>13, LoadedIsDurable DEF ChangelistFull
<1>14. ASSUME QuotaUsage
       PROVE  MemoryIsDurable'
  BY <1>14, LoadedIsDurable DEF QuotaUsage
<1>15. ASSUME BeginBatch
       PROVE  MemoryIsDurable'
  <2> DEFINE next == [GetState EXCEPT !.cn = GetState.cn + 1, !.inBatch = TRUE]
  <2>1. next \in AppStates
    BY <1>3, BeginType
  <2>2. st' = next /\ SaveManifest(next)
    BY <1>15 DEF BeginBatch
  <2> QED
    BY <2>1, <2>2, SavedIsDurable
<1>16. ASSUME CompleteBatch
       PROVE  MemoryIsDurable'
  <2> DEFINE next == [GetState EXCEPT !.inBatch = FALSE]
  <2>1. next \in AppStates
    BY <1>3 DEF AppStates
  <2>2. st' = next /\ SaveManifest(next)
    BY <1>16 DEF CompleteBatch
  <2> QED
    BY <2>1, <2>2, SavedIsDurable
<1>17. ASSUME Initialize \/ UNCHANGED vars
       PROVE  MemoryIsDurable'
  BY <1>4, <1>17 DEF Initialize, vars
<1>18. ASSUME Stop \/ \E n \in Names : CrashInDelete(n)
       PROVE  MemoryIsDurable'
  BY <1>11, <1>18 DEF Stop, CrashInDelete
<1>19. MemoryIsDurable'
  BY <1>5, <1>6, <1>7, <1>8, <1>9, <1>10, <1>12, <1>13, <1>14, <1>15, <1>16,
     <1>17, <1>18 DEF Next
<1> QED
  BY <1>2, <1>19 DEF DurableInv

(* Nothing is in memory at first.                                          *)
LEMMA DurableInit == Init => DurableInv
<1>1. Init => TypeOK
  BY TypeOKInit
<1>2. Init => MemoryIsDurable
  BY DEF Init, MemoryIsDurable, Unloaded
<1> QED
  BY <1>1, <1>2 DEF DurableInv

(* A handler has answered only once its change is on disk: as long as      *)
(* WriteAtomic succeeds, a restart loads exactly what memory held.         *)
THEOREM AnswersAreDurable ==
  ASSUME ~DiskFails
  PROVE  Spec => []MemoryIsDurable
<1>1. DurableInv => MemoryIsDurable
  BY DEF DurableInv
<1>2. DurableInv /\ [Next]_vars => DurableInv'
  BY DurableStep
<1> QED
  BY <1>1, <1>2, DurableInit, PTL DEF Spec

----------------------------------------------------------------------------
(* The refinement.  While writes succeed, what a client may rely on is     *)
(* what the manifest says, so a step matters only if it writes it.         *)
LEMMA InventoryIsManifest ==
  ASSUME DurableInv
  PROVE  Inventory = manifest.files /\ Version = manifest.cn
BY DEF DurableInv, MemoryIsDurable, Inventory, Version, GetState

(* The same, one step later.                                               *)
LEMMA InventoryIsManifestNext ==
  ASSUME DurableInv'
  PROVE  Inventory' = manifest'.files /\ Version' = manifest'.cn
BY DEF DurableInv, MemoryIsDurable, Inventory, Version, GetState

(* A handler that changes one record publishes or retracts it.             *)
LEMMA ChangeIsCatalogStep ==
  ASSUME DurableInv, DurableInv', ~DiskFails,
         NEW n \in Names, NEW r \in Records \cup {Absent},
         r = Absent => Inventory[n] # Absent,
         SaveManifest(Change(GetState, n, r))
  PROVE  Catalog!Next
<1> DEFINE next == Change(GetState, n, r)
<1>1. GetState \in AppStates
  BY GetStateType DEF DurableInv
<1>2. manifest' = [cn |-> next.cn, files |-> next.files]
  BY DEF SaveManifest
<1>3. next.files = [GetState.files EXCEPT ![n] = r] /\ next.cn = NextCn(GetState)
  BY <1>1 DEF Change, AppStates
<1>4. Inventory' = [Inventory EXCEPT ![n] = r]
  BY <1>2, <1>3, InventoryIsManifestNext DEF Inventory
<1>5. Version' \in {Version, Version + 1}
  BY <1>1, <1>2, <1>3, UpdateType, InventoryIsManifestNext DEF Version
<1>6. CASE r = Absent
  BY <1>4, <1>5, <1>6 DEF Catalog!Next, Catalog!Retract
<1>7. CASE r # Absent
  BY <1>4, <1>5, <1>7 DEF Catalog!Next, Catalog!Publish
<1> QED
  BY <1>6, <1>7

(* A handler that moves only the number moves it up.                       *)
LEMMA RenumberIsCatalogStep ==
  ASSUME DurableInv, DurableInv', NEW s \in AppStates,
         manifest' = [cn |-> s.cn, files |-> s.files],
         s.files = GetState.files, s.cn >= GetState.cn
  PROVE  Catalog!Next \/ UNCHANGED <<Inventory, Version>>
<1>1. GetState \in AppStates
  BY GetStateType DEF DurableInv
<1>2. Inventory' = Inventory /\ Version' = s.cn
  BY InventoryIsManifestNext DEF Inventory
<1>3. Version' > Version \/ Version' = Version
  BY <1>1, <1>2 DEF Version, AppStates
<1> QED
  BY <1>2, <1>3 DEF Catalog!Next, Catalog!Renumber

(* Every step of the store is one of the catalogue, or invisible there.    *)
LEMMA CatalogStep ==
  ASSUME ~DiskFails, DurableInv, [Next]_vars
  PROVE  Catalog!Next \/ UNCHANGED <<Inventory, Version>>
<1>1. DurableInv'
  BY DurableStep
<1>2. TypeOK /\ GetState \in AppStates
  BY GetStateType DEF DurableInv
<1>3. ASSUME UNCHANGED manifest
      PROVE  UNCHANGED <<Inventory, Version>>
  BY <1>1, <1>3, InventoryIsManifest, InventoryIsManifestNext
<1>4. ASSUME NEW n \in Names, NEW root \in Roots, NEW sha \in Shas \cup {NoSha},
             CommitFileUpload(n, root, sha)
      PROVE  Catalog!Next
  <2>1. CommitRecord(n, root, sha) \in Records
    BY <1>2, CommitRecordType
  <2>2. CommitRecord(n, root, sha) # Absent
    BY <2>1, SentinelsDistinct DEF Records
  <2>3. SaveManifest(Change(GetState, n, CommitRecord(n, root, sha)))
    BY <1>4 DEF CommitFileUpload
  <2> QED
    BY <1>1, <2>1, <2>2, <2>3, ChangeIsCatalogStep
<1>5. ASSUME NEW n \in Names, DeleteFile(n)
      PROVE  Catalog!Next \/ UNCHANGED <<Inventory, Version>>
  <2>1. CASE GetState.files[n] = Absent
    BY <1>3, <1>5, <2>1 DEF DeleteFile
  <2>2. CASE GetState.files[n] # Absent
    <3>1. SaveManifest(Change(GetState, n, Absent))
      BY <1>5, <2>2 DEF DeleteFile
    <3> QED
      BY <1>1, <2>2, <3>1, ChangeIsCatalogStep DEF Inventory
  <2> QED
    BY <2>1, <2>2
<1>6. ASSUME NEW told \in 0..MaxCn, ChangelistUnchanged(told)
      PROVE  Catalog!Next \/ UNCHANGED <<Inventory, Version>>
  <2> DEFINE next == [GetState EXCEPT !.cn = told]
  <2>1. told \in Nat
    BY BoundsOK
  <2>2. /\ next \in AppStates
        /\ next.files = GetState.files
        /\ next.cn = told
        /\ told >= GetState.cn
    BY <1>2, <1>6, <2>1 DEF AppStates, ChangelistUnchanged
  <2>3. CASE told > GetState.cn
    <3>1. manifest' = [cn |-> next.cn, files |-> next.files]
      BY <1>6, <2>3 DEF ChangelistUnchanged, SaveManifest
    <3> HIDE DEF next
    <3>2. next.cn >= GetState.cn
      BY <2>2
    <3> QED
      BY <1>1, <2>2, <3>1, <3>2, RenumberIsCatalogStep
  <2>4. CASE ~(told > GetState.cn)
    BY <1>3, <1>6, <2>4 DEF ChangelistUnchanged
  <2> QED
    BY <2>3, <2>4
<1>7. ASSUME BeginBatch
      PROVE  Catalog!Next \/ UNCHANGED <<Inventory, Version>>
  <2> DEFINE next == [GetState EXCEPT !.cn = GetState.cn + 1, !.inBatch = TRUE]
  <2>1. /\ next \in AppStates
        /\ next.files = GetState.files
        /\ next.cn = GetState.cn + 1
        /\ GetState.cn \in Nat
    BY <1>2, BeginType DEF AppStates
  <2>2. manifest' = [cn |-> next.cn, files |-> next.files]
    BY <1>7 DEF BeginBatch, SaveManifest
  <2> HIDE DEF next
  <2>3. next.cn >= GetState.cn
    BY <2>1
  <2> QED
    BY <1>1, <2>1, <2>2, <2>3, RenumberIsCatalogStep
<1>8. ASSUME CompleteBatch
      PROVE  Catalog!Next \/ UNCHANGED <<Inventory, Version>>
  <2> DEFINE next == [GetState EXCEPT !.inBatch = FALSE]
  <2>1. /\ next \in AppStates
        /\ next.files = GetState.files
        /\ next.cn = GetState.cn
        /\ GetState.cn \in Nat
    BY <1>2 DEF AppStates
  <2>2. manifest' = [cn |-> next.cn, files |-> next.files]
    BY <1>8 DEF CompleteBatch, SaveManifest
  <2> HIDE DEF next
  <2>3. next.cn >= GetState.cn
    BY <2>1
  <2> QED
    BY <1>1, <2>1, <2>2, <2>3, RenumberIsCatalogStep
<1>9. ASSUME NEW n \in Names,
             \/ \E r \in Records : BeginFileUpload(n, r)
             \/ CommitFailed(n)
             \/ CommitWithoutBlob(n)
             \/ FileDownload(n)
             \/ \E c \in Shas : HttpPut(n, c)
             \/ CrashInDelete(n)
      PROVE  UNCHANGED manifest
  BY <1>9 DEF BeginFileUpload, CommitFailed, CommitWithoutBlob, FileDownload,
              HttpPut, CrashInDelete
<1>10. ASSUME \/ \E told \in 0..MaxCn : \E listed \in SUBSET Names :
                    ChangelistFull(told, listed)
              \/ QuotaUsage
              \/ Initialize
              \/ Stop
              \/ UNCHANGED vars
       PROVE  UNCHANGED manifest
  BY <1>10 DEF ChangelistFull, QuotaUsage, Initialize, Stop, vars
<1> QED
  BY <1>3, <1>4, <1>5, <1>6, <1>7, <1>8, <1>9, <1>10 DEF Next

(* No crash, at any point of any handler, changes what the client was told *)
(* is stored: CloudSaves.cpp implements the catalogue.                     *)
THEOREM StoreImplementsCatalog ==
  ASSUME ~DiskFails
  PROVE  Spec => ImplementsCatalog
<1>1. Init => Catalog!Init
  BY DEF Init, Catalog!Init, Inventory, Version, GetState, Unloaded, NoFiles
<1>2. DurableInv /\ [Next]_vars => DurableInv'
  BY DurableStep
<1>3. DurableInv /\ [Next]_vars => [Catalog!Next]_(Catalog!vars)
  BY CatalogStep DEF Catalog!vars
<1> QED
  BY <1>1, <1>2, <1>3, DurableInit, PTL DEF Spec, ImplementsCatalog, Catalog!Spec

(* A change number, once on disk, never goes back.                         *)
THEOREM VersionMonotone ==
  ASSUME ~DiskFails
  PROVE  Spec => VersionNeverGoesBack
<1>1. DurableInv /\ [Next]_vars => DurableInv'
  BY DurableStep
<1>2. ASSUME DurableInv, [Next]_vars
      PROVE  Version' >= Version
  <2>1. Version \in Nat
    BY <1>2, GetStateType DEF DurableInv, Version, AppStates
  <2>2. Catalog!Next => Version' >= Version
    <3>1. Catalog!Next => Version' \in {Version, Version + 1} \/ Version' > Version
      BY DEF Catalog!Next, Catalog!Publish, Catalog!Retract, Catalog!Renumber
    <3> QED
      BY <2>1, <3>1, <1>2, DurableStep, InventoryIsManifestNext
         DEF DurableInv, TypeOK
  <2> QED
    BY <1>2, <2>1, <2>2, CatalogStep
<1>3. DurableInv /\ [Next]_vars => [Version' >= Version]_vars
  BY <1>2
<1> QED
  BY <1>1, <1>3, DurableInit, PTL DEF Spec, VersionNeverGoesBack

-----------------------------------------------------------------------------
(* The store and its client.                                               *)

(* No manifest write fails, the client has no history from elsewhere and   *)
(* writes only inside batches, and the inventory fits the reply.           *)
TrustedStore ==
  /\ ~DiskFails
  /\ ForeignCn = 0
  /\ ~LooseCommits
  /\ IsFiniteSet(Names)
  /\ Cardinality(Names) <= MaxListed

----------------------------------------------------------------------------
(* The inductive invariant, by what each part relates.  The first half     *)
(* needs no condition.                                                     *)

(* Every file recorded has a content the client gave it, under a number    *)
(* within the bound.                                                       *)
Sound(s) ==
  /\ s.cn <= MaxCn
  /\ \A n \in Names : s.files[n] # Absent => s.files[n].sha \in Shas

StoreSound == Sound(st) /\ Sound(manifest)

(* The client's open batch is the store's, under the same number.          *)
BatchInv == phase = "batch" => st.loaded /\ st.inBatch /\ goal = Version

(* The upload in progress owns the last PUT queued, and once its bytes     *)
(* arrived there is no other.                                              *)
UploadInv ==
  /\ cur # NoUpload /\ puts # <<>> =>
       puts[Len(puts)] = [name |-> cur.name, sha |-> cur.sha]
  /\ cur.stored => puts = <<>> /\ blob[cur.name] = cur.sha

ClientInv == SyncTypeOK /\ BatchInv /\ UploadInv

(* The second half is what TrustedStore adds.  The client never runs ahead *)
(* of the store; what its phase says of the number.                        *)
PhaseInv ==
  /\ synced <= Version
  /\ phase = "ready" => synced = Version
  /\ phase = "apply" => goal = Version
  /\ phase \in {"apply", "batch"} => synced < Version
  /\ cur # NoUpload => phase = "batch"

(* What the client last saw in sync is what the store holds: outright when *)
(* it is at the store's number or has a batch open, but for the downloads  *)
(* to come while it applies an inventory, and otherwise but for changes    *)
(* the client asked for and had no reply to.                               *)
BaseInv ==
  /\ synced = Version \/ phase = "batch" =>
       \A n \in Names : base[n] = StoredSha(n)
  /\ phase = "apply" => \A n \in Names \ gets : base[n] = StoredSha(n)
  /\ \A n \in Names : StoredSha(n) = Absent /\ base[n] # Absent => n \in asked

AgreementInv == PhaseInv /\ BaseInv

FreeInv == ClientInv /\ StoreSound

SyncInv == FreeInv /\ MemoryIsDurable /\ AgreementInv

----------------------------------------------------------------------------
(* What each kind of handler does to the inventory, the number and the     *)
(* open batch.                                                             *)

(* A handler that at most loads the entry shows every client the same.     *)
LEMMA LoadingIsInvisible ==
  ASSUME TypeOK, UNCHANGED manifest, st' \in {st, GetState}
  PROVE  /\ Inventory' = Inventory
         /\ Version' = Version
         /\ \A n \in Names : StoredSha(n)' = StoredSha(n)
<1>1. GetState' = GetState
  BY DEF TypeOK, GetState
<1> QED
  BY <1>1 DEF Inventory, Version, StoredSha

(* So does a process that dies with its memory equal to the manifest.      *)
LEMMA DyingIsInvisible ==
  ASSUME DurableInv, LoseMemory, UNCHANGED manifest
  PROVE  /\ Inventory' = Inventory
         /\ Version' = Version
         /\ \A n \in Names : StoredSha(n)' = StoredSha(n)
<1>1. GetState.files = manifest.files /\ GetState.cn = manifest.cn
  BY InventoryIsManifest DEF Inventory, Version
<1>2. GetState'.files = manifest.files /\ GetState'.cn = manifest.cn
  BY DEF LoseMemory, Unloaded, GetState
<1> QED
  BY <1>1, <1>2 DEF Inventory, Version, StoredSha

(* Inside a batch a commit or a deletion changes one record and no number. *)
LEMMA ChangeInBatch ==
  ASSUME TypeOK, st.loaded, st.inBatch,
         NEW n \in Names, NEW r \in Records \cup {Absent},
         st' = Change(GetState, n, r)
  PROVE  /\ st'.loaded /\ st'.inBatch
         /\ Version' = Version
         /\ Inventory' = [Inventory EXCEPT ![n] = r]
         /\ StoredSha(n)' = IF r = Absent THEN Absent ELSE r.sha
         /\ \A m \in Names \ {n} : StoredSha(m)' = StoredSha(m)
<1>1. GetState = st /\ GetState \in AppStates
  BY GetStateType DEF GetState
<1>2. /\ st'.loaded /\ st'.inBatch
      /\ st'.cn = st.cn
      /\ st'.files = [st.files EXCEPT ![n] = r]
  BY <1>1 DEF Change, NextCn, AppStates
<1>3. GetState' = st'
  BY <1>2 DEF GetState
<1>4. Version' = Version /\ Inventory' = [Inventory EXCEPT ![n] = r]
  BY <1>1, <1>2, <1>3 DEF Version, Inventory
<1>5. Inventory'[n] = r /\ \A m \in Names \ {n} : Inventory'[m] = Inventory[m]
  BY <1>1, <1>4 DEF Inventory, AppStates, FileMaps
<1> QED
  BY <1>2, <1>4, <1>5 DEF StoredSha

(* Opening a batch claims the next number and touches no record.           *)
LEMMA BeginBatchEffect ==
  ASSUME TypeOK, BeginBatch
  PROVE  /\ st'.loaded /\ st'.inBatch
         /\ Version' = Version + 1
         /\ Version' <= MaxCn
         /\ Inventory' = Inventory
         /\ \A n \in Names : StoredSha(n)' = StoredSha(n)
<1>1. GetState \in AppStates /\ GetState.loaded
  BY GetStateType
<1>2. /\ st' = [GetState EXCEPT !.cn = GetState.cn + 1, !.inBatch = TRUE]
      /\ GetState.cn < MaxCn
  BY DEF BeginBatch
<1>3. /\ st'.loaded /\ st'.inBatch
      /\ st'.cn = GetState.cn + 1
      /\ st'.files = GetState.files
  BY <1>1, <1>2 DEF AppStates
<1>4. GetState' = st'
  BY <1>3 DEF GetState
<1>5. Inventory' = Inventory /\ Version' = Version + 1
  BY <1>3, <1>4 DEF Inventory, Version
<1>6. GetState.cn \in Nat /\ MaxCn \in Nat
  BY <1>1, BoundsOK DEF AppStates
<1> QED
  BY <1>2, <1>3, <1>5, <1>6 DEF StoredSha, Version

(* Closing it touches neither.                                             *)
LEMMA CompleteBatchEffect ==
  ASSUME TypeOK, CompleteBatch
  PROVE  /\ Version' = Version
         /\ Inventory' = Inventory
         /\ \A n \in Names : StoredSha(n)' = StoredSha(n)
<1>1. GetState \in AppStates /\ GetState.loaded
  BY GetStateType
<1>2. st' = [GetState EXCEPT !.inBatch = FALSE]
  BY DEF CompleteBatch
<1>3. st'.loaded /\ st'.cn = GetState.cn /\ st'.files = GetState.files
  BY <1>1, <1>2 DEF AppStates
<1>4. GetState' = st'
  BY <1>3 DEF GetState
<1> QED
  BY <1>3, <1>4 DEF Inventory, Version, StoredSha

(* The client asks only what the store's own specification allows: a step  *)
(* of the two together is a step of the store, or invisible to it.         *)
LEMMA SyncStepIsStoreStep ==
  ASSUME SyncTypeOK, [SyncNext]_syncVars
  PROVE  [Next]_vars
<1>1. CASE UNCHANGED syncVars
  BY <1>1 DEF syncVars
<1>2. CASE SyncUnchanged
  BY <1>2 DEF SyncTypeOK, SyncUnchanged, Next
<1>3. ASSUME NEW listed \in SUBSET Names, NEW theirs \in SUBSET Names,
             SyncFull(listed, theirs)
      PROVE  Next
  BY <1>3 DEF SyncTypeOK, SyncFull, Next
<1>4. ASSUME NEW n \in Names, Download(n)
      PROVE  Next
  BY <1>4 DEF Download, Next
<1>5. ASSUME NEW n \in Names, Upload(n)
      PROVE  Next
  <2>1. [root |-> NoRoot, sha |-> local[n]] \in Records
    BY <1>5, SentinelsDistinct DEF Upload, SyncTypeOK, Contents, Records
  <2> QED
    BY <1>5, <2>1 DEF Upload, Next
<1>6. ASSUME NEW n \in Names, StoreRemove(n)
      PROVE  Next
  BY <1>6 DEF StoreRemove, Next
<1>7. CASE OpenBatch
  BY <1>7 DEF OpenBatch, Next
<1>8. CASE ServePut
  <2>1. Head(puts) \in [name : Names, sha : Shas]
    BY <1>8, HeadTailProperties DEF ServePut, SyncTypeOK
  <2> QED
    BY <1>8, <2>1 DEF ServePut, Next
<1>9. CASE RefusePut
  BY <1>9 DEF RefusePut, vars
<1>10. ASSUME StoreCommit
       PROVE  Next
  <2>1. cur.name \in Names /\ cur.sha \in Shas
    BY <1>10 DEF StoreCommit, SyncTypeOK, NoUpload, Uploads
  <2> QED
    BY <1>10, <2>1, SentinelsDistinct DEF StoreCommit, Next
<1>11. CASE UploadFails
  <2>1. cur.name \in Names
    BY <1>11 DEF UploadFails, SyncTypeOK, Uploads
  <2> QED
    BY <1>11, <2>1 DEF UploadFails, Next
<1>12. ASSUME StoreComplete
       PROVE  Next
  BY <1>12 DEF StoreComplete, Next
<1>13. CASE LostReply
  BY <1>6, <1>10, <1>12, <1>13 DEF LostReply, Next
<1>14. CASE Crash
  BY <1>14 DEF Crash, Next
<1>15. CASE Restart
  BY <1>15 DEF Restart, Next
<1>16. CASE Applied \/ Abandon \/ \E n \in Names, c \in Contents : Play(n, c)
  BY <1>16 DEF Applied, Abandon, Play
<1>17. CASE Commit
  BY <1>10, <1>17 DEF Commit
<1>18. CASE CloseBatch
  BY <1>12, <1>18 DEF CloseBatch
<1>19. ASSUME NEW n \in Names, Remove(n)
       PROVE  Next
  BY <1>6, <1>19 DEF Remove
<1> QED
  BY <1>1, <1>2, <1>3, <1>4, <1>5, <1>7, <1>8, <1>9, <1>11, <1>13, <1>14, <1>15,
     <1>16, <1>17, <1>18, <1>19 DEF SyncNext

(* Numbers are naturals.                                                   *)
LEMMA VersionIsNat ==
  ASSUME TypeOK
  PROVE  Version \in Nat /\ MaxCn \in Nat
BY GetStateType, BoundsOK DEF Version, AppStates

----------------------------------------------------------------------------
(* The first half.  What a handler works from is sound, and a sound state  *)
(* it leaves, saved or not, keeps both copies sound.                       *)
LEMMA GetStateSound ==
  ASSUME TypeOK, StoreSound
  PROVE  Sound(GetState)
BY DEF StoreSound, Sound, GetState

LEMMA SavingKeepsSound ==
  ASSUME StoreSound, NEW s, Sound(s), st' = s,
         SaveManifest(s) \/ UNCHANGED manifest
  PROVE  StoreSound'
BY DEF StoreSound, Sound, SaveManifest

LEMMA LoadingKeepsSound ==
  ASSUME TypeOK, StoreSound, st' \in {st, GetState}, UNCHANGED manifest
  PROVE  StoreSound'
BY GetStateSound DEF StoreSound, Sound

LEMMA DyingKeepsSound ==
  ASSUME StoreSound, LoseMemory, UNCHANGED manifest
  PROVE  StoreSound'
BY BoundsOK DEF StoreSound, Sound, LoseMemory, Unloaded, NoFiles

(* A record is changed to one with a content, or taken away.               *)
LEMMA ChangeKeepsSound ==
  ASSUME TypeOK, StoreSound, NEW n \in Names, NEW r \in Records \cup {Absent},
         r # Absent => r.sha \in Shas,
         NextCn(GetState) <= MaxCn,
         st' = Change(GetState, n, r), SaveManifest(Change(GetState, n, r))
  PROVE  StoreSound'
<1> DEFINE next == Change(GetState, n, r)
<1>1. GetState \in AppStates /\ Sound(GetState)
  BY GetStateType, GetStateSound
<1>2. next.cn = NextCn(GetState) /\ next.files = [GetState.files EXCEPT ![n] = r]
  BY <1>1 DEF Change, AppStates
<1>3. Sound(next)
  BY <1>1, <1>2 DEF Sound, AppStates, FileMaps
<1> QED
  BY <1>3, SavingKeepsSound

(* The client's commit is the upload it announced, whatever the            *)
(* announcement still says.                                                *)
LEMMA ClientCommit ==
  ASSUME SyncTypeOK, StoreCommit
  PROVE  /\ cur \in Uploads
         /\ CommitFileUpload(cur.name, NoRoot, cur.sha)
         /\ asked' = asked \ {cur.name}
         /\ CommitRecord(cur.name, NoRoot, cur.sha) \in Records
         /\ CommitRecord(cur.name, NoRoot, cur.sha) # Absent
         /\ CommitRecord(cur.name, NoRoot, cur.sha).sha = cur.sha
<1>1. /\ cur.stored /\ CommitFileUpload(cur.name, NoRoot, cur.sha)
      /\ asked' = asked \ {cur.name}
  BY DEF StoreCommit
<1>2. cur \in Uploads
  BY <1>1 DEF SyncTypeOK, NoUpload
<1>3. cur.name \in Names /\ cur.sha \in Shas
  BY <1>2 DEF Uploads
<1>4. CommitRecord(cur.name, NoRoot, cur.sha) \in Records
  BY <1>3, CommitRecordType, SentinelsDistinct DEF SyncTypeOK
<1>5. CommitRecord(cur.name, NoRoot, cur.sha).sha = cur.sha
  BY <1>3, SentinelsDistinct DEF CommitRecord
<1> QED
  BY <1>1, <1>2, <1>4, <1>5, SentinelsDistinct DEF Records

LEMMA StoreSoundStep ==
  ASSUME SyncTypeOK, StoreSound, [SyncNext]_syncVars
  PROVE  StoreSound'
<1>1. TypeOK /\ GetState \in AppStates /\ Sound(GetState)
  BY GetStateType, GetStateSound DEF SyncTypeOK
<1>2. ASSUME UNCHANGED <<st, manifest>>
      PROVE  StoreSound'
  BY <1>1, <1>2, LoadingKeepsSound
<1>3. ASSUME StoreCommit
      PROVE  StoreSound'
  <2> DEFINE r == CommitRecord(cur.name, NoRoot, cur.sha)
  <2>1. /\ cur.name \in Names /\ r \in Records /\ r.sha \in Shas
        /\ CommitFileUpload(cur.name, NoRoot, cur.sha)
    BY <1>3, ClientCommit DEF Uploads
  <2>2. /\ NextCn(GetState) <= MaxCn
        /\ st' = Change(GetState, cur.name, r)
        /\ SaveManifest(Change(GetState, cur.name, r))
    BY <2>1 DEF CommitFileUpload
  <2> HIDE DEF r
  <2>3. Sound(Change(GetState, cur.name, r))
    BY <1>1, <2>1, <2>2 DEF Sound, Change, AppStates, FileMaps
  <2> QED
    BY <2>2, <2>3, SavingKeepsSound
<1>4. ASSUME NEW n \in Names, StoreRemove(n)
      PROVE  StoreSound'
  <2>1. CASE GetState.files[n] = Absent
    BY <1>1, <1>4, <2>1, LoadingKeepsSound DEF StoreRemove, DeleteFile
  <2>2. CASE GetState.files[n] # Absent
    BY <1>1, <1>4, <2>2, ChangeKeepsSound DEF StoreRemove, DeleteFile
  <2> QED
    BY <2>1, <2>2
<1>5. ASSUME BeginBatch
      PROVE  StoreSound'
  <2> DEFINE next == [GetState EXCEPT !.cn = GetState.cn + 1, !.inBatch = TRUE]
  <2>1. GetState.cn < MaxCn /\ st' = next /\ SaveManifest(next)
    BY <1>5 DEF BeginBatch
  <2>2. next.cn = GetState.cn + 1 /\ next.files = GetState.files
    BY <1>1 DEF AppStates
  <2>3. Sound(next)
    BY <1>1, <2>1, <2>2, BoundsOK DEF Sound, AppStates
  <2> QED
    BY <2>1, <2>3, SavingKeepsSound
<1>6. ASSUME StoreComplete
      PROVE  StoreSound'
  <2> DEFINE next == [GetState EXCEPT !.inBatch = FALSE]
  <2>1. st' = next /\ SaveManifest(next)
    BY <1>6 DEF StoreComplete, CompleteBatch
  <2>2. next.cn = GetState.cn /\ next.files = GetState.files
    BY <1>1 DEF AppStates
  <2>3. Sound(next)
    BY <1>1, <2>2 DEF Sound
  <2> QED
    BY <2>1, <2>3, SavingKeepsSound
<1>7. CASE SyncUnchanged
  <2> DEFINE next == [GetState EXCEPT !.cn = synced]
  <2>1. st' = next /\ (SaveManifest(next) \/ UNCHANGED manifest)
    BY <1>7 DEF SyncUnchanged, ChangelistUnchanged
  <2>2. next.cn = synced /\ next.files = GetState.files
    BY <1>1 DEF AppStates
  <2>3. Sound(next)
    BY <1>1, <2>2 DEF Sound, SyncTypeOK
  <2> QED
    BY <2>1, <2>3, SavingKeepsSound
<1>8. CASE Crash
  BY <1>8, DyingKeepsSound DEF Crash, Stop, CrashInDelete
<1>9. ASSUME \/ \E n \in Names, c \in Contents : Play(n, c)
             \/ Applied \/ ServePut \/ RefusePut \/ UploadFails \/ Abandon
             \/ Restart \/ UNCHANGED syncVars
             \/ \E n \in Names : Upload(n)
      PROVE  UNCHANGED <<st, manifest>>
  BY <1>9 DEF Play, Applied, ServePut, HttpPut, RefusePut, UploadFails, CommitFailed,
              Abandon, Restart, Initialize, Upload, BeginFileUpload, syncVars, vars
<1>10. ASSUME \/ \E listed, theirs \in SUBSET Names : SyncFull(listed, theirs)
              \/ \E n \in Names : Download(n)
       PROVE  StoreSound'
  BY <1>1, <1>10, LoadingKeepsSound DEF SyncFull, ChangelistFull, Download, FileDownload
<1>11. CASE Commit \/ OpenBatch \/ CloseBatch \/ LostReply
            \/ \E n \in Names : Remove(n)
  BY <1>3, <1>4, <1>5, <1>6, <1>11 DEF Commit, OpenBatch, CloseBatch, LostReply, Remove
<1> QED
  BY <1>2, <1>7, <1>8, <1>9, <1>10, <1>11 DEF SyncNext

(* What a handler works from is within the bounds and of known contents.   *)
LEMMA InventoryIsSound ==
  ASSUME TypeOK, StoreSound
  PROVE  /\ Version \in 0..MaxCn
         /\ \A n \in Names : Inventory[n] # Absent => Inventory[n].sha \in Shas
         /\ \A n \in Names : StoredSha(n) \in Contents
         /\ \A n \in Names : Inventory[n] = Absent <=> StoredSha(n) = Absent
<1>1. Sound(GetState) /\ Version \in Nat
  BY GetStateSound, VersionIsNat
<1> QED
  BY <1>1, BoundsOK, SentinelsDistinct
     DEF Sound, Inventory, Version, StoredSha, Contents

(* A job that ends early leaves nothing of the upload or the batch.        *)
LEMMA GiveUpKeepsClient ==
  ASSUME ClientInv, TypeOK', GiveUp, puts' \in {puts, <<>>}, asked' \subseteq Names
  PROVE  ClientInv'
<1>1. /\ phase' = "idle" /\ goal' = 0 /\ gets' = {} /\ cur' = NoUpload
      /\ local' = local /\ base' = base /\ synced' = synced
  BY DEF GiveUp
<1>2. SyncTypeOK'
  <2>1. puts' \in Seq([name : Names, sha : Shas])
    <3>1. <<>> \in Seq([name : Names, sha : Shas])
      BY EmptySeq
    <3>2. puts \in Seq([name : Names, sha : Shas])
      BY DEF ClientInv, SyncTypeOK
    <3> QED
      BY <3>1, <3>2
  <2>2. 0 \in 0..MaxCn
    BY BoundsOK
  <2> QED
    BY <1>1, <2>1, <2>2 DEF ClientInv, SyncTypeOK
<1>3. BatchInv' /\ UploadInv'
  BY <1>1 DEF BatchInv, UploadInv, NoUpload
<1> QED
  BY <1>2, <1>3 DEF ClientInv

(* The open batch goes on when the phase does and the store's entry does.  *)
LEMMA BatchGoesOn ==
  ASSUME BatchInv, TypeOK, UNCHANGED <<phase, goal>>,
         st' \in {st, GetState}, UNCHANGED manifest
  PROVE  BatchInv'
<1>1. Version' = Version
  BY LoadingIsInvisible
<1>2. st.loaded /\ st.inBatch => st'.loaded /\ st'.inBatch
  BY DEF GetState
<1> QED
  BY <1>1, <1>2 DEF BatchInv

LEMMA PlayKeepsClient ==
  ASSUME ClientInv, TypeOK', NEW n \in Names, NEW c \in Contents, Play(n, c)
  PROVE  ClientInv'
<1>1. /\ local' = [local EXCEPT ![n] = c]
      /\ UNCHANGED <<vars, base, synced, phase, goal, gets, cur, puts, asked>>
  BY DEF Play
<1>2. SyncTypeOK'
  BY <1>1 DEF ClientInv, SyncTypeOK
<1>3. BatchInv'
  BY <1>1, BatchGoesOn DEF ClientInv, SyncTypeOK, vars
<1>4. UploadInv'
  BY <1>1 DEF ClientInv, UploadInv, vars
<1> QED
  BY <1>2, <1>3, <1>4 DEF ClientInv

LEMMA SyncUnchangedKeepsClient ==
  ASSUME ClientInv, TypeOK', SyncUnchanged
  PROVE  ClientInv'
<1>1. /\ phase' = "ready" /\ blob' = blob
      /\ UNCHANGED <<local, base, synced, goal, gets, cur, puts, asked>>
  BY DEF SyncUnchanged, ChangelistUnchanged
<1>2. SyncTypeOK'
  BY <1>1 DEF ClientInv, SyncTypeOK
<1>3. BatchInv' /\ UploadInv'
  BY <1>1 DEF ClientInv, BatchInv, UploadInv
<1> QED
  BY <1>2, <1>3 DEF ClientInv

LEMMA SyncFullKeepsClient ==
  ASSUME ClientInv, StoreSound, TypeOK',
         NEW listed \in SUBSET Names, NEW theirs \in SUBSET Names,
         SyncFull(listed, theirs)
  PROVE  ClientInv'
<1> DEFINE r == Listed(listed)
<1>1. /\ phase' = "apply" /\ blob' = blob
      /\ goal' = Version
      /\ UNCHANGED <<synced, cur, puts, asked>>
  BY DEF SyncFull, ChangelistFull, Version
<1>2. /\ Version \in 0..MaxCn
      /\ \A n \in Names : StoredSha(n) \in Contents
  BY InventoryIsSound DEF ClientInv, SyncTypeOK
<1>3. \A n \in Names : r[n] \in Contents
  <2>1. listed \subseteq Present(GetState.files)
    BY DEF SyncFull, ChangelistFull, Listings
  <2>2. \A n \in listed : Inventory[n].sha = StoredSha(n)
    BY <2>1 DEF Present, StoredSha, Inventory
  <2> QED
    BY <1>2, <2>2 DEF Listed, Contents
<1>4. gets' \subseteq Names
  BY DEF SyncFull, Newer, Conflicts
<1>5. local' \in [Names -> Contents]
  BY DEF SyncFull, ClientInv, SyncTypeOK, Contents
<1>6. base' \in [Names -> Contents]
  <2>1. base' = [n \in Names |-> IF n \in gets' THEN base[n] ELSE r[n]]
    BY DEF SyncFull
  <2> QED
    BY <1>3, <2>1 DEF ClientInv, SyncTypeOK
<1>7. SyncTypeOK'
  BY <1>1, <1>2, <1>4, <1>5, <1>6 DEF ClientInv, SyncTypeOK
<1>8. BatchInv' /\ UploadInv'
  BY <1>1 DEF ClientInv, BatchInv, UploadInv
<1> QED
  BY <1>7, <1>8 DEF ClientInv

LEMMA DownloadKeepsClient ==
  ASSUME ClientInv, StoreSound, TypeOK', NEW n \in Names, Download(n)
  PROVE  ClientInv'
<1>1. /\ Inventory[n] # Absent
      /\ st' = GetState /\ UNCHANGED <<manifest, blob>>
      /\ local' = [local EXCEPT ![n] = Inventory[n].sha]
      /\ base' = [base EXCEPT ![n] = Inventory[n].sha]
      /\ gets' = gets \ {n}
      /\ UNCHANGED <<synced, phase, goal, cur, puts, asked>>
  BY DEF Download, FileDownload
<1>2. Inventory[n].sha \in Shas
  BY <1>1, InventoryIsSound DEF ClientInv, SyncTypeOK
<1>3. SyncTypeOK'
  BY <1>1, <1>2 DEF ClientInv, SyncTypeOK, Contents
<1>4. BatchInv'
  BY <1>1, BatchGoesOn DEF ClientInv, SyncTypeOK
<1>5. UploadInv'
  BY <1>1 DEF ClientInv, UploadInv
<1> QED
  BY <1>3, <1>4, <1>5 DEF ClientInv

LEMMA AppliedKeepsClient ==
  ASSUME ClientInv, TypeOK', Applied
  PROVE  ClientInv'
<1>1. /\ synced' = goal /\ phase' = "ready" /\ goal' = 0
      /\ UNCHANGED <<vars, local, base, gets, cur, puts, asked>>
  BY DEF Applied
<1>2. SyncTypeOK'
  BY <1>1, BoundsOK DEF ClientInv, SyncTypeOK
<1>3. BatchInv' /\ UploadInv'
  BY <1>1 DEF ClientInv, BatchInv, UploadInv, vars
<1> QED
  BY <1>2, <1>3 DEF ClientInv

(* A batch opens under the number the store claims for it.                 *)
LEMMA OpenBatchKeepsClient ==
  ASSUME ClientInv, TypeOK', OpenBatch
  PROVE  ClientInv'
<1>1. /\ cur = NoUpload
      /\ BeginBatch
      /\ phase' = "batch" /\ goal' = Version + 1
      /\ UNCHANGED <<local, base, synced, gets, cur, puts, asked>>
  BY DEF OpenBatch, Version
<1>2. /\ st'.loaded /\ st'.inBatch
      /\ Version' = Version + 1
      /\ Version' <= MaxCn
      /\ Version \in Nat
  BY <1>1, BeginBatchEffect, VersionIsNat DEF ClientInv, SyncTypeOK
<1>3. SyncTypeOK'
  BY <1>1, <1>2, BoundsOK DEF ClientInv, SyncTypeOK
<1>4. BatchInv' /\ UploadInv'
  BY <1>1, <1>2 DEF BatchInv, UploadInv, NoUpload
<1> QED
  BY <1>3, <1>4 DEF ClientInv

(* An upload is announced and its PUT joins the queue, last.               *)
LEMMA UploadKeepsClient ==
  ASSUME ClientInv, TypeOK', NEW n \in Names, Upload(n)
  PROVE  ClientInv'
<1> DEFINE put == [name |-> n, sha |-> local[n]]
<1>1. /\ local[n] \notin {Absent, base[n]}
      /\ UNCHANGED <<st, manifest, blob>>
      /\ cur' = [name |-> n, sha |-> local[n], stored |-> FALSE]
      /\ puts' = Append(puts, put)
      /\ UNCHANGED <<local, base, synced, phase, goal, gets, asked>>
  BY DEF Upload, BeginFileUpload
<1>2. local[n] \in Shas /\ put \in [name : Names, sha : Shas]
  BY <1>1 DEF ClientInv, SyncTypeOK, Contents
<1>3. /\ puts' \in Seq([name : Names, sha : Shas])
      /\ puts'[Len(puts')] = put
  <2>1. puts \in Seq([name : Names, sha : Shas])
    BY DEF ClientInv, SyncTypeOK
  <2> HIDE DEF put
  <2> QED
    BY <1>1, <1>2, <2>1, AppendProperties
<1>4. SyncTypeOK'
  BY <1>1, <1>2, <1>3 DEF ClientInv, SyncTypeOK, Uploads
<1>5. BatchInv'
  BY <1>1, BatchGoesOn DEF ClientInv, SyncTypeOK
<1>6. UploadInv'
  BY <1>1, <1>3 DEF UploadInv
<1> QED
  BY <1>4, <1>5, <1>6 DEF ClientInv

(* PUTs land in the order they were queued, so the bytes of the upload in  *)
(* progress land last.                                                     *)
LEMMA ServePutKeepsClient ==
  ASSUME ClientInv, TypeOK', ServePut
  PROVE  ClientInv'
<1>1. /\ puts # <<>>
      /\ blob' = [blob EXCEPT ![Head(puts).name] = Head(puts).sha]
      /\ puts' = Tail(puts)
      /\ cur' = IF cur # NoUpload /\ Len(puts) = 1
                THEN [cur EXCEPT !.stored = TRUE] ELSE cur
      /\ UNCHANGED <<st, manifest, local, base, synced, phase, goal, gets, asked>>
  BY DEF ServePut, HttpPut
<1>2. puts \in Seq([name : Names, sha : Shas])
  BY DEF ClientInv, SyncTypeOK
<1>3. /\ Len(puts) \in Nat /\ Len(puts) >= 1
      /\ Head(puts) = puts[1]
      /\ puts' \in Seq([name : Names, sha : Shas])
      /\ Len(puts') = Len(puts) - 1
      /\ \A i \in 1..Len(puts') : puts'[i] = puts[i + 1]
  BY <1>1, <1>2, HeadTailProperties, EmptySeq, LenProperties
<1>4. cur \in Uploads \cup {NoUpload} /\ cur' \in Uploads \cup {NoUpload}
  BY <1>1 DEF ClientInv, SyncTypeOK, Uploads
<1>5. SyncTypeOK'
  BY <1>1, <1>3, <1>4 DEF ClientInv, SyncTypeOK
<1>6. BatchInv'
  BY <1>1, BatchGoesOn DEF ClientInv, SyncTypeOK
<1>7. UploadInv'
  <2>1. ~cur.stored
    BY <1>1 DEF ClientInv, UploadInv
  <2>2. CASE cur = NoUpload
    BY <1>1, <2>2 DEF UploadInv, NoUpload
  <2>3. CASE cur # NoUpload /\ Len(puts) = 1
    <3>1. cur \in Uploads /\ cur' = [cur EXCEPT !.stored = TRUE]
      BY <1>1, <1>4, <2>3
    <3>2. cur'.name = cur.name /\ cur'.sha = cur.sha /\ cur.name \in Names
      BY <3>1 DEF Uploads
    <3>3. Head(puts) = [name |-> cur.name, sha |-> cur.sha]
      BY <1>1, <1>3, <2>3 DEF ClientInv, UploadInv
    <3>4. blob'[cur'.name] = cur'.sha
      <4>1. blob \in [Names -> Shas \cup {Absent}]
        BY DEF ClientInv, SyncTypeOK, TypeOK
      <4> QED
        BY <1>1, <3>2, <3>3, <4>1
    <3>5. puts' = <<>>
      BY <1>3, <2>3, EmptySeq, LenProperties
    <3> QED
      BY <3>4, <3>5 DEF UploadInv
  <2>4. CASE cur # NoUpload /\ Len(puts) # 1
    <3>1. cur' = cur
      BY <1>1, <2>4
    <3>2. puts'[Len(puts')] = puts[Len(puts)]
      BY <1>3, <2>4
    <3> QED
      BY <1>1, <2>1, <2>4, <3>1, <3>2 DEF ClientInv, UploadInv
  <2> QED
    BY <2>2, <2>3, <2>4
<1> QED
  BY <1>5, <1>6, <1>7 DEF ClientInv

(* A refused PUT leaves the rest of the queue, and the upload waiting.     *)
LEMMA RefusePutKeepsClient ==
  ASSUME ClientInv, TypeOK', RefusePut
  PROVE  ClientInv'
<1>1. /\ puts # <<>>
      /\ puts' = Tail(puts)
      /\ UNCHANGED <<vars, local, base, synced, phase, goal, gets, cur, asked>>
  BY DEF RefusePut
<1>2. puts \in Seq([name : Names, sha : Shas])
  BY DEF ClientInv, SyncTypeOK
<1>3. /\ Len(puts) \in Nat
      /\ puts' \in Seq([name : Names, sha : Shas])
      /\ Len(puts') = Len(puts) - 1
      /\ \A i \in 1..Len(puts') : puts'[i] = puts[i + 1]
      /\ puts' # <<>> => Len(puts') \in 1..Len(puts')
  BY <1>1, <1>2, HeadTailProperties, EmptySeq, LenProperties
<1>4. SyncTypeOK'
  BY <1>1, <1>3 DEF ClientInv, SyncTypeOK
<1>5. BatchInv'
  BY <1>1, BatchGoesOn DEF ClientInv, SyncTypeOK, vars
<1>6. puts' # <<>> => puts'[Len(puts')] = puts[Len(puts)]
  BY <1>3
<1>7. UploadInv'
  BY <1>1, <1>6 DEF ClientInv, UploadInv, vars
<1> QED
  BY <1>4, <1>5, <1>7 DEF ClientInv

(* Inside a batch a commit leaves the number alone.                        *)
LEMMA CommitKeepsClient ==
  ASSUME ClientInv, TypeOK', Commit
  PROVE  ClientInv'
<1>1. /\ StoreCommit
      /\ base' = [base EXCEPT ![cur.name] = cur.sha]
      /\ cur' = NoUpload
      /\ UNCHANGED <<local, synced, phase, goal, gets, puts>>
  BY DEF Commit
<1>2. /\ cur \in Uploads /\ asked' = asked \ {cur.name}
      /\ CommitRecord(cur.name, NoRoot, cur.sha) \in Records
      /\ st' = Change(GetState, cur.name, CommitRecord(cur.name, NoRoot, cur.sha))
  BY <1>1, ClientCommit DEF ClientInv, CommitFileUpload
<1>3. cur.name \in Names /\ cur.sha \in Shas
  BY <1>2 DEF Uploads
<1>4. SyncTypeOK'
  BY <1>1, <1>2, <1>3 DEF ClientInv, SyncTypeOK, Contents
<1>5. BatchInv'
  <2>1. ASSUME NEW n \in Names, NEW r \in Records, st.loaded, st.inBatch,
               st' = Change(GetState, n, r)
        PROVE  st'.loaded /\ st'.inBatch /\ Version' = Version
    BY <2>1, ChangeInBatch DEF ClientInv, SyncTypeOK
  <2> QED
    BY <1>1, <1>2, <1>3, <2>1 DEF ClientInv, BatchInv
<1>6. UploadInv'
  BY <1>1 DEF UploadInv, NoUpload
<1> QED
  BY <1>4, <1>5, <1>6 DEF ClientInv

(* So does a deletion.                                                     *)
LEMMA RemoveKeepsClient ==
  ASSUME ClientInv, TypeOK', NEW n \in Names, Remove(n)
  PROVE  ClientInv'
<1>1. /\ cur = NoUpload /\ DeleteFile(n)
      /\ asked' = asked \cup {n}
      /\ base' = [base EXCEPT ![n] = Absent]
      /\ UNCHANGED <<local, synced, phase, goal, gets, cur, puts>>
  BY DEF Remove, StoreRemove, MayWrite
<1>2. SyncTypeOK'
  BY <1>1 DEF ClientInv, SyncTypeOK, Contents
<1>3. BatchInv'
  <2>1. CASE GetState.files[n] = Absent
    BY <1>1, <2>1, BatchGoesOn DEF ClientInv, SyncTypeOK, DeleteFile
  <2>2. CASE GetState.files[n] # Absent
    <3>1. st' = Change(GetState, n, Absent)
      BY <1>1, <2>2 DEF DeleteFile
    <3> QED
      BY <1>1, <3>1, ChangeInBatch DEF ClientInv, SyncTypeOK, BatchInv
  <2> QED
    BY <2>1, <2>2
<1>4. UploadInv'
  BY <1>1 DEF UploadInv, NoUpload
<1> QED
  BY <1>2, <1>3, <1>4 DEF ClientInv

LEMMA CloseBatchKeepsClient ==
  ASSUME ClientInv, TypeOK', CloseBatch
  PROVE  ClientInv'
<1>1. /\ cur = NoUpload
      /\ synced' = goal /\ phase' = "ready" /\ goal' = 0
      /\ UNCHANGED <<local, base, gets, cur, puts, asked>>
  BY DEF CloseBatch, StoreComplete
<1>2. SyncTypeOK'
  BY <1>1, BoundsOK DEF ClientInv, SyncTypeOK
<1>3. BatchInv' /\ UploadInv'
  BY <1>1 DEF BatchInv, UploadInv, NoUpload
<1> QED
  BY <1>2, <1>3 DEF ClientInv

LEMMA GiveUpStepsKeepClient ==
  ASSUME ClientInv, TypeOK', LostReply \/ UploadFails \/ Abandon \/ Crash
  PROVE  ClientInv'
<1>1. asked \subseteq Names
  BY DEF ClientInv, SyncTypeOK
<1>2. CASE LostReply
  BY <1>1, <1>2, GiveUpKeepsClient DEF LostReply, StoreCommit, StoreRemove
<1>3. CASE UploadFails \/ Abandon
  BY <1>1, <1>3, GiveUpKeepsClient DEF UploadFails, Abandon
<1>4. CASE Crash
  BY <1>1, <1>4, GiveUpKeepsClient DEF Crash
<1> QED
  BY <1>2, <1>3, <1>4

LEMMA RestartKeepsClient ==
  ASSUME ClientInv, TypeOK', Restart \/ UNCHANGED syncVars
  PROVE  ClientInv'
<1>1. UNCHANGED <<st, manifest, blob>> /\ UNCHANGED client
  BY DEF Restart, Initialize, syncVars, vars
<1>2. SyncTypeOK'
  BY <1>1 DEF ClientInv, SyncTypeOK, client
<1>3. BatchInv'
  BY <1>1, BatchGoesOn DEF ClientInv, SyncTypeOK, client
<1>4. UploadInv'
  BY <1>1 DEF ClientInv, UploadInv, client
<1> QED
  BY <1>2, <1>3, <1>4 DEF ClientInv

LEMMA FreeInvInit ==
  ASSUME SyncInit
  PROVE  FreeInv
<1>1. Init /\ TypeOK
  BY TypeOKInit DEF SyncInit
<1>2. SyncTypeOK
  <2>1. NoFiles \in [Names -> Contents] /\ [Names -> Shas] \subseteq [Names -> Contents]
    BY DEF NoFiles, Contents
  <2>2. 0 \in 0..MaxCn /\ ForeignCn \in 0..MaxCn
    BY BoundsOK, SyncBoundsOK
  <2>3. <<>> \in Seq([name : Names, sha : Shas])
    BY EmptySeq
  <2>4. base \in [Names -> Contents]
    BY <2>1 DEF SyncInit
  <2> QED
    BY <1>1, <2>2, <2>3, <2>4 DEF SyncInit, SyncTypeOK
<1>3. StoreSound
  BY <1>1, BoundsOK DEF Init, StoreSound, Sound, Unloaded, NoFiles
<1>4. BatchInv /\ UploadInv
  BY DEF SyncInit, BatchInv, UploadInv, NoUpload
<1> QED
  BY <1>2, <1>3, <1>4 DEF FreeInv, ClientInv

LEMMA FreeInvStep ==
  ASSUME FreeInv, [SyncNext]_syncVars
  PROVE  FreeInv'
<1>1. SyncTypeOK /\ TypeOK
  BY DEF FreeInv, ClientInv, SyncTypeOK
<1>2. TypeOK'
  BY <1>1, SyncStepIsStoreStep, TypeOKStep
<1>3. ClientInv'
  BY <1>2, PlayKeepsClient, SyncUnchangedKeepsClient, SyncFullKeepsClient,
     DownloadKeepsClient, AppliedKeepsClient, OpenBatchKeepsClient,
     UploadKeepsClient, ServePutKeepsClient, RefusePutKeepsClient,
     CommitKeepsClient, RemoveKeepsClient, CloseBatchKeepsClient,
     GiveUpStepsKeepClient, RestartKeepsClient
     DEF FreeInv, SyncNext
<1>4. StoreSound'
  BY <1>1, StoreSoundStep DEF FreeInv
<1> QED
  BY <1>3, <1>4 DEF FreeInv

LEMMA FreeInvHolds == SyncSpec => []FreeInv
<1>1. SyncInit => FreeInv
  BY FreeInvInit
<1>2. FreeInv /\ [SyncNext]_syncVars => FreeInv'
  BY FreeInvStep
<1> QED
  BY <1>1, <1>2, PTL DEF SyncSpec

(* Every variable of the store and of its client keeps its type.           *)
THEOREM SyncTypeCorrect == SyncSpec => []SyncTypeOK
<1>1. FreeInv => SyncTypeOK
  BY DEF FreeInv, ClientInv
<1> QED
  BY <1>1, FreeInvHolds, PTL

(* A commit finds exactly the bytes of its own upload under the name: a    *)
(* late PUT of an upload given up on never lands over them, because the    *)
(* accept thread serves connections one at a time.                         *)
THEOREM CommitsFindTheirBytes == SyncSpec => []CommittedBytesArrived
<1>1. FreeInv => CommittedBytesArrived
  BY DEF FreeInv, ClientInv, UploadInv, CommittedBytesArrived
<1> QED
  BY <1>1, FreeInvHolds, PTL

(* The number handed out when a batch opens is the one its writes land     *)
(* under, for as long as the client has it open.                           *)
THEOREM BatchNumberStands == SyncSpec => []BatchKeepsItsNumber
<1>1. FreeInv => BatchKeepsItsNumber
  BY DEF FreeInv, ClientInv, BatchInv, BatchKeepsItsNumber
<1> QED
  BY <1>1, FreeInvHolds, PTL

----------------------------------------------------------------------------
(* The second half.  What the steps below keep citing.                     *)
LEMMA SyncInvFacts ==
  ASSUME SyncInv
  PROVE  /\ SyncTypeOK /\ TypeOK /\ DurableInv
         /\ Version \in 0..MaxCn /\ synced \in 0..MaxCn /\ MaxCn \in Nat
         /\ \A n \in Names : StoredSha(n) \in Contents
         /\ \A n \in Names : Inventory[n] = Absent <=> StoredSha(n) = Absent
BY InventoryIsSound, BoundsOK DEF SyncInv, FreeInv, ClientInv, SyncTypeOK, DurableInv

(* A client that is told "unchanged" is at the store's number: it never    *)
(* runs ahead, so there is nothing to adopt.                               *)
LEMMA UnchangedEffect ==
  ASSUME TypeOK, synced \in Nat, synced <= Version, ChangelistUnchanged(synced)
  PROVE  /\ synced = Version
         /\ st' = GetState
         /\ UNCHANGED manifest
<1>1. GetState \in AppStates
  BY GetStateType
<1>2. synced = GetState.cn
  BY <1>1 DEF ChangelistUnchanged, Version, AppStates
<1>3. UNCHANGED manifest
  BY <1>1, <1>2 DEF ChangelistUnchanged, AppStates
<1>4. [GetState EXCEPT !.cn = synced] = GetState
  BY <1>1, <1>2 DEF AppStates
<1> QED
  BY <1>2, <1>3, <1>4 DEF ChangelistUnchanged, Version

(* The client commits only inside a batch, where a commit changes one      *)
(* record and no number.                                                   *)
LEMMA StoreCommitEffect ==
  ASSUME SyncInv, StoreCommit
  PROVE  /\ phase = "batch"
         /\ cur.sha # Absent
         /\ asked' = asked \ {cur.name}
         /\ Version' = Version
         /\ \A m \in Names :
              StoredSha(m)' = IF m = cur.name THEN cur.sha ELSE StoredSha(m)
<1> DEFINE r == CommitRecord(cur.name, NoRoot, cur.sha)
<1>1. /\ cur \in Uploads /\ asked' = asked \ {cur.name}
      /\ r \in Records /\ r # Absent /\ r.sha = cur.sha
      /\ st' = Change(GetState, cur.name, r)
  BY ClientCommit, SyncInvFacts DEF CommitFileUpload
<1>2. cur.name \in Names /\ cur.sha # Absent /\ cur # NoUpload
  BY <1>1, SentinelsDistinct DEF Uploads, NoUpload
<1>3. phase = "batch" /\ st.loaded /\ st.inBatch
  BY <1>2 DEF SyncInv, AgreementInv, PhaseInv, FreeInv, ClientInv, BatchInv
<1> HIDE DEF r
<1>4. ASSUME NEW n \in Names, n = cur.name
      PROVE  /\ Version' = Version
             /\ StoredSha(n)' = r.sha
             /\ \A m \in Names \ {n} : StoredSha(m)' = StoredSha(m)
  <2>1. st' = Change(GetState, n, r)
    BY <1>1, <1>4
  <2> QED
    BY <1>1, <1>3, <2>1, ChangeInBatch, SyncInvFacts
<1> QED
  BY <1>1, <1>2, <1>3, <1>4

(* It deletes only inside a batch too, and only what the store has.        *)
LEMMA StoreRemoveEffect ==
  ASSUME TrustedStore, SyncInv, NEW n \in Names, StoreRemove(n)
  PROVE  /\ phase = "batch"
         /\ asked' = asked \cup {n}
         /\ Version' = Version
         /\ StoredSha(n)' = Absent
         /\ \A m \in Names \ {n} : StoredSha(m)' = StoredSha(m)
<1>1. /\ phase = "batch" /\ base[n] # Absent
      /\ DeleteFile(n)
      /\ asked' = asked \cup {n}
  BY DEF StoreRemove, MayWrite, TrustedStore
<1>2. st.loaded /\ st.inBatch
  BY <1>1 DEF SyncInv, FreeInv, ClientInv, BatchInv
<1>3. Inventory[n] # Absent
  BY <1>1, SyncInvFacts DEF SyncInv, AgreementInv, BaseInv
<1>4. st' = Change(GetState, n, Absent)
  BY <1>1, <1>3 DEF DeleteFile, Inventory
<1> QED
  BY <1>1, <1>2, <1>4, ChangeInBatch, SyncInvFacts

(* The two sides agree as before when neither the store's answers nor what *)
(* the client remembers changes.                                           *)
LEMMA QuietKeepsAgreement ==
  ASSUME SyncInv,
         Version' = Version, \A n \in Names : StoredSha(n)' = StoredSha(n),
         UNCHANGED <<base, synced, phase, goal, gets, asked>>,
         cur' # NoUpload => phase = "batch"
  PROVE  AgreementInv'
<1>1. PhaseInv'
  BY DEF SyncInv, AgreementInv, PhaseInv
<1>2. BaseInv'
  BY DEF SyncInv, AgreementInv, BaseInv
<1> QED
  BY <1>1, <1>2 DEF AgreementInv

(* A client whose job ends early asks one thing of the store: that it is   *)
(* past the client's number, or holds what the client last saw.            *)
LEMMA GiveUpKeepsAgreement ==
  ASSUME SyncInv, GiveUp, Version' >= Version, Version' \in Nat,
         synced = Version' => \A n \in Names : base[n] = StoredSha(n)',
         \A n \in Names : StoredSha(n)' = Absent /\ base[n] # Absent => n \in asked'
  PROVE  AgreementInv'
<1>1. /\ phase' = "idle" /\ gets' = {} /\ cur' = NoUpload
      /\ base' = base /\ synced' = synced
  BY DEF GiveUp
<1>2. synced' <= Version'
  <2>1. synced <= Version
    BY DEF SyncInv, AgreementInv, PhaseInv
  <2> QED
    BY <1>1, <2>1, SyncInvFacts
<1> QED
  BY <1>1, <1>2 DEF AgreementInv, PhaseInv, BaseInv

(* When the store looks the same after it as before, that is so.           *)
LEMMA QuietGiveUpKeepsAgreement ==
  ASSUME SyncInv, GiveUp, asked \subseteq asked',
         Version' = Version, \A n \in Names : StoredSha(n)' = StoredSha(n)
  PROVE  AgreementInv'
<1>1. Version' >= Version /\ Version' \in Nat
  BY SyncInvFacts
<1>2. synced = Version' => \A n \in Names : base[n] = StoredSha(n)'
  BY DEF SyncInv, AgreementInv, BaseInv
<1>3. \A n \in Names : StoredSha(n)' = Absent /\ base[n] # Absent => n \in asked'
  BY DEF SyncInv, AgreementInv, BaseInv
<1> QED
  BY <1>1, <1>2, <1>3, GiveUpKeepsAgreement

(* An inventory that fits the reply lists every file.                      *)
LEMMA FullListing ==
  ASSUME TrustedStore, NEW files, NEW listed \in Listings(files)
  PROVE  listed = Present(files)
<1>1. /\ listed \subseteq Present(files) /\ Present(files) \subseteq Names
      /\ listed = Present(files) \/ Cardinality(listed) = MaxListed
  BY DEF Listings, Present
<1>2. IsFiniteSet(Names) /\ Cardinality(Names) <= MaxListed
  BY DEF TrustedStore
<1>3. ASSUME listed # Present(files), Cardinality(listed) = MaxListed
      PROVE  FALSE
  <2>1. listed \subseteq Names /\ listed # Names
    BY <1>1, <1>3
  <2>2. /\ Cardinality(listed) <= Cardinality(Names)
        /\ Cardinality(listed) # Cardinality(Names)
    BY <1>2, <2>1, FS_Subset
  <2>3. Cardinality(Names) \in Nat
    BY <1>2, FS_CardinalityType
  <2> QED
    BY <1>2, <1>3, <2>2, <2>3, BoundsOK
<1> QED
  BY <1>1, <1>3

(* So the client takes over what the store holds, but for its downloads.   *)
LEMMA SyncFullEffect ==
  ASSUME TrustedStore, SyncInv,
         NEW listed \in SUBSET Names, NEW theirs \in SUBSET Names,
         SyncFull(listed, theirs)
  PROVE  /\ \A n \in Names : Listed(listed)[n] = StoredSha(n)
         /\ \A n \in Names : base'[n] = IF n \in gets' THEN base[n] ELSE StoredSha(n)
         /\ \A n \in gets' : StoredSha(n) # Absent
<1>1. /\ listed = Present(GetState.files)
      /\ theirs \subseteq Conflicts(Listed(listed))
      /\ gets' = Newer(Listed(listed)) \cup theirs
      /\ base' = [n \in Names |-> IF n \in gets' THEN base[n] ELSE Listed(listed)[n]]
  BY FullListing DEF SyncFull, ChangelistFull
<1>2. \A n \in Names : Listed(listed)[n] = StoredSha(n)
  BY <1>1 DEF Listed, Present, StoredSha, Inventory
<1>3. \A n \in gets' : StoredSha(n) # Absent
  BY <1>1, <1>2 DEF Newer, Conflicts
<1> QED
  BY <1>1, <1>2, <1>3

LEMMA SyncFullAgrees ==
  ASSUME TrustedStore, SyncInv,
         NEW listed \in SUBSET Names, NEW theirs \in SUBSET Names,
         SyncFull(listed, theirs)
  PROVE  AgreementInv'
<1>1. /\ phase = "idle" /\ phase' = "apply"
      /\ synced < Version
      /\ st' = GetState /\ UNCHANGED manifest
      /\ goal' = Version
      /\ UNCHANGED <<synced, cur, asked>>
  BY DEF SyncFull, ChangelistFull, Version
<1>2. /\ Version' = Version
      /\ \A m \in Names : StoredSha(m)' = StoredSha(m)
  BY <1>1, LoadingIsInvisible, SyncInvFacts
<1>3. /\ \A n \in Names : base'[n] = IF n \in gets' THEN base[n] ELSE StoredSha(n)
      /\ \A n \in gets' : StoredSha(n) # Absent
  BY SyncFullEffect
<1>4. PhaseInv'
  BY <1>1, <1>2, SyncInvFacts DEF SyncInv, AgreementInv, PhaseInv
<1>5. BaseInv'
  <2>1. synced' # Version'
    BY <1>1, <1>2, SyncInvFacts
  <2>2. \A n \in Names : StoredSha(n)' = Absent /\ base'[n] # Absent => n \in asked'
    BY <1>1, <1>2, <1>3
  <2> QED
    BY <1>1, <1>2, <1>3, <2>1, <2>2 DEF BaseInv
<1> QED
  BY <1>4, <1>5 DEF AgreementInv

(* "Unchanged" is answered to a client at the store's number.              *)
LEMMA SyncUnchangedAgrees ==
  ASSUME SyncInv, SyncUnchanged
  PROVE  AgreementInv'
<1>1. /\ phase = "idle" /\ phase' = "ready"
      /\ ChangelistUnchanged(synced)
      /\ UNCHANGED <<base, synced, goal, gets, cur, asked>>
  BY DEF SyncUnchanged
<1>2. synced = Version /\ st' = GetState /\ UNCHANGED manifest
  BY <1>1, UnchangedEffect, SyncInvFacts DEF SyncInv, AgreementInv, PhaseInv
<1>3. /\ Version' = Version
      /\ \A m \in Names : StoredSha(m)' = StoredSha(m)
  BY <1>2, LoadingIsInvisible, SyncInvFacts
<1>4. PhaseInv' /\ BaseInv'
  BY <1>1, <1>2, <1>3, SyncInvFacts DEF SyncInv, AgreementInv, PhaseInv, BaseInv
<1> QED
  BY <1>4 DEF AgreementInv

(* A download is accepted only with the listed bytes.                      *)
LEMMA DownloadAgrees ==
  ASSUME SyncInv, NEW n \in Names, Download(n)
  PROVE  AgreementInv'
<1>1. /\ phase = "apply" /\ n \in gets
      /\ Inventory[n] # Absent
      /\ st' = GetState /\ UNCHANGED manifest
      /\ base' = [base EXCEPT ![n] = Inventory[n].sha]
      /\ gets' = gets \ {n}
      /\ UNCHANGED <<synced, phase, goal, cur, asked>>
  BY DEF Download, FileDownload
<1>2. /\ Version' = Version
      /\ \A m \in Names : StoredSha(m)' = StoredSha(m)
  BY <1>1, LoadingIsInvisible, SyncInvFacts
<1>3. PhaseInv'
  BY <1>1, <1>2 DEF SyncInv, AgreementInv, PhaseInv
<1>4. BaseInv'
  <2>1. base \in [Names -> Contents]
    BY SyncInvFacts DEF SyncTypeOK
  <2>2. /\ base'[n] = StoredSha(n)
        /\ \A m \in Names \ {n} : base'[m] = base[m]
    BY <1>1, <2>1 DEF StoredSha
  <2>3. synced # Version
    BY <1>1, SyncInvFacts DEF SyncInv, AgreementInv, PhaseInv
  <2> QED
    BY <1>1, <1>2, <2>2, <2>3 DEF SyncInv, AgreementInv, BaseInv
<1> QED
  BY <1>3, <1>4 DEF AgreementInv

(* With nothing left to download the client has all the store has.         *)
LEMMA AppliedAgrees ==
  ASSUME SyncInv, Applied
  PROVE  AgreementInv'
<1>1. /\ phase = "apply" /\ gets = {}
      /\ synced' = goal /\ phase' = "ready"
      /\ UNCHANGED <<st, manifest, base, gets, cur, asked>>
  BY DEF Applied, vars
<1>2. /\ Version' = Version
      /\ \A m \in Names : StoredSha(m)' = StoredSha(m)
  BY <1>1, LoadingIsInvisible, SyncInvFacts
<1>3. goal = Version /\ Version \in Nat
  BY <1>1, SyncInvFacts DEF SyncInv, AgreementInv, PhaseInv
<1>4. PhaseInv'
  BY <1>1, <1>2, <1>3 DEF SyncInv, AgreementInv, PhaseInv
<1>5. BaseInv'
  BY <1>1, <1>2 DEF SyncInv, AgreementInv, BaseInv
<1> QED
  BY <1>4, <1>5 DEF AgreementInv

(* A batch opens on the number after the one the client is at.             *)
LEMMA OpenBatchAgrees ==
  ASSUME SyncInv, OpenBatch
  PROVE  AgreementInv'
<1>1. /\ phase = "ready" /\ cur = NoUpload
      /\ BeginBatch /\ phase' = "batch"
      /\ UNCHANGED <<base, synced, gets, cur, asked>>
  BY DEF OpenBatch
<1>2. /\ Version' = Version + 1
      /\ \A n \in Names : StoredSha(n)' = StoredSha(n)
  BY <1>1, BeginBatchEffect, SyncInvFacts
<1>3. synced = Version
  BY <1>1 DEF SyncInv, AgreementInv, PhaseInv
<1>4. PhaseInv'
  BY <1>1, <1>2, <1>3, SyncInvFacts DEF PhaseInv
<1>5. BaseInv'
  BY <1>1, <1>2, <1>3, SyncInvFacts DEF SyncInv, AgreementInv, BaseInv
<1> QED
  BY <1>4, <1>5 DEF AgreementInv

(* A commit brings both sides to the bytes of that upload.                 *)
LEMMA CommitAgrees ==
  ASSUME SyncInv, Commit
  PROVE  AgreementInv'
<1>1. /\ StoreCommit
      /\ base' = [base EXCEPT ![cur.name] = cur.sha]
      /\ cur' = NoUpload
      /\ UNCHANGED <<synced, phase, goal, gets>>
  BY DEF Commit
<1>2. /\ phase = "batch" /\ cur.sha # Absent
      /\ asked' = asked \ {cur.name}
      /\ Version' = Version
      /\ \A m \in Names :
           StoredSha(m)' = IF m = cur.name THEN cur.sha ELSE StoredSha(m)
  BY <1>1, StoreCommitEffect
<1>3. PhaseInv'
  BY <1>1, <1>2 DEF SyncInv, AgreementInv, PhaseInv
<1>4. BaseInv'
  <2>1. base \in [Names -> Contents] /\ \A m \in Names : base[m] = StoredSha(m)
    BY <1>2, SyncInvFacts DEF SyncInv, AgreementInv, SyncTypeOK, BaseInv
  <2>2. \A m \in Names : base'[m] = StoredSha(m)'
    BY <1>1, <1>2, <2>1
  <2> QED
    BY <1>1, <1>2, <2>2 DEF BaseInv
<1> QED
  BY <1>3, <1>4 DEF AgreementInv

(* A deletion takes the file from both sides.                              *)
LEMMA RemoveAgrees ==
  ASSUME TrustedStore, SyncInv, NEW n \in Names, Remove(n)
  PROVE  AgreementInv'
<1>1. /\ StoreRemove(n)
      /\ base' = [base EXCEPT ![n] = Absent]
      /\ UNCHANGED <<synced, phase, goal, gets, cur>>
  BY DEF Remove
<1>2. /\ phase = "batch"
      /\ Version' = Version
      /\ StoredSha(n)' = Absent
      /\ \A m \in Names \ {n} : StoredSha(m)' = StoredSha(m)
  BY <1>1, StoreRemoveEffect
<1>3. PhaseInv'
  BY <1>1, <1>2 DEF SyncInv, AgreementInv, PhaseInv
<1>4. BaseInv'
  <2>1. base \in [Names -> Contents] /\ \A m \in Names : base[m] = StoredSha(m)
    BY <1>2, SyncInvFacts DEF SyncInv, AgreementInv, SyncTypeOK, BaseInv
  <2>2. \A m \in Names : base'[m] = StoredSha(m)'
    BY <1>1, <1>2, <2>1
  <2> QED
    BY <1>1, <1>2, <2>2 DEF BaseInv
<1> QED
  BY <1>3, <1>4 DEF AgreementInv

(* A closed batch leaves the client at the number its writes landed under. *)
LEMMA CloseBatchAgrees ==
  ASSUME SyncInv, CloseBatch
  PROVE  AgreementInv'
<1>1. /\ phase = "batch" /\ cur = NoUpload
      /\ CompleteBatch
      /\ synced' = goal /\ phase' = "ready"
      /\ UNCHANGED <<base, gets, cur, asked>>
  BY DEF CloseBatch, StoreComplete
<1>2. /\ Version' = Version
      /\ \A n \in Names : StoredSha(n)' = StoredSha(n)
  BY <1>1, CompleteBatchEffect, SyncInvFacts
<1>3. goal = Version
  BY <1>1 DEF SyncInv, FreeInv, ClientInv, BatchInv
<1>4. PhaseInv'
  BY <1>1, <1>2, <1>3, SyncInvFacts DEF PhaseInv
<1>5. BaseInv'
  BY <1>1, <1>2 DEF SyncInv, AgreementInv, BaseInv
<1> QED
  BY <1>4, <1>5 DEF AgreementInv

(* Whatever was lost of a reply, the client is behind the store or agrees  *)
(* with it.                                                                *)
LEMMA LostReplyAgrees ==
  ASSUME TrustedStore, SyncInv, LostReply
  PROVE  AgreementInv'
<1>1. GiveUp
  BY DEF LostReply
<1>2. Version \in Nat /\ synced \in Nat /\ synced <= Version
  BY SyncInvFacts DEF SyncInv, AgreementInv, PhaseInv
<1>3. CASE BeginBatch /\ UNCHANGED asked
  <2>1. /\ Version' = Version + 1
        /\ \A n \in Names : StoredSha(n)' = StoredSha(n)
    BY <1>3, BeginBatchEffect, SyncInvFacts
  <2>2. synced # Version' /\ Version' >= Version /\ Version' \in Nat
    BY <1>2, <2>1
  <2>3. \A n \in Names : StoredSha(n)' = Absent /\ base[n] # Absent => n \in asked'
    BY <1>3, <2>1 DEF SyncInv, AgreementInv, BaseInv
  <2> QED
    BY <1>1, <2>2, <2>3, GiveUpKeepsAgreement
<1>4. CASE StoreCommit
  <2>1. /\ phase = "batch" /\ cur.sha # Absent
        /\ asked' = asked \ {cur.name}
        /\ Version' = Version
        /\ \A m \in Names :
             StoredSha(m)' = IF m = cur.name THEN cur.sha ELSE StoredSha(m)
    BY <1>4, StoreCommitEffect
  <2>2. synced # Version' /\ Version' >= Version /\ Version' \in Nat
    BY <1>2, <2>1 DEF SyncInv, AgreementInv, PhaseInv
  <2>3. \A n \in Names : StoredSha(n)' = Absent /\ base[n] # Absent => n \in asked'
    BY <2>1 DEF SyncInv, AgreementInv, BaseInv
  <2> QED
    BY <1>1, <2>2, <2>3, GiveUpKeepsAgreement
<1>5. ASSUME NEW n \in Names, StoreRemove(n)
      PROVE  AgreementInv'
  <2>1. /\ phase = "batch"
        /\ asked' = asked \cup {n}
        /\ Version' = Version
        /\ StoredSha(n)' = Absent
        /\ \A m \in Names \ {n} : StoredSha(m)' = StoredSha(m)
    BY <1>5, StoreRemoveEffect
  <2>2. synced # Version' /\ Version' >= Version /\ Version' \in Nat
    BY <1>2, <2>1 DEF SyncInv, AgreementInv, PhaseInv
  <2>3. \A m \in Names : StoredSha(m)' = Absent /\ base[m] # Absent => m \in asked'
    BY <2>1 DEF SyncInv, AgreementInv, BaseInv
  <2> QED
    BY <1>1, <2>2, <2>3, GiveUpKeepsAgreement
<1>6. CASE StoreComplete /\ UNCHANGED asked
  <2>1. /\ Version' = Version
        /\ \A n \in Names : StoredSha(n)' = StoredSha(n)
    BY <1>6, CompleteBatchEffect, SyncInvFacts DEF StoreComplete
  <2> QED
    BY <1>1, <1>6, <2>1, QuietGiveUpKeepsAgreement
<1> QED
  BY <1>3, <1>4, <1>5, <1>6 DEF LostReply

(* The other ways a job ends early change nothing the store answers.       *)
LEMMA GiveUpAgrees ==
  ASSUME SyncInv, UploadFails \/ Abandon \/ Crash
  PROVE  AgreementInv'
<1>1. CASE UploadFails \/ Abandon
  <2>1. GiveUp /\ UNCHANGED <<st, manifest, asked>>
    BY <1>1 DEF UploadFails, CommitFailed, Abandon, vars
  <2>2. /\ Version' = Version
        /\ \A n \in Names : StoredSha(n)' = StoredSha(n)
    BY <2>1, LoadingIsInvisible, SyncInvFacts
  <2> QED
    BY <2>1, <2>2, QuietGiveUpKeepsAgreement
<1>2. CASE Crash
  <2>1. GiveUp /\ LoseMemory /\ UNCHANGED manifest /\ asked \subseteq asked'
    BY <1>2 DEF Crash, Stop, CrashInDelete
  <2>2. /\ Version' = Version
        /\ \A n \in Names : StoredSha(n)' = StoredSha(n)
    BY <2>1, DyingIsInvisible, SyncInvFacts
  <2> QED
    BY <2>1, <2>2, QuietGiveUpKeepsAgreement
<1> QED
  BY <1>1, <1>2

(* Nor do the steps in which only bytes move, or nothing does.             *)
LEMMA QuietStepsAgree ==
  ASSUME TrustedStore, SyncInv,
         \/ \E n \in Names, c \in Contents : Play(n, c)
         \/ \E n \in Names : Upload(n)
         \/ ServePut \/ RefusePut \/ Restart
         \/ UNCHANGED syncVars
  PROVE  AgreementInv'
<1>1. UNCHANGED <<st, manifest, base, synced, phase, goal, gets, asked>>
  BY DEF Play, Upload, BeginFileUpload, ServePut, HttpPut, RefusePut, Restart,
         Initialize, client, syncVars, vars
<1>2. cur' # NoUpload => cur # NoUpload \/ phase = "batch"
  BY DEF Play, Upload, MayWrite, TrustedStore, ServePut, RefusePut, Restart,
         client, syncVars
<1>3. /\ Version' = Version
      /\ \A n \in Names : StoredSha(n)' = StoredSha(n)
  BY <1>1, LoadingIsInvisible, SyncInvFacts
<1> QED
  BY <1>1, <1>2, <1>3, QuietKeepsAgreement DEF SyncInv, AgreementInv, PhaseInv

LEMMA SyncInvInit ==
  ASSUME TrustedStore, SyncInit
  PROVE  SyncInv
<1>1. Init /\ MemoryIsDurable /\ FreeInv
  BY DurableInit, FreeInvInit DEF SyncInit, DurableInv
<1>2. /\ base = NoFiles /\ synced = 0 /\ phase = "idle" /\ cur = NoUpload
  BY DEF SyncInit, TrustedStore
<1>3. Inventory = NoFiles /\ Version = 0
  BY <1>1 DEF Init, Inventory, Version, GetState, Unloaded
<1>4. PhaseInv /\ BaseInv
  BY <1>2, <1>3 DEF PhaseInv, BaseInv, NoFiles, StoredSha
<1> QED
  BY <1>1, <1>4 DEF SyncInv, AgreementInv

LEMMA SyncInvStep ==
  ASSUME TrustedStore, SyncInv, [SyncNext]_syncVars
  PROVE  SyncInv'
<1>1. FreeInv'
  BY FreeInvStep DEF SyncInv
<1>2. MemoryIsDurable'
  BY SyncInvFacts, SyncStepIsStoreStep, DurableStep DEF TrustedStore, DurableInv
<1>3. AgreementInv'
  BY SyncFullAgrees, SyncUnchangedAgrees, DownloadAgrees, AppliedAgrees,
     OpenBatchAgrees, CommitAgrees, RemoveAgrees, CloseBatchAgrees,
     LostReplyAgrees, GiveUpAgrees, QuietStepsAgree
     DEF SyncNext
<1> QED
  BY <1>1, <1>2, <1>3 DEF SyncInv

LEMMA SyncInvHolds ==
  ASSUME TrustedStore
  PROVE  SyncSpec => []SyncInv
<1>1. SyncInit => SyncInv
  BY SyncInvInit
<1>2. SyncInv /\ [SyncNext]_syncVars => SyncInv'
  BY SyncInvStep
<1> QED
  BY <1>1, <1>2, PTL DEF SyncSpec

(* Answering "unchanged" is the truth, whatever replies were lost and      *)
(* wherever either side died: a client at the store's number holds, file   *)
(* by file, what the store holds.                                          *)
THEOREM UnchangedIsTrue ==
  ASSUME TrustedStore
  PROVE  SyncSpec => []SyncedMeansStored
<1>1. SyncInv => SyncedMeansStored
  BY DEF SyncInv, AgreementInv, BaseInv, SyncedMeansStored
<1> QED
  BY <1>1, SyncInvHolds, PTL

(* A full inventory makes the client drop only files whose deletion the    *)
(* client itself asked for.                                                *)
THEOREM OmissionsWereAsked ==
  ASSUME TrustedStore
  PROVE  SyncSpec => OmissionMeansDeleted
<1> DEFINE Kept == phase = "idle" /\ phase' = "apply" =>
                     \A n \in Names :
                       local[n] # Absent /\ local'[n] = Absent => n \in asked
<1>1. ASSUME SyncInv, [SyncNext]_syncVars, phase = "idle", phase' = "apply",
             NEW n \in Names, local[n] # Absent, local'[n] = Absent
      PROVE  n \in asked
  <2>1. PICK listed \in SUBSET Names, theirs \in SUBSET Names :
          SyncFull(listed, theirs)
    BY <1>1 DEF SyncNext, SyncUnchanged, Play, Download, Upload, Remove, Applied,
                OpenBatch, ServePut, RefusePut, Commit, UploadFails, CloseBatch,
                LostReply, Abandon, Crash, Restart, GiveUp, client, syncVars
  <2>2. n \in Omitted(Listed(listed))
    BY <1>1, <2>1 DEF SyncFull
  <2>3. local[n] = base[n] /\ Listed(listed)[n] = Absent
    BY <2>2 DEF Omitted
  <2>4. StoredSha(n) = Absent
    BY <1>1, <2>1, <2>3, SyncFullEffect
  <2> QED
    BY <1>1, <2>3, <2>4 DEF SyncInv, AgreementInv, BaseInv
<1>2. SyncInv /\ [SyncNext]_syncVars => [Kept]_syncVars
  BY <1>1
<1> QED
  BY <1>2, SyncInvHolds, PTL DEF SyncSpec, OmissionMeansDeleted

(* Everything proved of the store holds of the store the client talks to:  *)
(* in particular it implements the catalogue.                              *)
THEOREM SyncedStoreImplementsCatalog ==
  ASSUME TrustedStore
  PROVE  SyncSpec => ImplementsCatalog
<1>1. SyncInit => Init
  BY DEF SyncInit
<1>2. SyncInv /\ [SyncNext]_syncVars => [Next]_vars
  BY SyncInvFacts, SyncStepIsStoreStep
<1>3. Spec => ImplementsCatalog
  BY StoreImplementsCatalog DEF TrustedStore
<1> QED
  BY <1>1, <1>2, <1>3, SyncInvHolds, PTL DEF SyncSpec, Spec
=============================================================================
