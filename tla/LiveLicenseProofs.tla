------------------------- MODULE LiveLicenseProofs -------------------------
(***************************************************************************)
(* Package 0 and the library follow the .lua files, for any files, depots  *)
(* and any number of changes, reloads and ownership questions.             *)
(*                                                                         *)
(* Four inductive invariants, each resting on those before it: WatcherInv  *)
(* on the registry and the pass the watcher is on, whatever goes on;       *)
(* ShownInv on removals handed to the UI, with room in the heap; FeedInv   *)
(* and PackageInv on package 0, when nothing precedes the first injection. *)
(***************************************************************************)
EXTENDS LiveLicense, LuaRegistryProofs, SequenceTheorems

Changes == [file : Files, act : {"write", "remove"}]

OncePerFile(s) == \A j, k \in DOMAIN s : s[j].file = s[k].file => j = k

FilesOf(s) == {s[k].file : k \in DOMAIN s}

(* The sequences a pass goes through: one change per file.                 *)
Batches == {s \in Seq(Changes) : OncePerFile(s)}

LEMMA FilesOfBatches ==
  ASSUME NEW s \in Batches
  PROVE  FilesOf(s) \subseteq Files
<1>1. \A k \in DOMAIN s : s[k] \in Changes
  BY DEF Batches
<1>2. \A c \in Changes : c.file \in Files
  BY DEF Changes
<1> QED
  BY <1>1, <1>2 DEF FilesOf

(* The pass is over a first change and the rest.                           *)
LEMMA RestOfBatch ==
  ASSUME NEW s \in Batches, s # <<>>
  PROVE  /\ Head(s) \in Changes /\ Head(s).file \in FilesOf(s)
         /\ Tail(s) \in Batches /\ Head(s).file \notin FilesOf(Tail(s))
         /\ FilesOf(Tail(s)) \subseteq FilesOf(s)
<1>1. s \in Seq(Changes) /\ Len(s) \in Nat /\ Len(s) # 0 /\ DOMAIN s = 1..Len(s)
  BY DEF Batches
<1>2. Head(s) = s[1] /\ 1 \in DOMAIN s /\ s[1] \in Changes
  BY <1>1
<1>3. /\ Tail(s) \in Seq(Changes) /\ Len(Tail(s)) = Len(s) - 1
      /\ DOMAIN Tail(s) = 1..Len(s) - 1
      /\ \A k \in 1..Len(s) - 1 : Tail(s)[k] = s[k + 1] /\ k + 1 \in DOMAIN s
  BY <1>1
<1>4. \A j, k \in DOMAIN s : s[j].file = s[k].file => j = k
  BY DEF Batches, OncePerFile
<1>5. OncePerFile(Tail(s))
  BY <1>1, <1>3, <1>4 DEF OncePerFile
<1>6. Head(s).file \notin FilesOf(Tail(s))
  BY <1>1, <1>2, <1>3, <1>4 DEF FilesOf
<1>7. FilesOf(Tail(s)) \subseteq FilesOf(s)
  BY <1>3 DEF FilesOf
<1> QED
  BY <1>2, <1>3, <1>5, <1>6, <1>7 DEF Batches, FilesOf

(* MergeChanges keeps one change per file.                                 *)
LEMMA MergedBatch ==
  ASSUME NEW s \in Batches, NEW f \in Files, NEW act \in {"write", "remove"}
  PROVE  Merge(s, f, act) \in Batches
<1>1. s \in Seq(Changes) /\ Len(s) \in Nat /\ DOMAIN s = 1..Len(s)
  BY DEF Batches
<1>2. \A j, k \in DOMAIN s : s[j].file = s[k].file => j = k
  BY DEF Batches, OncePerFile
<1>3. Change(f, act) \in Changes /\ Change(f, act).file = f
  BY DEF Change, Changes
<1>4. CASE \E k \in DOMAIN s : s[k].file = f
  <2> DEFINE m == [k \in DOMAIN s |-> IF s[k].file = f THEN Change(f, act) ELSE s[k]]
  <2>1. m \in Seq(Changes)
    <3>1. m \in [1..Len(s) -> Changes]
      BY <1>1, <1>3
    <3> QED
      BY <1>1, <3>1
  <2>2. DOMAIN m = DOMAIN s /\ \A k \in DOMAIN s : m[k].file = s[k].file
    BY <1>3
  <2>3. Merge(s, f, act) = m
    BY <1>4 DEF Merge
  <2> HIDE DEF m
  <2> QED
    BY <1>2, <2>1, <2>2, <2>3 DEF Batches, OncePerFile
<1>5. CASE ~ \E k \in DOMAIN s : s[k].file = f
  <2>1. Merge(s, f, act) = Append(s, Change(f, act))
    BY <1>5 DEF Merge
  <2> DEFINE m == Append(s, Change(f, act))
  <2>2. /\ m \in Seq(Changes) /\ DOMAIN m = 1..(Len(s) + 1)
        /\ \A k \in 1..Len(s) : m[k] = s[k]
        /\ m[Len(s) + 1] = Change(f, act)
    BY <1>1, <1>3
  <2> HIDE DEF m
  <2>3. \A k \in 1..(Len(s) + 1) :
          IF k = Len(s) + 1 THEN m[k].file = f
          ELSE k \in 1..Len(s) /\ m[k].file = s[k].file /\ m[k].file # f
    BY <1>1, <1>3, <1>5, <2>2
  <2>4. OncePerFile(m)
    BY <1>1, <1>2, <2>2, <2>3 DEF OncePerFile
  <2> QED
    BY <2>1, <2>2, <2>4 DEF Batches, m
<1> QED
  BY <1>4, <1>5

(* A pass over the directory lists each file once.                         *)
LEMMA PassIsABatch ==
  ASSUME NEW S \in SUBSET Files, NEW p \in Passes(S)
  PROVE  p \in Batches /\ FilesOf(p) \subseteq S
<1> DEFINE W == {Change(f, "write") : f \in S}
           n == Cardinality(W)
<1>1. IsFiniteSet(S)
  BY ScriptsOK, FS_Subset
<1>2. IsFiniteSet(W) /\ n \in Nat
  <2>1. [f \in S |-> Change(f, "write")] \in Surjection(S, W)
    BY DEF Surjection
  <2>2. IsFiniteSet(W)
    BY <1>1, <2>1, FS_Surjection
  <2> QED
    BY <2>2, FS_CardinalityType
<1>3. p \in [1..n -> W] /\ \A j, k \in 1..n : j # k => p[j] # p[k]
  BY DEF Passes, SetToSeqs
<1>4. \A w \in W : w \in Changes /\ w.file \in S /\ w = Change(w.file, "write")
  BY DEF Change, Changes
<1> HIDE DEF W, n
<1>5. p \in Seq(Changes) /\ DOMAIN p = 1..n
  <2>1. p \in [1..n -> Changes]
    BY <1>3, <1>4
  <2> QED
    BY <1>2, <2>1
<1>6. OncePerFile(p)
  <2> SUFFICES ASSUME NEW j \in 1..n, NEW k \in 1..n, p[j].file = p[k].file
               PROVE  j = k
    BY <1>5 DEF OncePerFile
  <2>1. p[j] = p[k]
    BY <1>3, <1>4
  <2> QED
    BY <1>3, <2>1
<1> QED
  BY <1>3, <1>4, <1>5, <1>6 DEF Batches, FilesOf

(* ReloadDirectories unloads the files that are gone, then parses the      *)
(* others.                                                                 *)
LEMMA ReloadIsABatch ==
  ASSUME NEW S \in SUBSET Files, NEW T \in SUBSET Files, S \cap T = {},
         NEW p \in Passes(S), NEW q \in Passes(T)
  PROVE  [k \in DOMAIN q |-> Change(q[k].file, "remove")] \o p \in Batches
<1> DEFINE u == [k \in DOMAIN q |-> Change(q[k].file, "remove")]
<1>1. p \in Seq(Changes) /\ OncePerFile(p) /\ FilesOf(p) \subseteq S
  BY PassIsABatch DEF Batches
<1>2. q \in Seq(Changes) /\ OncePerFile(q) /\ FilesOf(q) \subseteq T
  BY PassIsABatch DEF Batches
<1>3. /\ Len(p) \in Nat /\ DOMAIN p = 1..Len(p) /\ Len(q) \in Nat /\ DOMAIN q = 1..Len(q)
      /\ \A k \in 1..Len(q) : q[k] \in Changes
  BY <1>1, <1>2
<1>4. /\ u \in Seq(Changes) /\ Len(u) = Len(q)
      /\ \A k \in 1..Len(q) : u[k].file = q[k].file
  <2>1. \A k \in 1..Len(q) : /\ Change(q[k].file, "remove") \in Changes
                             /\ Change(q[k].file, "remove").file = q[k].file
    BY <1>3 DEF Change, Changes
  <2>2. u \in [1..Len(q) -> Changes] /\ \A k \in 1..Len(q) : u[k].file = q[k].file
    BY <1>3, <2>1
  <2> QED
    BY <1>3, <2>2
<1> HIDE DEF u
<1>5. /\ u \o p \in Seq(Changes) /\ DOMAIN (u \o p) = 1..(Len(q) + Len(p))
      /\ \A k \in 1..(Len(q) + Len(p)) :
           (u \o p)[k] = IF k <= Len(q) THEN u[k] ELSE p[k - Len(q)]
  <2>1. u \o p \in Seq(Changes) /\ Len(u \o p) = Len(q) + Len(p)
    BY <1>1, <1>4, ConcatProperties, ZenonT(30)
  <2>2. \A k \in 1..(Len(u) + Len(p)) :
          (u \o p)[k] = IF k <= Len(u) THEN u[k] ELSE p[k - Len(u)]
    BY <1>1, <1>4, ConcatProperties
  <2> QED
    BY <1>4, <2>1, <2>2
<1>6. \A k \in 1..Len(q) : u[k].file \in T
  BY <1>2, <1>3, <1>4 DEF FilesOf
<1>7. \A k \in 1..Len(p) : p[k].file \in S
  BY <1>1, <1>3 DEF FilesOf
<1>8. \A j, k \in 1..Len(q) : u[j].file = u[k].file => j = k
  BY <1>2, <1>3, <1>4 DEF OncePerFile
<1>9. \A j, k \in 1..Len(p) : p[j].file = p[k].file => j = k
  BY <1>1, <1>3 DEF OncePerFile
<1>10. OncePerFile(u \o p)
  <2> DEFINE w == u \o p
  <2> SUFFICES ASSUME NEW j \in 1..(Len(q) + Len(p)), NEW k \in 1..(Len(q) + Len(p)),
                      w[j].file = w[k].file
               PROVE  j = k
    BY <1>5 DEF OncePerFile
  <2>1. w[j] = (IF j <= Len(q) THEN u[j] ELSE p[j - Len(q)])
    BY <1>5
  <2>2. w[k] = (IF k <= Len(q) THEN u[k] ELSE p[k - Len(q)])
    BY <1>5
  <2> HIDE DEF w
  <2>3. CASE j <= Len(q) /\ k <= Len(q)
    BY <1>3, <1>8, <2>1, <2>2, <2>3
  <2>4. CASE ~ (j <= Len(q)) /\ ~ (k <= Len(q))
    <3>1. j - Len(q) \in 1..Len(p) /\ k - Len(q) \in 1..Len(p)
      BY <1>3, <2>4
    <3>2. p[j - Len(q)].file = p[k - Len(q)].file
      BY <2>1, <2>2, <2>4
    <3>3. j - Len(q) = k - Len(q)
      BY <1>9, <3>1, <3>2
    <3> QED
      BY <1>3, <3>3
  <2>5. CASE j <= Len(q) /\ ~ (k <= Len(q))
    <3>1. j \in 1..Len(q) /\ k - Len(q) \in 1..Len(p)
      BY <1>3, <2>5
    <3> QED
      BY <1>6, <1>7, <2>1, <2>2, <2>5, <3>1
  <2>6. CASE ~ (j <= Len(q)) /\ k <= Len(q)
    <3>1. k \in 1..Len(q) /\ j - Len(q) \in 1..Len(p)
      BY <1>3, <2>6
    <3> QED
      BY <1>6, <1>7, <2>1, <2>2, <2>6, <3>1
  <2> QED
    BY <2>3, <2>4, <2>5, <2>6
<1> QED
  BY <1>5, <1>10 DEF Batches, u
----------------------------------------------------------------------------
(* What unloading and running a file do to the depots and their queues.    *)
LEMMA UnloadFlow ==
  ASSUME NEW r, Consistent(r), NEW f \in Files
  PROVE  /\ Unload(r, f).depots = [r.depots EXCEPT ![f] = {}]
         /\ Unload(r, f).additions = r.additions
         /\ \E last \in SUBSET (r.depots[f] \cap r.keys) :
              /\ Unload(r, f).keys = r.keys \ last
              /\ \A i \in Ids : Unload(r, f).removals[i]
                                  = r.removals[i] + IF i \in last THEN 1 ELSE 0
<1>1. /\ r \in Registries /\ r.depots \in [Files -> SUBSET Ids]
      /\ r.removals \in [Ids -> Nat]
  BY DEF Consistent, Registries, Counts
<1>2. CASE Empty(r, f)
  <2>1. Unload(r, f) = r /\ r.depots[f] = {}
    BY <1>1, <1>2, UnloadNothing DEF Empty
  <2>2. r.depots = [r.depots EXCEPT ![f] = {}]
    BY <1>1, <2>1
  <2>3. {} \in SUBSET (r.depots[f] \cap r.keys) /\ r.keys = r.keys \ {}
    OBVIOUS
  <2>4. \A i \in Ids : r.removals[i] = r.removals[i] + IF i \in {} THEN 1 ELSE 0
    BY <1>1
  <2> QED
    BY <2>1, <2>2, <2>3, <2>4
<1>3. CASE ~ Empty(r, f)
  <2> DEFINE last == {i \in r.depots[f] : r.refs[i] = 1}
  <2>1. /\ Unload(r, f).depots = [r.depots EXCEPT ![f] = {}]
        /\ Unload(r, f).keys = r.keys \ last
        /\ Unload(r, f).removals = [i \in Ids |-> IF i \in last THEN r.removals[i] + 1
                                                 ELSE r.removals[i]]
        /\ Unload(r, f).additions = r.additions
    BY <1>1, <1>3, UnloadFields
  <2>2. last \subseteq r.keys
    <3> SUFFICES ASSUME NEW i \in last
                 PROVE  i \in r.keys
      OBVIOUS
    <3>1. i \in Ids /\ f \in Providers(r, i)
      BY CountOfProvided DEF Providers
    <3> QED
      BY <3>1 DEF Consistent, CountedIn
  <2>3. last \in SUBSET (r.depots[f] \cap r.keys)
    BY <2>2
  <2> HIDE DEF last
  <2>4. \A i \in Ids : Unload(r, f).removals[i]
                         = r.removals[i] + IF i \in last THEN 1 ELSE 0
    BY <1>1, <2>1
  <2> QED
    BY <2>1, <2>3, <2>4
<1> QED
  BY <1>2, <1>3

LEMMA RunFlow ==
  ASSUME NEW r, Consistent(r), NEW f \in Files, NEW script \in Scripts
  PROVE  /\ Run(r, f, script).depots = [r.depots EXCEPT ![f] = script.ids]
         /\ Run(r, f, script).keys = r.keys \cup script.ids
         /\ Run(r, f, script).removals = r.removals
         /\ \A i \in Ids : Run(r, f, script).additions[i] = r.additions[i]
              + IF i \in script.ids /\ i \notin r.keys THEN 1 ELSE 0
         /\ script.ids \subseteq Ids
<1>1. r.additions \in [Ids -> Nat] /\ script.ids \subseteq Ids
  BY ScriptsOK DEF Consistent, Registries, Counts
<1>2. \A i \in Ids : r.refs[i] = 0 <=> i \notin r.keys
  BY ProvidersFinite, FS_EmptySet DEF Consistent, CountedIn
<1>3. \A i \in Ids : i \in {j \in script.ids : r.refs[j] = 0}
                       <=> i \in script.ids /\ i \notin r.keys
  BY <1>2
<1> DEFINE new == {j \in script.ids : r.refs[j] = 0}
           u == Run(r, f, script)
<1>4. /\ u.depots = [r.depots EXCEPT ![f] = script.ids] /\ u.keys = r.keys \cup script.ids
      /\ u.removals = r.removals
      /\ u.additions = [i \in Ids |-> IF i \in new THEN r.additions[i] + 1 ELSE r.additions[i]]
  BY DEF Run, NewlyProvided
<1> HIDE DEF u, new
<1>5. \A i \in Ids : i \in new <=> i \in script.ids /\ i \notin r.keys
  BY <1>3 DEF new
<1>6. \A i \in Ids : u.additions[i] = r.additions[i]
                       + IF i \in script.ids /\ i \notin r.keys THEN 1 ELSE 0
  BY <1>1, <1>4, <1>5
<1> QED
  BY <1>1, <1>4, <1>6 DEF u

----------------------------------------------------------------------------
(* The pass the watcher is on, in every world.  What it has not come to    *)
(* and, during the startup pass, has no depots yet; a file that is being   *)
(* parsed has been unloaded; and the queues are empty where                *)
(* NotifyLicenseChanged has taken them and the startup pass dropped them.  *)
WatcherPlaces ==
  {"boot", "files", "parse", "open", "wait", "take", "remove", "add", "mark"}

WatcherTypes ==
  /\ disk \in [Files -> Scripts \cup {Gone}]
  /\ wpc \in WatcherPlaces /\ notify \in BOOLEAN
  /\ batch \in Batches /\ seen \in Batches
  /\ wpc \notin {"files", "parse"} => batch = <<>>

StartupPassIsFresh ==
  ~ notify =>
    /\ wpc \in {"boot", "files", "parse", "open", "wait"}
    /\ wpc # "wait" => ~ watching
    /\ wpc \in {"boot", "files", "parse"} => told = Zero /\ reg.removals = Zero
    /\ wpc = "boot" => reg.depots = [f \in Files |-> {}]
    /\ wpc \in {"files", "parse"} => \A f \in FilesOf(batch) : reg.depots[f] = {}
    /\ wpc \in {"open", "wait"} => reg.additions = Zero /\ reg.removals = Zero

PlacesOfThePass ==
  /\ wpc = "parse" => batch # <<>> /\ Empty(reg, Head(batch).file)
  /\ wpc = "boot" => ~ notify
  /\ wpc \in {"remove", "add", "mark"} => reg.removals = Zero
  /\ wpc = "mark" => reg.additions = Zero

WatcherInv == RegistryInv /\ WatcherTypes /\ StartupPassIsFresh /\ PlacesOfThePass

LEMMA RegistryNow ==
  ASSUME Consistent(reg'), BalancedIn(reg', told'), told' \in [Ids -> Int]
  PROVE  RegistryInv'
BY DEF RegistryInv, Consistent, BalancedIn, CountedIn, OrderedIn, LatestIn, Providers, Pinning

LEMMA RegistrySame ==
  ASSUME RegistryInv, UNCHANGED <<reg, told>>
  PROVE  RegistryInv'
BY RegistryNow DEF RegistryInv

(* Taking either queue alone keeps the registry consistent, and balanced   *)
(* with what was told.                                                     *)
LEMMA OneQueueTaken ==
  ASSUME RegistryInv,
         \/ /\ reg' = [reg EXCEPT !.removals = Zero]
            /\ told' = [i \in Ids |-> told[i] - reg.removals[i]]
         \/ /\ reg' = [reg EXCEPT !.additions = Zero]
            /\ told' = [i \in Ids |-> told[i] + reg.additions[i]]
  PROVE  RegistryInv'
<1>1. /\ reg \in Registries /\ told \in [Ids -> Int]
      /\ reg.removals \in [Ids -> Nat] /\ reg.additions \in [Ids -> Nat]
      /\ \A i \in Ids : told[i] + reg.additions[i] - reg.removals[i]
                          = IF i \in reg.keys THEN 1 ELSE 0
  BY DEF RegistryInv, Consistent, Registries, Counts, BalancedIn
<1>2. Zero \in Counts /\ \A i \in Ids : Zero[i] = 0
  BY DEF Zero, Counts
<1>3. /\ reg'.depots = reg.depots /\ reg'.refs = reg.refs /\ reg'.keys = reg.keys
      /\ reg'.filePins = reg.filePins /\ reg'.seq = reg.seq
      /\ reg'.parses = reg.parses /\ reg'.pins = reg.pins /\ reg' \in Registries
  BY <1>1, <1>2 DEF Registries
<1>4. CountedIn(reg') /\ OrderedIn(reg') /\ LatestIn(reg')
  <2>1. CountedIn(reg) /\ OrderedIn(reg) /\ LatestIn(reg)
    BY DEF RegistryInv, Consistent
  <2>2. CountedIn(reg')
    BY <1>3, <2>1 DEF CountedIn, Providers
  <2>3. OrderedIn(reg')
    BY <1>3, <2>1 DEF OrderedIn
  <2>4. LatestIn(reg')
    BY <1>3, <2>1 DEF LatestIn, Pinning
  <2> QED
    BY <2>2, <2>3, <2>4
<1>5. CASE /\ reg' = [reg EXCEPT !.removals = Zero]
           /\ told' = [i \in Ids |-> told[i] - reg.removals[i]]
  <2>1. reg'.removals = Zero /\ reg'.additions = reg.additions
    BY <1>1, <1>5 DEF Registries
  <2>2. told' \in [Ids -> Int]
    BY <1>1, <1>5
  <2>3. BalancedIn(reg', told')
    BY <1>1, <1>2, <1>3, <1>5, <2>1 DEF BalancedIn
  <2> QED
    BY <1>3, <1>4, <2>2, <2>3, RegistryNow DEF Consistent
<1>6. CASE /\ reg' = [reg EXCEPT !.additions = Zero]
           /\ told' = [i \in Ids |-> told[i] + reg.additions[i]]
  <2>1. reg'.additions = Zero /\ reg'.removals = reg.removals
    BY <1>1, <1>6 DEF Registries
  <2>2. told' \in [Ids -> Int]
    BY <1>1, <1>6
  <2>3. BalancedIn(reg', told')
    BY <1>1, <1>2, <1>3, <1>6, <2>1 DEF BalancedIn
  <2> QED
    BY <1>3, <1>4, <2>2, <2>3, RegistryNow DEF Consistent
<1> QED
  BY <1>5, <1>6

LEMMA WatcherInvInit == LiveInit => WatcherInv
<1> SUFFICES ASSUME LiveInit
             PROVE  WatcherInv
  OBVIOUS
<1>1. /\ disk \in [Files -> Scripts \cup {Gone}] /\ reg = EmptyRegistry /\ told = Zero
      /\ seen = <<>> /\ wpc = "boot" /\ batch = <<>> /\ notify = FALSE /\ watching = FALSE
  BY DEF LiveInit
<1>2. RegistryInv
  BY <1>1, RegistryInvInit DEF RegistryInit
<1>3. <<>> \in Batches
  BY DEF Batches, OncePerFile
<1>4. reg.removals = Zero /\ reg.depots = [f \in Files |-> {}]
  BY <1>1 DEF EmptyRegistry
<1> QED
  BY <1>1, <1>2, <1>3, <1>4 DEF WatcherInv, WatcherTypes, StartupPassIsFresh,
     PlacesOfThePass, WatcherPlaces

(* A step that changes neither the registry nor the pass.                  *)
passVars == <<reg, told, wpc, batch, seen, notify, disk, watching>>

LEMMA WatcherInvSame ==
  ASSUME WatcherInv, UNCHANGED passVars
  PROVE  WatcherInv'
<1>1. UNCHANGED <<reg, told>> /\ RegistryInv
  BY DEF passVars, WatcherInv
<1>2. RegistryInv'
  BY <1>1, RegistrySame
<1> QED
  BY <1>2 DEF passVars, WatcherInv, WatcherTypes, StartupPassIsFresh, PlacesOfThePass, Empty

(* The files change, a pass begins.                                        *)
LEMMA BatchesBegin ==
  ASSUME WatcherInv,
         \/ \E f \in Files, content \in Scripts \cup {Gone} : EditFile(f, content)
         \/ Boot
         \/ Collect
         \/ Reload
  PROVE  WatcherInv'
<1> USE DEF WatcherInv
<1>0. <<>> \in Batches
  BY DEF Batches, OncePerFile
<1>1. ASSUME NEW f \in Files, NEW content \in Scripts \cup {Gone}, EditFile(f, content)
      PROVE  WatcherInv'
  <2>1. /\ UNCHANGED <<reg, told, wpc, batch, notify, watching>>
        /\ disk' = [disk EXCEPT ![f] = content]
        /\ seen' = IF watching
                   THEN Merge(seen, f, IF content = Gone THEN "remove" ELSE "write")
                   ELSE seen
    BY <1>1 DEF EditFile
  <2>2. seen' \in Batches
    BY <2>1, MergedBatch DEF WatcherTypes
  <2>3. disk' \in [Files -> Scripts \cup {Gone}]
    BY <2>1 DEF WatcherTypes
  <2>4. RegistryInv'
    BY <2>1, RegistrySame
  <2> QED
    BY <2>1, <2>2, <2>3, <2>4
       DEF WatcherTypes, StartupPassIsFresh, PlacesOfThePass, Empty
<1>2. CASE Boot
  <2>1. /\ UNCHANGED <<reg, told, disk, seen, watching>> /\ wpc = "boot" /\ wpc' = "files"
        /\ notify' = FALSE /\ batch' \in Passes({f \in Files : disk[f] # Gone})
    BY <1>2 DEF Boot, files
  <2>2. batch' \in Batches /\ FilesOf(batch') \subseteq Files
    BY <2>1, PassIsABatch
  <2>3. ~ notify /\ reg.depots = [f \in Files |-> {}] /\ told = Zero /\ reg.removals = Zero
    BY <2>1 DEF PlacesOfThePass, StartupPassIsFresh
  <2>4. RegistryInv'
    BY <2>1, RegistrySame
  <2>5. \A f \in FilesOf(batch') : reg'.depots[f] = {}
    BY <2>1, <2>2, <2>3
  <2> QED
    BY <2>1, <2>2, <2>3, <2>4, <2>5
       DEF WatcherTypes, WatcherPlaces, StartupPassIsFresh, PlacesOfThePass, FilesOf
<1>3. CASE Collect
  <2>1. /\ UNCHANGED <<reg, told, disk>> /\ wpc = "wait" /\ wpc' = "files"
        /\ notify' = TRUE /\ batch' = seen /\ seen' = <<>>
    BY <1>3 DEF Collect, files
  <2>2. RegistryInv'
    BY <2>1, RegistrySame
  <2> QED
    BY <1>0, <2>1, <2>2 DEF WatcherTypes, WatcherPlaces, StartupPassIsFresh, PlacesOfThePass
<1>4. CASE Reload
  <2>1. /\ UNCHANGED <<reg, told, disk>> /\ wpc = "wait" /\ wpc' = "files"
        /\ notify' = TRUE /\ seen' = <<>>
    BY <1>4 DEF Reload
  <2>2. batch' \in Batches
    <3>1. PICK p \in Passes({f \in Files : disk[f] # Gone}),
               q \in Passes({f \in Files : disk[f] = Gone}) :
            batch' = [k \in DOMAIN q |-> Change(q[k].file, "remove")] \o p
      BY <1>4 DEF Reload
    <3> DEFINE S == {f \in Files : disk[f] # Gone}
               T == {f \in Files : disk[f] = Gone}
    <3>2. S \in SUBSET Files /\ T \in SUBSET Files /\ S \cap T = {}
      OBVIOUS
    <3>3. p \in Passes(S) /\ q \in Passes(T)
      OBVIOUS
    <3> HIDE DEF S, T
    <3> QED
      BY <3>1, <3>2, <3>3, ReloadIsABatch
  <2>3. RegistryInv'
    BY <2>1, RegistrySame
  <2> QED
    BY <1>0, <2>1, <2>2, <2>3
       DEF WatcherTypes, WatcherPlaces, StartupPassIsFresh, PlacesOfThePass
<1> QED
  BY <1>1, <1>2, <1>3, <1>4

(* One file of the pass is unloaded, or run.                               *)
LEMMA FilesRead ==
  ASSUME WatcherInv, UnloadNext \/ RunNext
  PROVE  WatcherInv'
<1> USE DEF WatcherInv
<1> DEFINE f == Head(batch).file
<1>1. batch # <<>>
  BY DEF UnloadNext, RunNext, PlacesOfThePass
<1>2. /\ Head(batch) \in Changes /\ f \in FilesOf(batch) /\ Tail(batch) \in Batches
      /\ f \notin FilesOf(Tail(batch)) /\ FilesOf(Tail(batch)) \subseteq FilesOf(batch)
  BY <1>1, RestOfBatch DEF WatcherTypes
<1>3. f \in Files
  BY <1>2 DEF Changes
<1>4. /\ Consistent(reg) /\ told \in [Ids -> Int] /\ BalancedIn(reg, told)
      /\ reg.depots \in [Files -> SUBSET Ids] /\ reg.removals \in [Ids -> Nat]
  BY DEF RegistryInv, Consistent, Registries, Counts
<1>5. ~ notify => reg.depots[f] = {} /\ told = Zero /\ reg.removals = Zero
  BY <1>2 DEF StartupPassIsFresh, UnloadNext, RunNext
<1>6. CASE UnloadNext
  <2>1. /\ wpc = "files" /\ reg' = Unload(reg, f)
        /\ UNCHANGED <<told, disk, seen, notify, watching>>
        /\ \/ batch' = Tail(batch) /\ wpc' = wpc
           \/ wpc' = "parse" /\ batch' = batch
    BY <1>6 DEF UnloadNext, files
  <2>2. Consistent(reg') /\ BalancedIn(reg', told') /\ Empty(reg', f)
    BY <1>3, <1>4, <2>1, UnloadConsistent
  <2>3. RegistryInv'
    BY <1>4, <2>1, <2>2, RegistryNow
  <2>4. /\ reg'.depots = [reg.depots EXCEPT ![f] = {}]
        /\ \E last \in SUBSET (reg.depots[f] \cap reg.keys) :
             /\ reg'.keys = reg.keys \ last
             /\ \A i \in Ids : reg'.removals[i]
                                 = reg.removals[i] + IF i \in last THEN 1 ELSE 0
    <3> HIDE DEF f
    <3>1. /\ Unload(reg, f).depots = [reg.depots EXCEPT ![f] = {}]
          /\ \E last \in SUBSET (reg.depots[f] \cap reg.keys) :
               /\ Unload(reg, f).keys = reg.keys \ last
               /\ \A i \in Ids : Unload(reg, f).removals[i]
                                   = reg.removals[i] + IF i \in last THEN 1 ELSE 0
      BY <1>3, <1>4, UnloadFlow
    <3>2. reg' = Unload(reg, f)
      BY <2>1
    <3> QED
      BY <3>1, <3>2
  <2>5. reg' \in Registries
    BY <2>2 DEF Consistent
  <2>6. ASSUME ~ notify
        PROVE  reg'.removals = Zero
    <3>1. \A i \in Ids : reg'.removals[i] = 0
      BY <1>5, <2>4, <2>6 DEF Zero
    <3>2. reg'.removals \in [Ids -> Nat]
      BY <2>5 DEF Registries, Counts
    <3> QED
      BY <3>1, <3>2 DEF Zero
  <2>7. FilesOf(batch') \subseteq FilesOf(batch)
    BY <1>2, <2>1
  <2>8. WatcherTypes'
    BY <1>2, <2>1 DEF WatcherTypes, WatcherPlaces
  <2>9. StartupPassIsFresh'
    <3>1. \A g \in FilesOf(batch) : g \in Files
      BY FilesOfBatches DEF WatcherTypes
    <3>2. ~ notify => \A g \in FilesOf(batch) : reg'.depots[g] = {}
      BY <1>4, <2>1, <2>4, <3>1 DEF StartupPassIsFresh
    <3>3. ~ notify => \A g \in FilesOf(batch') : reg'.depots[g] = {}
      BY <2>7, <3>2
    <3> HIDE DEF f
    <3> QED
      BY <1>5, <2>1, <2>6, <3>3 DEF StartupPassIsFresh, FilesOf
  <2>10. PlacesOfThePass'
    BY <1>1, <2>1, <2>2 DEF PlacesOfThePass
  <2> QED
    BY <2>3, <2>8, <2>9, <2>10
<1>7. CASE RunNext
  <2>1. /\ wpc = "parse" /\ UNCHANGED <<told, disk, seen, notify, watching>>
        /\ reg' = IF disk[f] = Gone THEN reg ELSE Run(reg, f, disk[f])
        /\ batch' = Tail(batch) /\ wpc' = "files"
    BY <1>7 DEF RunNext, files
  <2>2. Empty(reg, f)
    BY <2>1 DEF PlacesOfThePass
  <2>3. disk[f] \in Scripts \cup {Gone}
    BY <1>3 DEF WatcherTypes
  <2>4. Consistent(reg') /\ BalancedIn(reg', told')
    <3>1. ASSUME disk[f] # Gone
          PROVE  Consistent(Run(reg, f, disk[f])) /\ BalancedIn(Run(reg, f, disk[f]), told)
      BY <1>3, <1>4, <2>2, <2>3, <3>1, RunType, RunCounts, RunPins, RunBalanced
         DEF Consistent
    <3> QED
      BY <1>4, <2>1, <3>1
  <2>5. RegistryInv'
    BY <1>4, <2>1, <2>4, RegistryNow
  <2>6. reg'.removals = reg.removals /\ \A g \in Files \ {f} : reg'.depots[g] = reg.depots[g]
    <3>1. ASSUME disk[f] # Gone
          PROVE  /\ Run(reg, f, disk[f]).removals = reg.removals
                 /\ Run(reg, f, disk[f]).depots = [reg.depots EXCEPT ![f] = disk[f].ids]
      BY <1>3, <1>4, <2>3, <3>1, RunFlow
    <3> QED
      BY <1>4, <2>1, <3>1
  <2>7. WatcherTypes'
    BY <1>2, <2>1 DEF WatcherTypes, WatcherPlaces
  <2>8. StartupPassIsFresh'
    <3>1. \A g \in FilesOf(batch) : g \in Files
      BY FilesOfBatches DEF WatcherTypes
    <3>2. ~ notify => \A g \in FilesOf(Tail(batch)) : reg'.depots[g] = {}
      BY <1>2, <2>1, <2>6, <3>1 DEF StartupPassIsFresh
    <3> HIDE DEF f
    <3> QED
      BY <1>5, <2>1, <2>6, <3>2 DEF StartupPassIsFresh, FilesOf
  <2>9. PlacesOfThePass'
    BY <2>1 DEF PlacesOfThePass
  <2> QED
    BY <2>5, <2>7, <2>8, <2>9
<1> QED
  BY <1>6, <1>7

(* The pass ends, and NotifyLicenseChanged takes the queues.               *)
LEMMA QueuesTaken ==
  ASSUME WatcherInv,
         \/ EndPass
         \/ OpenWatches
         \/ NotifyTooEarly
         \/ TakeRemovals
         \/ RemovalsDone
         \/ TakeAdditions /\ UNCHANGED <<batch, seen, notify, disk, watching>>
         \/ QueueRemovals
  PROVE  WatcherInv'
<1> USE DEF WatcherInv
<1>0. /\ reg \in Registries /\ told \in [Ids -> Int] /\ reg.additions \in [Ids -> Nat]
      /\ Zero \in [Ids -> Nat] /\ \A i \in Ids : Zero[i] = 0
  BY DEF RegistryInv, Consistent, Registries, Counts, Zero
<1>1. CASE EndPass
  <2>1. /\ wpc = "files" /\ batch = <<>> /\ UNCHANGED <<disk, seen, batch, notify, watching>>
        /\ wpc' \in {"open", "take"}
        /\ ~ watching => wpc' = "open"
        /\ IF notify THEN UNCHANGED <<reg, told>>
           ELSE /\ reg' = [reg EXCEPT !.additions = Zero]
                /\ told' = [i \in Ids |-> told[i] + reg.additions[i]]
    BY <1>1 DEF EndPass, files
  <2>2. RegistryInv'
    BY <2>1, RegistrySame, OneQueueTaken
  <2>3. ~ notify => reg'.additions = Zero /\ reg'.removals = Zero
    BY <1>0, <2>1 DEF StartupPassIsFresh, Registries
  <2>4. ~ notify => wpc' = "open" /\ ~ watching'
    BY <2>1 DEF StartupPassIsFresh
  <2>5. WatcherTypes'
    BY <2>1 DEF WatcherTypes, WatcherPlaces
  <2>6. StartupPassIsFresh'
    BY <2>1, <2>3, <2>4 DEF StartupPassIsFresh
  <2>7. PlacesOfThePass'
    BY <2>1, <2>3 DEF PlacesOfThePass
  <2> QED
    BY <2>2, <2>5, <2>6, <2>7
<1>2. CASE OpenWatches
  <2>1. /\ wpc = "open" /\ UNCHANGED <<reg, told, disk, seen, batch, notify>>
        /\ wpc' = IF notify THEN "take" ELSE "wait"
    BY <1>2 DEF OpenWatches
  <2>2. RegistryInv'
    BY <2>1, RegistrySame
  <2> QED
    BY <2>1, <2>2 DEF WatcherTypes, WatcherPlaces, StartupPassIsFresh, PlacesOfThePass
<1>3. CASE NotifyTooEarly
  <2>1. /\ wpc = "take" /\ UNCHANGED <<reg, told, disk, seen, batch, notify>>
        /\ wpc' = "wait"
    BY <1>3 DEF NotifyTooEarly, files
  <2>2. RegistryInv'
    BY <2>1, RegistrySame
  <2> QED
    BY <2>1, <2>2 DEF WatcherTypes, WatcherPlaces, StartupPassIsFresh, PlacesOfThePass
<1>4. CASE TakeRemovals
  <2>1. /\ wpc = "take" /\ UNCHANGED <<disk, seen, batch, notify>> /\ wpc' = "remove"
        /\ reg' = [reg EXCEPT !.removals = Zero]
        /\ told' = [i \in Ids |-> told[i] - reg.removals[i]]
    BY <1>4 DEF TakeRemovals, files
  <2>2. RegistryInv'
    BY <2>1, OneQueueTaken
  <2>3. reg'.removals = Zero
    BY <1>0, <2>1 DEF Registries
  <2> QED
    BY <2>1, <2>2, <2>3 DEF WatcherTypes, WatcherPlaces, StartupPassIsFresh, PlacesOfThePass
<1>5. CASE RemovalsDone
  <2>1. /\ wpc = "remove" /\ UNCHANGED <<reg, told, disk, seen, batch, notify>>
        /\ wpc' = "add"
    BY <1>5 DEF RemovalsDone, files
  <2>2. RegistryInv'
    BY <2>1, RegistrySame
  <2> QED
    BY <2>1, <2>2 DEF WatcherTypes, WatcherPlaces, StartupPassIsFresh, PlacesOfThePass
<1>6. CASE TakeAdditions /\ UNCHANGED <<batch, seen, notify, disk, watching>>
  <2>1. /\ wpc = "add" /\ UNCHANGED <<disk, seen, batch, notify>> /\ wpc' = "mark"
        /\ reg' = [reg EXCEPT !.additions = Zero]
        /\ told' = [i \in Ids |-> told[i] + reg.additions[i]]
    BY <1>6 DEF TakeAdditions
  <2>2. RegistryInv'
    BY <2>1, OneQueueTaken
  <2>3. reg'.removals = Zero /\ reg'.additions = Zero
    BY <1>0, <2>1 DEF Registries, PlacesOfThePass
  <2> QED
    BY <2>1, <2>2, <2>3 DEF WatcherTypes, WatcherPlaces, StartupPassIsFresh, PlacesOfThePass
<1>7. CASE QueueRemovals
  <2>1. /\ wpc = "mark" /\ UNCHANGED <<reg, told, disk, seen, batch, notify>>
        /\ wpc' = "wait"
    BY <1>7 DEF QueueRemovals, files
  <2>2. RegistryInv'
    BY <2>1, RegistrySame
  <2> QED
    BY <2>1, <2>2 DEF WatcherTypes, WatcherPlaces, StartupPassIsFresh, PlacesOfThePass
<1> QED
  BY <1>1, <1>2, <1>3, <1>4, <1>5, <1>6, <1>7

LEMMA WatcherInvStep == WatcherInv /\ [LiveNext]_liveVars => WatcherInv'
<1> SUFFICES ASSUME WatcherInv, [LiveNext]_liveVars
             PROVE  WatcherInv'
  OBVIOUS
<1>1. CASE \/ \E f \in Files, content \in Scripts \cup {Gone} : EditFile(f, content)
           \/ Boot \/ Collect \/ Reload
  BY <1>1, BatchesBegin
<1>2. CASE UnloadNext \/ RunNext
  BY <1>2, FilesRead
<1>3. CASE \/ EndPass \/ OpenWatches \/ NotifyTooEarly \/ TakeRemovals
           \/ RemovalsDone \/ QueueRemovals
  BY <1>3, QueuesTaken
<1>4. CASE ApplyAdditions \/ LoseAdditions
  <2>1. TakeAdditions /\ UNCHANGED <<batch, seen, notify, disk, watching>>
    BY <1>4 DEF ApplyAdditions, LoseAdditions, files
  <2> QED
    BY <2>1, QueuesTaken
<1>5. CASE \/ \E i \in Ids : RemoveNext(i)
           \/ SteamNext \/ PackageUnusable \/ \E i \in Ids : MarkOwned(i)
           \/ UINext
  <2>1. UNCHANGED passVars
    BY <1>5 DEF RemoveNext, SteamNext, StartInjection, Inject, PackageUnusable, MarkOwned,
                UINext, RunFrame, HideApp, passVars, watcher, files
  <2> QED
    BY <2>1, WatcherInvSame
<1>6. CASE UNCHANGED liveVars
  <2>1. UNCHANGED passVars
    BY <1>6 DEF liveVars, watcher, files, passVars
  <2> QED
    BY <2>1, WatcherInvSame
<1> QED
  BY <1>1, <1>2, <1>3, <1>4, <1>5, <1>6 DEF LiveNext, WatcherNext

LEMMA WatcherInvAlways == LiveSpec => []WatcherInv
BY WatcherInvInit, WatcherInvStep, PTL DEF LiveSpec

(* What WatcherInv says of the queues, depot by depot.                     *)
LEMMA QueueFacts ==
  ASSUME WatcherInv
  PROVE  /\ reg.keys \subseteq Ids /\ reg \in Registries
         /\ \A i \in Ids : /\ told[i] \in Int /\ reg.additions[i] \in Nat
                           /\ reg.removals[i] \in Nat
                           /\ told[i] + reg.additions[i] - reg.removals[i]
                                = IF i \in reg.keys THEN 1 ELSE 0
         /\ \A i \in Ids : Zero[i] = 0
<1>1. /\ reg.keys \subseteq Ids /\ reg \in Registries /\ told \in [Ids -> Int]
      /\ reg.additions \in [Ids -> Nat] /\ reg.removals \in [Ids -> Nat]
  BY DEF WatcherInv, RegistryInv, Consistent, Registries, Counts
<1>2. BalancedIn(reg, told)
  BY DEF WatcherInv, RegistryInv
<1>3. \A i \in Ids : told[i] + reg.additions[i] - reg.removals[i]
                       = IF i \in reg.keys THEN 1 ELSE 0
  BY <1>2 DEF BalancedIn
<1> QED
  BY <1>1, <1>3 DEF Zero

(* One file of the pass: the depots that go are among those it named, and  *)
(* the ones that come were not registered.                                 *)
LEMMA FileFlow ==
  ASSUME WatcherInv, UnloadNext \/ RunNext
  PROVE  LET f == Head(batch).file
         IN  /\ f \in Files /\ batch # <<>> /\ reg'.depots \in [Files -> SUBSET Ids]
             /\ \A g \in Files \ {f} : reg'.depots[g] = reg.depots[g]
             /\ \E out \in SUBSET (reg.depots[f] \cap reg.keys),
                   new \in SUBSET (Ids \ reg.keys) :
                  /\ wpc = "files" => reg'.depots[f] = {} /\ new = {}
                  /\ reg'.keys = (reg.keys \ out) \cup new
                  /\ \A i \in Ids : reg'.removals[i]
                                      = reg.removals[i] + IF i \in out THEN 1 ELSE 0
                  /\ \A i \in Ids : reg'.additions[i]
                                      = reg.additions[i] + IF i \in new THEN 1 ELSE 0
<1> DEFINE f == Head(batch).file
           Flow(out, new) ==
             /\ wpc = "files" => reg'.depots[f] = {} /\ new = {}
             /\ reg'.keys = (reg.keys \ out) \cup new
             /\ \A i \in Ids : reg'.removals[i]
                                 = reg.removals[i] + IF i \in out THEN 1 ELSE 0
             /\ \A i \in Ids : reg'.additions[i]
                                 = reg.additions[i] + IF i \in new THEN 1 ELSE 0
<1>1. batch # <<>>
  BY DEF UnloadNext, RunNext, PlacesOfThePass, WatcherInv
<1>2. f \in Files
  BY <1>1, RestOfBatch DEF WatcherInv, WatcherTypes, Changes
<1>3. /\ Consistent(reg) /\ reg.depots \in [Files -> SUBSET Ids] /\ reg.keys \subseteq Ids
      /\ reg.additions \in [Ids -> Nat] /\ reg.removals \in [Ids -> Nat]
  BY DEF WatcherInv, RegistryInv, Consistent, Registries, Counts
<1>4. CASE UnloadNext
  <2>1. reg' = Unload(reg, f)
    BY <1>4 DEF UnloadNext
  <2> HIDE DEF f
  <2>2. /\ Unload(reg, f).depots = [reg.depots EXCEPT ![f] = {}]
        /\ Unload(reg, f).additions = reg.additions
    BY <1>2, <1>3, UnloadFlow
  <2>3. PICK last \in SUBSET (reg.depots[f] \cap reg.keys) :
             /\ Unload(reg, f).keys = reg.keys \ last
             /\ \A i \in Ids : Unload(reg, f).removals[i]
                                 = reg.removals[i] + IF i \in last THEN 1 ELSE 0
    BY <1>2, <1>3, UnloadFlow
  <2>4. /\ reg'.depots \in [Files -> SUBSET Ids] /\ reg'.depots[f] = {}
        /\ \A g \in Files \ {f} : reg'.depots[g] = reg.depots[g]
    BY <1>2, <1>3, <2>1, <2>2
  <2>5. Flow(last, {})
    BY <1>3, <2>1, <2>2, <2>3, <2>4
  <2>6. {} \in SUBSET (Ids \ reg.keys)
    OBVIOUS
  <2> QED
    BY <1>1, <1>2, <2>4, <2>5, <2>6, ZenonT(30) DEF f
<1>5. CASE RunNext
  <2>1. reg' = (IF disk[f] = Gone THEN reg ELSE Run(reg, f, disk[f])) /\ wpc = "parse"
    BY <1>5 DEF RunNext
  <2>2. disk[f] \in Scripts \cup {Gone}
    BY <1>2 DEF WatcherInv, WatcherTypes
  <2>3. {} \in SUBSET (reg.depots[f] \cap reg.keys)
    OBVIOUS
  <2> HIDE DEF f
  <2>4. CASE disk[f] = Gone
    <3>1. reg' = reg
      BY <2>1, <2>4
    <3>2. Flow({}, {}) /\ {} \in SUBSET (Ids \ reg.keys)
      BY <1>3, <2>1, <3>1
    <3> QED
      BY <1>1, <1>2, <1>3, <2>3, <3>1, <3>2 DEF f
  <2>5. CASE disk[f] # Gone
    <3> DEFINE s == disk[f]
    <3>1. s \in Scripts /\ reg' = Run(reg, f, s)
      BY <2>1, <2>2, <2>5
    <3> HIDE DEF s
    <3>2. /\ Run(reg, f, s).depots = [reg.depots EXCEPT ![f] = s.ids]
          /\ Run(reg, f, s).keys = reg.keys \cup s.ids
          /\ Run(reg, f, s).removals = reg.removals
          /\ \A i \in Ids : Run(reg, f, s).additions[i] = reg.additions[i]
               + IF i \in s.ids /\ i \notin reg.keys THEN 1 ELSE 0
          /\ s.ids \subseteq Ids
      BY <1>2, <1>3, <3>1, RunFlow
    <3>3. /\ reg'.depots \in [Files -> SUBSET Ids]
          /\ \A g \in Files \ {f} : reg'.depots[g] = reg.depots[g]
      BY <1>2, <1>3, <3>1, <3>2
    <3>4. s.ids \ reg.keys \in SUBSET (Ids \ reg.keys)
      BY <3>2
    <3>5. Flow({}, s.ids \ reg.keys)
      <4>1. reg'.keys = (reg.keys \ {}) \cup (s.ids \ reg.keys)
        BY <3>1, <3>2
      <4>2. \A i \in Ids : reg'.removals[i] = reg.removals[i] + IF i \in {} THEN 1 ELSE 0
        BY <1>3, <3>1, <3>2
      <4>3. \A i \in Ids : reg'.additions[i]
                             = reg.additions[i] + IF i \in s.ids \ reg.keys THEN 1 ELSE 0
        BY <3>1, <3>2
      <4> QED
        BY <2>1, <4>1, <4>2, <4>3
    <3> QED
      BY <1>1, <1>2, <2>3, <3>3, <3>4, <3>5 DEF f
  <2> QED
    BY <2>4, <2>5
<1> QED
  BY <1>4, <1>5

----------------------------------------------------------------------------
(* The removals on their way to the UI.  One that waits there although a   *)
(* file names its depot again is about to be cancelled by an addition; of  *)
(* those NotifyLicenseChanged holds the same is true, because a depot was  *)
(* not told twice; and there is none before the package is known.          *)
NoneWaits ==
  /\ \A i \in queue \cap reg.keys : reg.additions[i] > 0
  /\ wpc = "wait" => queue = {} \/ reg.additions = Zero
  /\ ~ resolved \/ ~ notify => queue = {}
  /\ queue \subseteq Ids

NoneIsHeld ==
  /\ wpc \in {"remove", "add", "mark"} => resolved
  /\ wpc \notin {"remove", "add"} => \A i \in Ids : told[i] <= 1
  /\ wpc \in {"remove", "add"} => \A i \in reg.keys : gone[i] > 0 => reg.additions[i] > 0
  /\ wpc = "mark" => \A i \in reg.keys : gone[i] > 0 => i \in added

ShownInv == "full" \notin world => NoneWaits /\ NoneIsHeld

LEMMA ShownInvInit == LiveInit => ShownInv
<1> SUFFICES ASSUME LiveInit
             PROVE  ShownInv
  OBVIOUS
<1>1. queue = {} /\ wpc = "boot" /\ told = Zero
  BY DEF LiveInit
<1> QED
  BY <1>1 DEF ShownInv, NoneWaits, NoneIsHeld, Zero

LEMMA ShownInvStep == WatcherInv /\ ShownInv /\ [LiveNext]_liveVars => ShownInv'
<1> SUFFICES ASSUME WatcherInv, ShownInv, [LiveNext]_liveVars, "full" \notin world'
             PROVE  NoneWaits' /\ NoneIsHeld'
  BY DEF ShownInv
<1>0. world' = world
  BY DEF LiveNext, EditFile, Reload, WatcherNext, Boot, Collect, UnloadNext, RunNext, EndPass,
         OpenWatches, NotifyTooEarly, TakeRemovals, RemoveNext, RemovalsDone, ApplyAdditions,
         LoseAdditions, QueueRemovals, SteamNext, StartInjection, Inject, UINext, RunFrame,
         HideApp, PackageUnusable, MarkOwned, files, liveVars
<1>1. NoneWaits /\ NoneIsHeld
  BY <1>0 DEF ShownInv
<1>2. /\ reg.keys \subseteq Ids /\ reg \in Registries
      /\ \A i \in Ids : /\ told[i] \in Int /\ reg.additions[i] \in Nat
                        /\ reg.removals[i] \in Nat
                        /\ told[i] + reg.additions[i] - reg.removals[i]
                             = IF i \in reg.keys THEN 1 ELSE 0
      /\ \A i \in Ids : Zero[i] = 0
  BY QueueFacts
<1> USE DEF NoneWaits, NoneIsHeld
<1>3. CASE \/ \E f \in Files, content \in Scripts \cup {Gone} : EditFile(f, content)
           \/ Boot \/ Collect \/ Reload
  <2>1. /\ UNCHANGED <<reg, told, queue, resolved, gone, added>>
        /\ wpc' = wpc \/ (wpc' = "files" /\ wpc \in {"boot", "wait"})
        /\ notify => notify'
    BY <1>3 DEF EditFile, Boot, Collect, Reload, steam, ui, WatcherInv, PlacesOfThePass
  <2> QED
    BY <1>1, <2>1
<1>4. CASE UnloadNext \/ RunNext
  <2>1. /\ UNCHANGED <<told, queue, resolved, gone, added, notify>>
        /\ wpc \in {"files", "parse"} /\ wpc' \in {"files", "parse"}
    BY <1>4 DEF UnloadNext, RunNext, steam, ui
  <2>2. PICK out \in SUBSET (reg.depots[Head(batch).file] \cap reg.keys),
             new \in SUBSET (Ids \ reg.keys) :
          /\ reg'.keys = (reg.keys \ out) \cup new
          /\ \A i \in Ids : reg'.additions[i]
                              = reg.additions[i] + IF i \in new THEN 1 ELSE 0
    BY <1>4, FileFlow
  <2>3. \A i \in reg'.keys :
          IF i \in new THEN reg'.additions[i] > 0
          ELSE i \in reg.keys /\ reg'.additions[i] = reg.additions[i]
    BY <1>2, <2>2
  <2>5. \A i \in queue' \cap reg'.keys : reg'.additions[i] > 0
    BY <1>1, <1>2, <2>1, <2>3
  <2> QED
    BY <1>1, <2>1, <2>5
<1>5. CASE EndPass
  <2>1. /\ UNCHANGED <<queue, resolved, gone, added, notify>> /\ wpc = "files"
        /\ wpc' \in {"open", "take"}
        /\ IF notify THEN UNCHANGED <<reg, told>>
           ELSE /\ reg' = [reg EXCEPT !.additions = Zero]
                /\ told' = [i \in Ids |-> told[i] + reg.additions[i]]
    BY <1>5 DEF EndPass, steam, ui
  <2>2. CASE notify
    BY <1>1, <2>1, <2>2
  <2>3. CASE ~ notify
    <3>1. told = Zero /\ reg.removals = Zero
      BY <2>1, <2>3 DEF WatcherInv, StartupPassIsFresh
    <3>2. \A i \in Ids : told'[i] <= 1
      BY <1>2, <2>1, <2>3, <3>1
    <3> QED
      BY <1>1, <2>1, <2>3, <3>2
  <2> QED
    BY <2>2, <2>3
<1>6. CASE OpenWatches \/ NotifyTooEarly
  <2>1. /\ UNCHANGED <<reg, told, queue, resolved, gone, added, notify>>
        /\ wpc \in {"open", "take"}
        /\ wpc' \in {"take", "wait"}
        /\ wpc' = "wait" => ~ notify \/ ~ resolved
    BY <1>6 DEF OpenWatches, NotifyTooEarly, steam, ui
  <2> QED
    BY <1>1, <2>1
<1>7. CASE TakeRemovals
  <2>1. /\ UNCHANGED <<queue, resolved, notify>> /\ wpc' = "remove" /\ resolved
        /\ gone' = reg.removals /\ reg' = [reg EXCEPT !.removals = Zero]
        /\ told' = [i \in Ids |-> told[i] - reg.removals[i]] /\ wpc = "take"
    BY <1>7 DEF TakeRemovals, steam, ui
  <2>2. reg'.keys = reg.keys /\ reg'.additions = reg.additions
    BY <1>2, <2>1 DEF Registries
  <2>3. \A i \in reg.keys : reg.removals[i] > 0 => reg.additions[i] > 0
    BY <1>1, <1>2, <2>1
  <2> QED
    BY <1>1, <1>2, <2>1, <2>2, <2>3
<1>8. CASE RemovalsDone
  <2>1. /\ UNCHANGED <<reg, told, queue, resolved, gone, added, notify>>
        /\ wpc' = "add" /\ wpc = "remove"
    BY <1>8 DEF RemovalsDone, steam, ui
  <2> QED
    BY <1>1, <2>1
<1>9. CASE ApplyAdditions
  <2>1. /\ UNCHANGED <<resolved, gone, notify>> /\ wpc' = "mark" /\ wpc = "add"
        /\ reg' = [reg EXCEPT !.additions = Zero]
        /\ told' = [i \in Ids |-> told[i] + reg.additions[i]]
        /\ queue' = queue \ Added /\ added' = Added
    BY <1>9 DEF ApplyAdditions, TakeAdditions, steam
  <2>2. reg'.keys = reg.keys
    BY <1>2, <2>1 DEF Registries
  <2>3. reg.removals = Zero
    BY <2>1 DEF WatcherInv, PlacesOfThePass
  <2>4. queue' \cap reg'.keys = {}
    BY <1>1, <1>2, <2>1, <2>2 DEF Added
  <2>5. \A i \in Ids : told'[i] <= 1
    BY <1>2, <2>1, <2>3
  <2>6. \A i \in reg'.keys : gone'[i] > 0 => i \in added'
    BY <1>1, <1>2, <2>1, <2>2 DEF Added
  <2>7. NoneWaits'
    BY <1>1, <2>1, <2>4
  <2>8. NoneIsHeld'
    BY <1>1, <2>1, <2>5, <2>6
  <2> QED
    BY <2>7, <2>8
<1>10. CASE LoseAdditions
  BY <1>0, <1>10 DEF LoseAdditions
<1>11. CASE QueueRemovals
  <2>1. /\ UNCHANGED <<reg, told, resolved, gone, added, notify>>
        /\ wpc' = "wait" /\ wpc = "mark"
        /\ \/ queue' = queue
           \/ queue' = queue \cup {i \in Ids : gone[i] > 0 /\ i \notin added}
    BY <1>11 DEF QueueRemovals, steam
  <2>2. reg.additions = Zero /\ notify
    BY <2>1 DEF WatcherInv, PlacesOfThePass, StartupPassIsFresh
  <2>3. \A i \in queue' \cap reg'.keys : reg'.additions[i] > 0
    BY <1>1, <1>2, <2>1, <2>2
  <2>4. resolved
    BY <1>1, <2>1
  <2> QED
    BY <1>1, <2>1, <2>2, <2>3, <2>4
<1>12. CASE (\E i \in Ids : RemoveNext(i)) \/ (\E i \in Ids : MarkOwned(i)) \/ Inject
            \/ UNCHANGED liveVars
  <2>1. UNCHANGED <<reg, told, wpc, queue, resolved, gone, added, notify>>
    BY <1>12 DEF RemoveNext, MarkOwned, Inject, liveVars, steam, ui, watcher
  <2> QED
    BY <1>1, <2>1
<1>13. CASE PackageUnusable \/ StartInjection
  <2>1. UNCHANGED <<reg, told, wpc, queue, gone, added, notify>> /\ resolved' = TRUE
    BY <1>13 DEF PackageUnusable, StartInjection, ui, watcher
  <2> QED
    BY <1>1, <2>1
<1>14. CASE UINext
  <2>1. /\ UNCHANGED <<reg, told, wpc, resolved, gone, added, notify>>
        /\ queue' = {} \/ queue' = queue
    BY <1>14 DEF UINext, RunFrame, HideApp, steam, watcher
  <2> QED
    BY <1>1, <2>1
<1> QED
  BY <1>3, <1>4, <1>5, <1>6, <1>7, <1>8, <1>9, <1>10, <1>11, <1>12, <1>13, <1>14
     DEF LiveNext, WatcherNext, SteamNext

LEMMA ShownInvAlways == LiveSpec => []ShownInv
BY ShownInvInit, ShownInvStep, WatcherInvAlways, PTL DEF LiveSpec

----------------------------------------------------------------------------
(* What the queues feed package 0 with, when nothing happens before the    *)
(* first injection: a depot is told, queued for addition and queued for    *)
(* removal at most once; one queued for addition is named by no file the   *)
(* pass has still to unload; and the injection runs between passes, on a   *)
(* registry that does not change under it.                                 *)
Quiet == "early" \notin world

ToldOnce ==
  \A i \in Ids : told[i] \in {0, 1} /\ reg.additions[i] <= 1 /\ reg.removals[i] <= told[i]

NewIsBehind ==
  \A i \in Ids : reg.additions[i] > 0 =>
    \A f \in FilesOf(batch) : i \notin reg.depots[f]

InjectedOnce ==
  /\ licensed \in BOOLEAN
  /\ wpc = "wait" => reg.additions = Zero /\ reg.removals = Zero
  /\ ~ licensed => ~ notify /\ seen = <<>>
  /\ licensed => resolved /\ spc = "idle" /\ (notify \/ wpc \in {"open", "wait"})
  /\ spc = "inject" => resolved /\ wpc \in {"open", "wait"}

FeedInv == Quiet => ToldOnce /\ NewIsBehind /\ InjectedOnce

LEMMA WorldStands == [LiveNext]_liveVars => world' = world
BY DEF LiveNext, EditFile, Reload, WatcherNext, Boot, Collect, UnloadNext, RunNext, EndPass,
       OpenWatches, NotifyTooEarly, TakeRemovals, RemoveNext, RemovalsDone, ApplyAdditions,
       LoseAdditions, QueueRemovals, SteamNext, StartInjection, Inject, UINext, RunFrame,
       HideApp, PackageUnusable, MarkOwned, files, liveVars

LEMMA FeedInvInit == LiveInit => FeedInv
<1> SUFFICES ASSUME LiveInit
             PROVE  FeedInv
  OBVIOUS
<1>1. /\ wpc = "boot" /\ told = Zero /\ reg = EmptyRegistry /\ batch = <<>> /\ notify = FALSE
      /\ seen = <<>> /\ licensed = FALSE /\ spc = "idle"
  BY DEF LiveInit
<1>2. reg.additions = Zero /\ reg.removals = Zero /\ \A i \in Ids : Zero[i] = 0
  BY <1>1 DEF EmptyRegistry, Zero
<1>3. ToldOnce
  BY <1>1, <1>2 DEF ToldOnce
<1>4. NewIsBehind
  BY <1>2 DEF NewIsBehind
<1>5. InjectedOnce
  BY <1>1 DEF InjectedOnce
<1> QED
  BY <1>3, <1>4, <1>5 DEF FeedInv

LEMMA FeedInvStep == WatcherInv /\ FeedInv /\ [LiveNext]_liveVars => FeedInv'
<1> SUFFICES ASSUME WatcherInv, FeedInv, [LiveNext]_liveVars, Quiet'
             PROVE  ToldOnce' /\ NewIsBehind' /\ InjectedOnce'
  BY DEF FeedInv
<1>1. Quiet /\ ToldOnce /\ NewIsBehind /\ InjectedOnce
  BY WorldStands DEF FeedInv, Quiet
<1>2. /\ reg.keys \subseteq Ids /\ reg \in Registries
      /\ \A i \in Ids : /\ told[i] \in Int /\ reg.additions[i] \in Nat
                        /\ reg.removals[i] \in Nat
                        /\ told[i] + reg.additions[i] - reg.removals[i]
                             = IF i \in reg.keys THEN 1 ELSE 0
      /\ \A i \in Ids : Zero[i] = 0
  BY QueueFacts
<1>3. ASSUME NEW f \in Files, NEW content \in Scripts \cup {Gone}, EditFile(f, content)
      PROVE  ToldOnce' /\ NewIsBehind' /\ InjectedOnce'
  <2>1. /\ UNCHANGED <<reg, told, batch, wpc, notify, licensed, resolved, spc>>
        /\ licensed
    BY <1>1, <1>3 DEF EditFile, steam, Quiet
  <2> QED
    BY <1>1, <2>1 DEF ToldOnce, NewIsBehind, InjectedOnce, FilesOf
<1>4. CASE Boot
  <2>1. /\ UNCHANGED <<reg, told, seen, licensed, resolved, spc>>
        /\ wpc = "boot" /\ wpc' = "files" /\ notify' = FALSE /\ ~ notify
        /\ batch' \in Passes({f \in Files : disk[f] # Gone})
    BY <1>4 DEF Boot, steam, files, WatcherInv, PlacesOfThePass
  <2>2. FilesOf(batch') \subseteq Files /\ \A f \in Files : reg.depots[f] = {}
    BY <2>1, PassIsABatch, FilesOfBatches DEF WatcherInv, StartupPassIsFresh
  <2>3. NewIsBehind'
    BY <2>1, <2>2 DEF NewIsBehind, FilesOf
  <2> QED
    BY <1>1, <2>1, <2>3 DEF ToldOnce, InjectedOnce
<1>5. CASE Collect \/ Reload
  <2>1. /\ UNCHANGED <<reg, told, licensed, resolved, spc>> /\ licensed
        /\ wpc = "wait" /\ wpc' = "files" /\ notify' = TRUE
    BY <1>1, <1>5 DEF Collect, Reload, steam, Quiet, InjectedOnce
  <2>2. NewIsBehind'
    BY <1>1, <1>2, <2>1 DEF NewIsBehind, InjectedOnce
  <2> QED
    BY <1>1, <2>1, <2>2 DEF ToldOnce, InjectedOnce
<1>6. CASE UnloadNext \/ RunNext
  <2> DEFINE f == Head(batch).file
  <2>1. /\ UNCHANGED <<told, seen, notify, licensed, resolved, spc>>
        /\ wpc \in {"files", "parse"} /\ wpc' \in {"files", "parse"}
        /\ batch' = Tail(batch) \/ (batch' = batch /\ wpc = "files")
    BY <1>6 DEF UnloadNext, RunNext, steam, files
  <2>2. /\ f \in Files /\ batch # <<>> /\ reg'.depots \in [Files -> SUBSET Ids]
        /\ \A g \in Files \ {f} : reg'.depots[g] = reg.depots[g]
    BY <1>6, FileFlow
  <2>3. PICK out \in SUBSET (reg.depots[f] \cap reg.keys), new \in SUBSET (Ids \ reg.keys) :
          /\ wpc = "files" => reg'.depots[f] = {} /\ new = {}
          /\ \A i \in Ids : reg'.removals[i] = reg.removals[i] + IF i \in out THEN 1 ELSE 0
          /\ \A i \in Ids : reg'.additions[i] = reg.additions[i] + IF i \in new THEN 1 ELSE 0
    BY <1>6, FileFlow
  <2>4. /\ f \in FilesOf(batch) /\ f \notin FilesOf(Tail(batch))
        /\ FilesOf(Tail(batch)) \subseteq FilesOf(batch) /\ FilesOf(batch) \subseteq Files
    BY <2>2, RestOfBatch, FilesOfBatches DEF WatcherInv, WatcherTypes
  <2>5. \A i \in Ids \ reg.keys : \A g \in Files : i \notin reg.depots[g]
    <3>1. \A i \in Ids \ reg.keys : Providers(reg, i) = {}
      BY DEF WatcherInv, RegistryInv, Consistent, CountedIn
    <3> QED
      BY <3>1 DEF Providers
  <2> HIDE DEF f
  <2>6. ASSUME NEW i \in Ids
        PROVE  told[i] \in {0, 1} /\ reg'.additions[i] <= 1 /\ reg'.removals[i] <= told[i]
    <3>1. /\ told[i] \in {0, 1} /\ reg.additions[i] <= 1 /\ reg.removals[i] <= told[i]
          /\ told[i] \in Int /\ reg.additions[i] \in Nat /\ reg.removals[i] \in Nat
          /\ told[i] + reg.additions[i] - reg.removals[i] = IF i \in reg.keys THEN 1 ELSE 0
      BY <1>1, <1>2 DEF ToldOnce
    <3>2. /\ reg'.removals[i] = reg.removals[i] + IF i \in out THEN 1 ELSE 0
          /\ reg'.additions[i] = reg.additions[i] + IF i \in new THEN 1 ELSE 0
      BY <2>3
    <3>3. i \in out => reg.additions[i] = 0 /\ i \in reg.keys /\ i \notin new
      <4>1. i \in out => ~ (reg.additions[i] > 0) /\ i \in reg.keys
        BY <1>1, <2>3, <2>4 DEF NewIsBehind
      <4> QED
        BY <3>1, <4>1
    <3>4. CASE i \in out
      <4>1. told[i] - reg.removals[i] = 1 /\ reg.additions[i] = 0
        BY <3>1, <3>3, <3>4
      <4>2. reg'.removals[i] = reg.removals[i] + 1 /\ reg'.additions[i] = 0
        BY <3>1, <3>2, <3>3, <3>4
      <4> QED
        BY <3>1, <4>1, <4>2
    <3>5. CASE i \in new
      <4>1. i \notin reg.keys /\ i \notin out
        BY <3>5
      <4>2. told[i] + reg.additions[i] - reg.removals[i] = 0
        BY <3>1, <4>1
      <4>3. reg'.removals[i] = reg.removals[i] /\ reg'.additions[i] = reg.additions[i] + 1
        BY <3>1, <3>2, <3>5, <4>1
      <4> QED
        BY <3>1, <4>2, <4>3
    <3>6. CASE i \notin out /\ i \notin new
      <4>1. reg'.removals[i] = reg.removals[i] /\ reg'.additions[i] = reg.additions[i]
        BY <3>1, <3>2, <3>6
      <4> QED
        BY <3>1, <4>1
    <3> QED
      BY <3>4, <3>5, <3>6
  <2>7. ASSUME NEW i \in Ids, reg'.additions[i] > 0, NEW g \in FilesOf(batch')
        PROVE  i \notin reg'.depots[g]
    <3>1. g \in FilesOf(batch) /\ g \in Files /\ (g = f => wpc = "files")
      BY <2>1, <2>4
    <3>2. CASE g = f
      BY <2>3, <3>1, <3>2
    <3>3. CASE g # f /\ i \in new
      BY <2>2, <2>5, <3>1, <3>3
    <3>4. CASE g # f /\ i \notin new
      <4>1. reg.additions[i] > 0
        BY <1>2, <2>3, <2>7, <3>4
      <4> QED
        BY <1>1, <2>2, <3>1, <3>4, <4>1 DEF NewIsBehind
    <3> QED
      BY <3>2, <3>3, <3>4
  <2>8. ToldOnce'
    BY <2>1, <2>6 DEF ToldOnce
  <2>9. NewIsBehind'
    BY <2>7 DEF NewIsBehind, FilesOf
  <2> QED
    BY <1>1, <2>1, <2>8, <2>9 DEF InjectedOnce
<1>7. CASE EndPass
  <2>1. /\ UNCHANGED <<seen, batch, notify, licensed, resolved, spc>>
        /\ wpc = "files" /\ batch = <<>> /\ wpc' \in {"open", "take"}
        /\ IF notify THEN UNCHANGED <<reg, told>>
           ELSE /\ reg' = [reg EXCEPT !.additions = Zero]
                /\ told' = [i \in Ids |-> told[i] + reg.additions[i]]
    BY <1>7 DEF EndPass, steam, files
  <2>2. NewIsBehind'
    BY <2>1 DEF NewIsBehind, FilesOf
  <2>3. ToldOnce'
    <3>1. CASE notify
      BY <1>1, <2>1, <3>1 DEF ToldOnce
    <3>2. CASE ~ notify
      <4>1. told = Zero /\ reg.removals = Zero
        BY <2>1, <3>2 DEF WatcherInv, StartupPassIsFresh
      <4>2. reg'.additions = Zero /\ reg'.removals = reg.removals
        BY <1>2, <2>1, <3>2 DEF Registries
      <4>3. \A i \in Ids : told'[i] = told[i] + reg.additions[i]
        BY <2>1, <3>2
      <4> QED
        BY <1>2, <4>1, <4>2, <4>3 DEF ToldOnce
    <3> QED
      BY <3>1, <3>2
  <2> QED
    BY <1>1, <2>1, <2>2, <2>3 DEF InjectedOnce
<1>8. CASE OpenWatches \/ NotifyTooEarly \/ QueueRemovals \/ RemovalsDone
  <2>1. /\ UNCHANGED <<reg, told, seen, batch, notify, licensed, resolved, spc>>
        /\ wpc \in {"open", "take", "mark", "remove"} /\ wpc' \in {"take", "wait", "add"}
        /\ (wpc' = "wait" => (wpc = "open" /\ ~ notify) \/ wpc = "mark" \/ ~ resolved)
        /\ (wpc = "open" /\ ~ notify => wpc' = "wait")
    BY <1>8 DEF OpenWatches, NotifyTooEarly, QueueRemovals, RemovalsDone, steam, files
  <2>2. wpc # "open" => notify
    BY <2>1 DEF WatcherInv, StartupPassIsFresh
  <2>3. wpc' = "wait" => reg.additions = Zero /\ reg.removals = Zero
    BY <1>1, <2>1, <2>2 DEF InjectedOnce, WatcherInv, StartupPassIsFresh, PlacesOfThePass
  <2> QED
    BY <1>1, <2>1, <2>2, <2>3 DEF ToldOnce, NewIsBehind, InjectedOnce, FilesOf
<1>9. CASE TakeRemovals
  <2>1. /\ UNCHANGED <<seen, batch, notify, licensed, resolved, spc>>
        /\ wpc = "take" /\ wpc' = "remove"
        /\ reg' = [reg EXCEPT !.removals = Zero]
        /\ told' = [i \in Ids |-> told[i] - reg.removals[i]]
    BY <1>9 DEF TakeRemovals, steam, files
  <2>2. reg'.removals = Zero /\ reg'.additions = reg.additions /\ reg'.depots = reg.depots
    BY <1>2, <2>1 DEF Registries
  <2>3. ToldOnce'
    <3>1. \A i \in Ids : /\ told'[i] = told[i] - reg.removals[i]
                         /\ told[i] \in {0, 1} /\ reg.additions[i] <= 1
                         /\ reg.removals[i] <= told[i] /\ reg.removals[i] \in Nat
      BY <1>1, <1>2, <2>1 DEF ToldOnce
    <3>2. \A i \in Ids : told'[i] \in {0, 1} /\ 0 <= told'[i]
      BY <3>1
    <3> QED
      BY <1>2, <2>2, <3>1, <3>2 DEF ToldOnce
  <2>4. notify
    BY <2>1 DEF WatcherInv, StartupPassIsFresh
  <2> QED
    BY <1>1, <2>1, <2>2, <2>3, <2>4 DEF NewIsBehind, InjectedOnce, FilesOf
<1>10. CASE ApplyAdditions \/ LoseAdditions
  <2>1. /\ UNCHANGED <<seen, batch, notify, licensed, resolved, spc>>
        /\ wpc = "add" /\ wpc' = "mark"
        /\ reg' = [reg EXCEPT !.additions = Zero]
        /\ told' = [i \in Ids |-> told[i] + reg.additions[i]]
    BY <1>10 DEF ApplyAdditions, LoseAdditions, TakeAdditions, steam, files
  <2>2. reg'.removals = reg.removals /\ reg'.additions = Zero /\ reg'.depots = reg.depots
    BY <1>2, <2>1 DEF Registries
  <2>3. reg.removals = Zero /\ notify
    BY <2>1 DEF WatcherInv, StartupPassIsFresh, PlacesOfThePass
  <2>4. ToldOnce'
    BY <1>1, <1>2, <2>1, <2>2, <2>3 DEF ToldOnce
  <2>5. NewIsBehind'
    BY <1>2, <2>2 DEF NewIsBehind
  <2> QED
    BY <1>1, <2>1, <2>3, <2>4, <2>5 DEF InjectedOnce
<1>11. CASE (\E i \in Ids : RemoveNext(i)) \/ (\E i \in Ids : MarkOwned(i)) \/ UINext
            \/ UNCHANGED liveVars
  <2>1. UNCHANGED <<reg, told, seen, batch, wpc, notify, licensed, resolved, spc>>
    BY <1>11 DEF RemoveNext, MarkOwned, UINext, RunFrame, HideApp, liveVars, steam, watcher
  <2> QED
    BY <1>1, <2>1 DEF ToldOnce, NewIsBehind, InjectedOnce, FilesOf
<1>12. CASE PackageUnusable
  <2>1. /\ UNCHANGED <<reg, told, seen, batch, wpc, notify, licensed, spc>>
        /\ resolved' = TRUE
    BY <1>12 DEF PackageUnusable, watcher
  <2> QED
    BY <1>1, <2>1 DEF ToldOnce, NewIsBehind, InjectedOnce, FilesOf
<1>13. CASE StartInjection
  <2>1. /\ UNCHANGED <<reg, told, seen, batch, wpc, notify, licensed>> /\ ~ licensed
        /\ resolved' = TRUE /\ spc' = "inject" /\ (notify \/ wpc \in {"open", "wait"})
    BY <1>13 DEF StartInjection, watcher, Hooked
  <2> QED
    BY <1>1, <2>1 DEF ToldOnce, NewIsBehind, InjectedOnce, FilesOf
<1>14. CASE Inject
  <2>1. /\ UNCHANGED <<reg, told, seen, batch, wpc, notify, resolved>>
        /\ spc = "inject" /\ licensed' = TRUE /\ spc' = "idle"
    BY <1>14 DEF Inject, watcher
  <2> QED
    BY <1>1, <2>1 DEF ToldOnce, NewIsBehind, InjectedOnce, FilesOf
<1> QED
  BY <1>3, <1>4, <1>5, <1>6, <1>7, <1>8, <1>9, <1>10, <1>11, <1>12, <1>13, <1>14
     DEF LiveNext, WatcherNext, SteamNext

LEMMA FeedInvAlways == LiveSpec => []FeedInv
BY FeedInvInit, FeedInvStep, WatcherInvAlways, PTL DEF LiveSpec

----------------------------------------------------------------------------
(* Package 0's vector.  PlacesIn is Places of any memory and size.         *)
PlacesIn(m, n, i) == {k \in 1..n : m[k] = i}

LEMMA PlacesAreCounted ==
  ASSUME NEW m, NEW n \in Nat, NEW i
  PROVE  IsFiniteSet(PlacesIn(m, n, i)) /\ Cardinality(PlacesIn(m, n, i)) \in Nat
<1>1. IsFiniteSet(1..n)
  BY FS_Interval
<1>2. PlacesIn(m, n, i) \in SUBSET (1..n)
  BY DEF PlacesIn
<1>3. IsFiniteSet(PlacesIn(m, n, i))
  BY <1>1, <1>2, FS_Subset
<1> QED
  BY <1>3, FS_CardinalityType

(* FindAndFastRemove takes one entry of its id and no other's.             *)
LEMMA FastRemoved ==
  ASSUME NEW m \in Seq(Ids), NEW n \in 1..Len(m), NEW k \in 1..n, NEW i \in Ids, m[k] = i
  PROVE  LET w == [m EXCEPT ![k] = m[n]]
         IN  /\ w \in Seq(Ids) /\ n - 1 \in 0..Len(w)
             /\ Cardinality(PlacesIn(w, n - 1, i)) = Cardinality(PlacesIn(m, n, i)) - 1
             /\ \A j \in Ids \ {i} : Cardinality(PlacesIn(w, n - 1, j))
                                       = Cardinality(PlacesIn(m, n, j))
<1> DEFINE w == [m EXCEPT ![k] = m[n]]
<1>1. /\ Len(m) \in Nat /\ n \in Nat /\ n - 1 \in Nat /\ k \in Nat
      /\ m \in [1..Len(m) -> Ids] /\ n \in 1..Len(m) /\ k \in 1..Len(m)
  OBVIOUS
<1>2. /\ w \in Seq(Ids) /\ Len(w) = Len(m) /\ w[k] = m[n]
      /\ \A p \in 1..Len(m) : p # k => w[p] = m[p]
  BY <1>1
<1> HIDE DEF w
<1>3. Cardinality(PlacesIn(w, n - 1, i)) = Cardinality(PlacesIn(m, n, i)) - 1
  <2>1. CASE m[n] = i
    <3>1. PlacesIn(w, n - 1, i) = PlacesIn(m, n, i) \ {n}
      BY <1>1, <1>2, <2>1 DEF PlacesIn
    <3>2. n \in PlacesIn(m, n, i)
      BY <1>1, <2>1 DEF PlacesIn
    <3> QED
      BY <1>1, <3>1, <3>2, PlacesAreCounted, FS_RemoveElement
  <2>2. CASE m[n] # i
    <3>1. PlacesIn(w, n - 1, i) = PlacesIn(m, n, i) \ {k}
      BY <1>1, <1>2, <2>2 DEF PlacesIn
    <3>2. k \in PlacesIn(m, n, i)
      BY <1>1 DEF PlacesIn
    <3> QED
      BY <1>1, <3>1, <3>2, PlacesAreCounted, FS_RemoveElement
  <2> QED
    BY <2>1, <2>2
<1>4. ASSUME NEW j \in Ids \ {i}
      PROVE  Cardinality(PlacesIn(w, n - 1, j)) = Cardinality(PlacesIn(m, n, j))
  <2>1. CASE m[n] = j
    <3>1. n \in PlacesIn(m, n, j) /\ k \notin PlacesIn(m, n, j) /\ k # n
      BY <1>1, <2>1 DEF PlacesIn
    <3> DEFINE P == PlacesIn(m, n, j)
    <3>2. PlacesIn(w, n - 1, j) = (P \ {n}) \cup {k}
      BY <1>1, <1>2, <2>1, <3>1 DEF PlacesIn
    <3> HIDE DEF P
    <3>3. IsFiniteSet(P) /\ Cardinality(P) \in Nat /\ n \in P /\ k \notin P
      BY <1>1, <3>1, PlacesAreCounted DEF P
    <3>4. IsFiniteSet(P \ {n}) /\ Cardinality(P \ {n}) = Cardinality(P) - 1
      BY <3>3, FS_RemoveElement
    <3>5. Cardinality((P \ {n}) \cup {k}) = Cardinality(P \ {n}) + 1
      BY <3>3, <3>4, FS_AddElement
    <3>6. Cardinality(PlacesIn(w, n - 1, j)) = Cardinality((P \ {n}) \cup {k})
      BY <3>2, Zenon
    <3>7. Cardinality((P \ {n}) \cup {k}) = Cardinality(P)
      BY <3>3, <3>4, <3>5
    <3> QED
      BY <3>6, <3>7 DEF P
  <2>2. CASE m[n] # j
    <3>1. PlacesIn(w, n - 1, j) = PlacesIn(m, n, j)
      BY <1>1, <1>2, <2>2 DEF PlacesIn
    <3> QED
      BY <3>1
  <2> QED
    BY <2>1, <2>2
<1>5. n - 1 \in 0..Len(w)
  BY <1>1, <1>2
<1> QED
  BY <1>2, <1>3, <1>4, <1>5 DEF w

(* Ids, none of them twice.                                                *)
Distinct(ids) == \A j, k \in DOMAIN ids : ids[j] = ids[k] => j = k

Listing(ids, S) ==
  /\ ids \in Seq(Ids) /\ Distinct(ids)
  /\ \A i \in Ids : i \in S <=> \E k \in 1..Len(ids) : ids[k] = i

LEMMA FunctionIsSeq ==
  ASSUME NEW S, NEW n \in Nat, NEW f \in [1..n -> S]
  PROVE  f \in Seq(S) /\ Len(f) = n
OBVIOUS

(* Writing them past the end adds one entry for each.                      *)
HeightAfter(m, n, ids) == IF n + Len(ids) > Len(m) THEN n + Len(ids) ELSE Len(m)

Written(m, n, ids, w) ==
  /\ w \in [1..HeightAfter(m, n, ids) -> Ids]
  /\ \A k \in 1..HeightAfter(m, n, ids) :
       w[k] = IF k \in n + 1..n + Len(ids) THEN ids[k - n] ELSE m[k]

LEMMA WrittenPastTheEnd ==
  ASSUME NEW S, NEW ids, Listing(ids, S), NEW m \in Seq(Ids), NEW n \in 0..Len(m),
         NEW w, Written(m, n, ids, w)
  PROVE  /\ w \in Seq(Ids) /\ n + Len(ids) \in 0..Len(w)
         /\ \A i \in Ids : Cardinality(PlacesIn(w, n + Len(ids), i))
              = Cardinality(PlacesIn(m, n, i)) + IF i \in S THEN 1 ELSE 0
<1>0. Len(m) \in Nat /\ Len(ids) \in Nat /\ n \in Nat
  BY DEF Listing
<1>a. PICK l \in Nat, h \in Nat :
        /\ l = Len(ids) /\ h = IF n + l > Len(m) THEN n + l ELSE Len(m)
        /\ w \in [1..h -> Ids]
        /\ \A k \in 1..h : w[k] = IF k \in n + 1..n + l THEN ids[k - n] ELSE m[k]
  <2>1. HeightAfter(m, n, ids) \in Nat
    BY <1>0 DEF HeightAfter
  <2>2. HeightAfter(m, n, ids) = IF n + Len(ids) > Len(m) THEN n + Len(ids) ELSE Len(m)
    BY DEF HeightAfter
  <2> QED
    BY <1>0, <2>1, <2>2 DEF Written
<1>1. /\ Len(m) \in Nat /\ n + l <= h /\ (h > n + l => h = Len(m))
      /\ \A k \in 1..Len(m) : m[k] \in Ids
      /\ \A k \in 1..l : ids[k] \in Ids
  <2>1. Len(m) \in Nat /\ \A k \in 1..Len(m) : m[k] \in Ids
    OBVIOUS
  <2>2. n + l <= h /\ (h > n + l => h = Len(m))
    BY <1>0, <1>a, <2>1
  <2>3. ids \in Seq(Ids) /\ l = Len(ids)
    BY <1>a DEF Listing
  <2>4. \A k \in 1..l : ids[k] \in Ids
    BY <2>3
  <2> QED
    BY <2>1, <2>2, <2>4
<1>2. \A k \in 1..h : k \in n + 1..n + l => k - n \in 1..l
  BY <1>0
<1>3. \A k \in 1..h : k \notin n + 1..n + l => k \in 1..Len(m) /\ (k <= n + l => k \in 1..n)
  BY <1>0, <1>1
<1>4. \A k \in 1..h : w[k] = IF k \in n + 1..n + l THEN ids[k - n] ELSE m[k]
  BY <1>a
<1>6. w \in Seq(Ids) /\ Len(w) = h
  BY <1>a, FunctionIsSeq
<1>7. n + l \in 0..Len(w)
  BY <1>0, <1>1, <1>6
<1>8. ASSUME NEW i \in Ids
      PROVE  Cardinality(PlacesIn(w, n + l, i))
               = Cardinality(PlacesIn(m, n, i)) + IF i \in S THEN 1 ELSE 0
  <2>1. i \in S <=> \E k \in 1..l : ids[k] = i
    BY <1>a DEF Listing
  <2>2. \A j, k \in 1..l : ids[j] = ids[k] => j = k
    <3>1. DOMAIN ids = 1..l
      BY <1>a DEF Listing
    <3>2. \A j, k \in DOMAIN ids : ids[j] = ids[k] => j = k
      BY DEF Listing, Distinct
    <3> QED
      BY <3>1, <3>2
  <2>3. IsFiniteSet(PlacesIn(m, n, i)) /\ Cardinality(PlacesIn(m, n, i)) \in Nat
    BY <1>0, PlacesAreCounted
  <2>4. ASSUME NEW k \in 1..(n + l)
        PROVE  w[k] = i <=> (k \in 1..n /\ m[k] = i) \/ (k - n \in 1..l /\ ids[k - n] = i)
    <3>1. k \in 1..h /\ k <= n + l
      BY <1>1
    <3>2. CASE k \in n + 1..n + l
      <4>1. w[k] = ids[k - n] /\ k - n \in 1..l
        BY <1>2, <1>4, <3>1, <3>2
      <4>2. k \notin 1..n
        BY <1>0, <3>2
      <4> QED
        BY <4>1, <4>2
    <3>3. CASE k \notin n + 1..n + l
      <4>1. w[k] = m[k] /\ k \in 1..n
        BY <1>3, <1>4, <3>1, <3>3
      <4>2. k - n \notin 1..l
        BY <1>0, <4>1
      <4> QED
        BY <4>1, <4>2
    <3> QED
      BY <3>2, <3>3
  <2>5. \A k \in 1..n : k \in 1..(n + l)
    BY <1>0
  <2>6. CASE i \notin S
    <3>1. \A k \in 1..(n + l) : w[k] = i <=> k \in 1..n /\ m[k] = i
      BY <2>1, <2>4, <2>6
    <3>2. PlacesIn(w, n + l, i) = PlacesIn(m, n, i)
      BY <2>5, <3>1 DEF PlacesIn
    <3> QED
      BY <2>3, <2>6, <3>2
  <2>7. CASE i \in S
    <3>1. PICK p \in 1..l : ids[p] = i
      BY <2>1, <2>7
    <3>2. \A k \in 1..(n + l) : k - n \in 1..l /\ ids[k - n] = i <=> k = n + p
      <4> SUFFICES ASSUME NEW k \in 1..(n + l)
                   PROVE  k - n \in 1..l /\ ids[k - n] = i <=> k = n + p
        OBVIOUS
      <4>1. ASSUME k - n \in 1..l, ids[k - n] = i
            PROVE  k = n + p
        <5>1. k - n = p
          BY <2>2, <3>1, <4>1
        <5> QED
          BY <1>0, <5>1
      <4>2. ASSUME k = n + p
            PROVE  k - n \in 1..l /\ ids[k - n] = i
        <5>1. k - n = p
          BY <1>0, <4>2
        <5> QED
          BY <3>1, <5>1
      <4> QED
        BY <4>1, <4>2
    <3>3. n + p \in 1..(n + l) /\ n + p \notin 1..n
      BY <1>0
    <3>4. \A k \in 1..(n + l) : w[k] = i <=> (k \in 1..n /\ m[k] = i) \/ k = n + p
      BY <2>4, <3>2
    <3>5. PlacesIn(w, n + l, i) = PlacesIn(m, n, i) \cup {n + p}
      BY <2>5, <3>3, <3>4 DEF PlacesIn
    <3>6. n + p \notin PlacesIn(m, n, i)
      BY <3>3 DEF PlacesIn
    <3>7. Cardinality(PlacesIn(w, n + l, i)) = Cardinality(PlacesIn(m, n, i) \cup {n + p})
      BY <3>5, Zenon
    <3>8. Cardinality(PlacesIn(m, n, i) \cup {n + p}) = Cardinality(PlacesIn(m, n, i)) + 1
      BY <2>3, <3>6, FS_AddElement
    <3> QED
      BY <2>7, <3>7, <3>8
  <2> QED
    BY <2>6, <2>7
<1> QED
  BY <1>a, <1>6, <1>7, <1>8

LEMMA EntriesWritten ==
  ASSUME NEW S, NEW ids, Listing(ids, S), mem \in Seq(Ids), size \in 0..Len(mem),
         WriteAt(size, ids)
  PROVE  /\ mem' \in Seq(Ids) /\ size' \in 0..Len(mem')
         /\ \A i \in Ids : Cardinality(PlacesIn(mem', size', i))
              = Cardinality(PlacesIn(mem, size, i)) + IF i \in S THEN 1 ELSE 0
<1> DEFINE l == Len(ids)
           h == HeightAfter(mem, size, ids)
<1>1. /\ mem' = [k \in 1..h |-> IF k \in size + 1..size + l THEN ids[k - size] ELSE mem[k]]
      /\ size' = size + l
  BY DEF WriteAt, HeightAfter
<1>2. /\ size \in Nat /\ l \in Nat /\ Len(mem) \in Nat /\ size <= Len(mem)
      /\ h = IF size + l > Len(mem) THEN size + l ELSE Len(mem)
  BY DEF Listing, HeightAfter
<1>3. (\A k \in 1..Len(mem) : mem[k] \in Ids) /\ \A k \in 1..l : ids[k] \in Ids
  BY DEF Listing
<1> HIDE DEF h, l
<1>4. \A k \in 1..h : (IF k \in size + 1..size + l THEN ids[k - size] ELSE mem[k]) \in Ids
  <2> SUFFICES ASSUME NEW k \in 1..h
               PROVE  (IF k \in size + 1..size + l THEN ids[k - size] ELSE mem[k]) \in Ids
    OBVIOUS
  <2>1. k \in size + 1..size + l => k - size \in 1..l
    BY <1>2
  <2>2. k \notin size + 1..size + l => k \in 1..Len(mem)
    BY <1>2
  <2> QED
    BY <1>3, <2>1, <2>2
<1>5. mem' \in [1..h -> Ids]
  BY <1>1, <1>4
<1>6. \A k \in 1..h : mem'[k] = IF k \in size + 1..size + l THEN ids[k - size] ELSE mem[k]
  BY <1>1
<1>7. Written(mem, size, ids, mem')
  BY <1>5, <1>6 DEF Written, h, l
<1>8. /\ mem' \in Seq(Ids) /\ size + l \in 0..Len(mem')
      /\ \A i \in Ids : Cardinality(PlacesIn(mem', size + l, i))
           = Cardinality(PlacesIn(mem, size, i)) + IF i \in S THEN 1 ELSE 0
  BY <1>7, WrittenPastTheEnd DEF l
<1> QED
  BY <1>1, <1>8

(* An enumeration that repeats nothing misses nothing.                     *)
LEMMA EnumerationCovers ==
  ASSUME NEW S, IsFiniteSet(S), NEW f \in [1..Cardinality(S) -> S],
         \A j, k \in 1..Cardinality(S) : f[j] = f[k] => j = k
  PROVE  \A s \in S : \E k \in 1..Cardinality(S) : f[k] = s
<1> DEFINE D == 1..Cardinality(S)
<1>1. Cardinality(S) \in Nat
  BY FS_CardinalityType
<1>2. Cardinality(D) = Cardinality(S) /\ IsFiniteSet(D)
  BY <1>1, FS_Interval
<1>3. f \in Injection(D, S)
  BY DEF Injection, IsInjective
<1>4. f \in Surjection(D, S)
  <2> HIDE DEF D
  <2> QED
    BY <1>2, <1>3, FS_Injection
<1> QED
  BY <1>4 DEF Surjection

(* InitFakeLicenseOnce's list.                                             *)
LEMMA DepotsListed ==
  ASSUME NEW S \in SUBSET Ids, NEW ids \in SetToSeqs(S)
  PROVE  Listing(ids, S)
<1>1. IsFiniteSet(S)
  BY LiveBoundsOK, FS_Subset
<1>2. Cardinality(S) \in Nat
  BY <1>1, FS_CardinalityType
<1>3. /\ ids \in [1..Cardinality(S) -> S]
      /\ \A j, k \in 1..Cardinality(S) : j # k => ids[j] # ids[k]
  BY DEF SetToSeqs
<1>4. \A s \in S : \E k \in 1..Cardinality(S) : ids[k] = s
  <2>1. \A j, k \in 1..Cardinality(S) : ids[j] = ids[k] => j = k
    BY <1>3
  <2> QED
    BY <1>1, <1>3, <2>1, EnumerationCovers
<1>5. ids \in Seq(Ids) /\ Len(ids) = Cardinality(S) /\ DOMAIN ids = 1..Cardinality(S)
  BY <1>2, <1>3
<1> QED
  BY <1>3, <1>4, <1>5 DEF Listing, Distinct

(* TakePendingAdditions' vector, when nothing is queued twice.             *)
LEMMA AdditionsListed ==
  ASSUME NEW bag \in [Ids -> {0, 1}]
  PROVE  LET v == Vector(bag)
         IN  Listing([k \in DOMAIN v |-> v[k][1]], {i \in Ids : bag[i] > 0})
<1> DEFINE A == {i \in Ids : bag[i] > 0}
           U == UNION {{i} \X (1..bag[i]) : i \in Ids}
           v == Vector(bag)
           n == Cardinality(U)
           ids == [k \in DOMAIN v |-> v[k][1]]
<1>1. \A u : u \in U <=> \E i \in A : u = <<i, 1>>
  <2>1. \A i \in Ids : bag[i] \in {0, 1}
    OBVIOUS
  <2>2. \A i \in Ids : IF bag[i] = 1 THEN 1..bag[i] = {1} ELSE bag[i] = 0 /\ 1..bag[i] = {}
    BY <2>1
  <2>3. ASSUME NEW u \in U
        PROVE  \E i \in A : u = <<i, 1>>
    <3>1. PICK i \in Ids : u \in {i} \X (1..bag[i])
      OBVIOUS
    <3>2. 1..bag[i] # {}
      BY <3>1
    <3>3. bag[i] = 1 /\ 1..bag[i] = {1}
      BY <2>2, <3>2
    <3>4. u \in {i} \X {1}
      BY <3>1, <3>3, Zenon
    <3>5. u = <<i, 1>>
      BY <3>4
    <3> QED
      BY <3>3, <3>5
  <2>4. ASSUME NEW i \in A
        PROVE  <<i, 1>> \in U
    <3>1. bag[i] = 1 /\ i \in Ids
      BY <2>1
    <3>2. <<i, 1>> \in {i} \X (1..bag[i])
      BY <3>1
    <3> QED
      BY <3>1, <3>2
  <2> QED
    BY <2>3, <2>4
<1>2. IsFiniteSet(U)
  <2>1. IsFiniteSet(A)
    BY LiveBoundsOK, FS_Subset
  <2> HIDE DEF A, U
  <2>2. [i \in A |-> <<i, 1>>] \in Surjection(A, U)
    BY <1>1 DEF Surjection
  <2> QED
    BY <2>1, <2>2, FS_Surjection
<1>3. n \in Nat /\ ExistsBijection(1..n, U)
  <2> HIDE DEF U
  <2> QED
    BY <1>2, FS_CardinalityType
<1>4. v \in [1..n -> U] /\ \A j, k \in 1..n : v[j] = v[k] => j = k
  <2> HIDE DEF U
  <2>1. \E f \in [1..n -> U] : IsInjective(f)
    BY <1>3 DEF ExistsBijection, Bijection, Injection
  <2>2. v = CHOOSE f \in [1..n -> U] : IsInjective(f)
    BY DEF v, U, Vector, SetToSeq
  <2>3. v \in [1..n -> U] /\ IsInjective(v)
    <3> HIDE DEF v
    <3> QED
      BY <2>1, <2>2
  <2> HIDE DEF v
  <2> QED
    BY <2>3 DEF IsInjective
<1>5. \A u \in U : \E k \in 1..n : v[k] = u
  <2> HIDE DEF U, v
  <2> QED
    BY <1>2, <1>4, EnumerationCovers
<1>6. /\ DOMAIN v = 1..n
      /\ \A k \in 1..n : v[k] = <<v[k][1], 1>> /\ v[k][1] \in A
  <2> HIDE DEF U, v, A
  <2> QED
    BY <1>1, <1>4
<1>7. A \subseteq Ids
  OBVIOUS
<1> HIDE DEF U, v, A
<1>8. ids \in [1..n -> Ids] /\ \A k \in 1..n : ids[k] = v[k][1]
  BY <1>6, <1>7
<1> HIDE DEF ids, n
<1>9. ids \in Seq(Ids) /\ Len(ids) = n /\ DOMAIN ids = 1..n
  BY <1>3, <1>8
<1>10. Distinct(ids)
  <2> SUFFICES ASSUME NEW j \in 1..n, NEW k \in 1..n, ids[j] = ids[k]
               PROVE  j = k
    BY <1>9 DEF Distinct
  <2>1. v[j] = v[k]
    BY <1>6, <1>8
  <2> QED
    BY <1>4, <2>1
<1>11. \A i \in Ids : i \in A <=> \E k \in 1..Len(ids) : ids[k] = i
  <2>1. ASSUME NEW i \in A
        PROVE  \E k \in 1..n : ids[k] = i
    <3>1. PICK k \in 1..n : v[k] = <<i, 1>>
      BY <1>1, <1>5
    <3> QED
      BY <1>8, <3>1
  <2>2. \A k \in 1..n : ids[k] \in A
    BY <1>6, <1>8
  <2> QED
    BY <1>9, <2>1, <2>2
<1> QED
  BY <1>9, <1>10, <1>11 DEF Listing, ids, A, v

----------------------------------------------------------------------------
(* Package 0 lists a depot as often as the consumer was told of it, plus   *)
(* the removals it still has to look for: less often at most when the      *)
(* vector could not grow.  Before the first injection it lists nothing,    *)
(* and what is about to be injected is the registry.                       *)
Due(i) == told[i] + IF wpc = "remove" THEN todo[i] ELSE 0

PackageTypes == mem \in Seq(Ids) /\ size \in 0..Len(mem) /\ todo \in Counts

ListedAsTold ==
  licensed => \A i \in Ids :
    /\ Cardinality(PlacesIn(mem, size, i)) <= Due(i)
    /\ "full" \notin world => Cardinality(PlacesIn(mem, size, i)) = Due(i)

BeforeInjection ==
  /\ ~ licensed => size = 0
  /\ spc = "inject" => at = 0 /\ Listing(first, reg.keys)

PackageInv == Quiet => PackageTypes /\ ListedAsTold /\ BeforeInjection

LEMMA PackageInvInit == LiveInit => PackageInv
<1> SUFFICES ASSUME LiveInit
             PROVE  PackageInv
  OBVIOUS
<1>1. mem = <<>> /\ size = 0 /\ todo = Zero /\ licensed = FALSE /\ spc = "idle"
  BY DEF LiveInit
<1> QED
  BY <1>1 DEF PackageInv, PackageTypes, ListedAsTold, BeforeInjection, Zero, Counts

(* A step that leaves the package, what was told and what is held.         *)
LEMMA PackageSame ==
  ASSUME PackageTypes, ListedAsTold, BeforeInjection,
         UNCHANGED <<mem, size, todo, told, licensed, world, spc, first, at>>,
         (wpc = "remove") = (wpc' = "remove"),
         spc = "inject" => reg'.keys = reg.keys
  PROVE  PackageTypes' /\ ListedAsTold' /\ BeforeInjection'
<1>1. PackageTypes'
  BY DEF PackageTypes
<1>2. \A i \in Ids : Due(i)' = Due(i) /\ PlacesIn(mem', size', i) = PlacesIn(mem, size, i)
  BY DEF Due
<1>3. ListedAsTold'
  BY <1>2 DEF ListedAsTold
<1>4. BeforeInjection'
  BY DEF BeforeInjection, Listing, Distinct
<1> QED
  BY <1>1, <1>3, <1>4

LEMMA PackageKept ==
  ASSUME WatcherInv, InjectedOnce, PackageTypes, ListedAsTold, BeforeInjection,
         world' = world,
         \/ \E f \in Files, content \in Scripts \cup {Gone} : EditFile(f, content)
         \/ Boot \/ Collect \/ Reload \/ UnloadNext \/ RunNext \/ EndPass
         \/ OpenWatches \/ NotifyTooEarly \/ QueueRemovals
         \/ PackageUnusable \/ (\E i \in Ids : MarkOwned(i)) \/ UINext
         \/ UNCHANGED liveVars
  PROVE  PackageTypes' /\ ListedAsTold' /\ BeforeInjection'
<1>1. CASE \/ \E f \in Files, content \in Scripts \cup {Gone} : EditFile(f, content)
           \/ Boot \/ Collect \/ Reload
  <2>1. /\ UNCHANGED <<mem, size, todo, told, licensed, spc, first, at, reg>>
        /\ \/ wpc # "remove" /\ wpc' # "remove"
           \/ wpc' = wpc
    BY <1>1 DEF EditFile, Boot, Collect, Reload, steam, package
  <2> QED
    BY <2>1, PackageSame
<1>2. CASE UnloadNext \/ RunNext
  <2>1. /\ UNCHANGED <<mem, size, todo, told, licensed, spc, first, at>>
        /\ wpc \in {"files", "parse"} /\ wpc' \in {"files", "parse"}
    BY <1>2 DEF UnloadNext, RunNext, steam, package
  <2>2. spc # "inject"
    BY <2>1 DEF InjectedOnce
  <2> QED
    BY <2>1, <2>2, PackageSame
<1>3. CASE EndPass
  <2>1. /\ UNCHANGED <<mem, size, todo, licensed, spc, first, at>>
        /\ wpc = "files" /\ wpc' \in {"open", "take"} /\ (notify => told' = told)
    BY <1>3 DEF EndPass, steam, package
  <2>2. spc # "inject"
    BY <2>1 DEF InjectedOnce
  <2>3. CASE notify
    BY <2>1, <2>2, <2>3, <1>3, PackageSame DEF EndPass
  <2>4. CASE ~ notify
    <3>1. ~ licensed
      BY <2>1, <2>4 DEF InjectedOnce
    <3> QED
      BY <2>1, <2>2, <3>1 DEF PackageTypes, ListedAsTold, BeforeInjection
  <2> QED
    BY <2>3, <2>4
<1>4. CASE OpenWatches \/ NotifyTooEarly \/ QueueRemovals
  <2>1. /\ UNCHANGED <<mem, size, todo, told, licensed, spc, first, at, reg>>
        /\ wpc \in {"open", "take", "mark"} /\ wpc' \in {"take", "wait"}
    BY <1>4 DEF OpenWatches, NotifyTooEarly, QueueRemovals, steam, package
  <2> QED
    BY <2>1, PackageSame
<1>5. CASE \/ PackageUnusable \/ (\E i \in Ids : MarkOwned(i)) \/ UINext
           \/ UNCHANGED liveVars
  <2>1. UNCHANGED <<mem, size, todo, told, licensed, spc, first, at, reg, wpc>>
    BY <1>5 DEF PackageUnusable, MarkOwned, UINext, RunFrame, HideApp, liveVars, steam,
                package, watcher
  <2> QED
    BY <2>1, PackageSame
<1> QED
  BY <1>1, <1>2, <1>3, <1>4, <1>5

LEMMA PackageInvStep ==
  WatcherInv /\ FeedInv /\ PackageInv /\ [LiveNext]_liveVars => PackageInv'
<1> SUFFICES ASSUME WatcherInv, FeedInv, PackageInv, [LiveNext]_liveVars, Quiet'
             PROVE  PackageTypes' /\ ListedAsTold' /\ BeforeInjection'
  BY DEF PackageInv
<1>1. /\ world' = world /\ Quiet /\ ToldOnce /\ InjectedOnce
      /\ PackageTypes /\ ListedAsTold /\ BeforeInjection
  BY WorldStands DEF FeedInv, PackageInv, Quiet
<1>2. /\ reg.keys \subseteq Ids /\ reg \in Registries
      /\ \A i \in Ids : /\ told[i] \in Int /\ reg.additions[i] \in Nat
                        /\ reg.removals[i] \in Nat
                        /\ told[i] + reg.additions[i] - reg.removals[i]
                             = IF i \in reg.keys THEN 1 ELSE 0
      /\ \A i \in Ids : Zero[i] = 0
  BY QueueFacts
<1>3. /\ mem \in Seq(Ids) /\ size \in 0..Len(mem) /\ size \in Nat /\ Len(mem) \in Nat
      /\ \A i \in Ids : todo[i] \in Nat
      /\ \A i \in Ids : Cardinality(PlacesIn(mem, size, i)) \in Nat
  <2>1. mem \in Seq(Ids) /\ size \in 0..Len(mem) /\ size \in Nat /\ Len(mem) \in Nat
    BY <1>1 DEF PackageTypes
  <2>2. \A i \in Ids : todo[i] \in Nat
    BY <1>1 DEF PackageTypes, Counts
  <2> QED
    BY <2>1, <2>2, PlacesAreCounted
<1>4. CASE \/ \E f \in Files, content \in Scripts \cup {Gone} : EditFile(f, content)
           \/ Boot \/ Collect \/ Reload \/ UnloadNext \/ RunNext \/ EndPass
           \/ OpenWatches \/ NotifyTooEarly \/ QueueRemovals
           \/ PackageUnusable \/ (\E i \in Ids : MarkOwned(i)) \/ UINext
           \/ UNCHANGED liveVars
  BY <1>1, <1>4, PackageKept
<1>5. CASE RemovalsDone
  <2>1. /\ UNCHANGED <<mem, size, todo, told, licensed, spc, first, at, reg>>
        /\ wpc = "remove" /\ todo = Zero /\ wpc' = "add"
    BY <1>5 DEF RemovalsDone, steam, package
  <2>2. \A i \in Ids : Due(i)' = Due(i)
    BY <1>2, <2>1 DEF Due
  <2>3. ListedAsTold'
    BY <1>1, <2>1, <2>2 DEF ListedAsTold
  <2> QED
    BY <1>1, <2>1, <2>3 DEF PackageTypes, BeforeInjection, Listing, Distinct
<1>6. CASE TakeRemovals
  <2>1. /\ UNCHANGED <<mem, size, licensed, spc, first, at>>
        /\ wpc = "take" /\ wpc' = "remove" /\ todo' = reg.removals
        /\ told' = [i \in Ids |-> told[i] - reg.removals[i]]
    BY <1>6 DEF TakeRemovals, steam, package
  <2>2. todo' \in Counts
    BY <1>2, <2>1 DEF Registries
  <2>3. \A i \in Ids : Due(i)' = Due(i)
    BY <1>2, <2>1 DEF Due
  <2>4. ListedAsTold'
    BY <1>1, <2>1, <2>3 DEF ListedAsTold
  <2>5. spc # "inject"
    BY <1>1, <2>1 DEF InjectedOnce
  <2> QED
    BY <1>1, <2>1, <2>2, <2>4, <2>5 DEF PackageTypes, BeforeInjection
<1>7. ASSUME NEW i \in Ids, RemoveNext(i)
      PROVE  PackageTypes' /\ ListedAsTold' /\ BeforeInjection'
  <2>1. /\ UNCHANGED <<told, licensed, spc, first, at, wpc>> /\ wpc = "remove"
        /\ todo[i] > 0 /\ todo' = [todo EXCEPT ![i] = todo[i] - 1]
    BY <1>7 DEF RemoveNext, steam
  <2>2. spc # "inject" /\ licensed
    <3>1. notify
      BY <2>1 DEF WatcherInv, StartupPassIsFresh
    <3> QED
      BY <1>1, <2>1, <3>1 DEF InjectedOnce
  <2>3. todo' \in Counts
    BY <1>1, <1>3, <2>1 DEF PackageTypes, Counts
  <2>4. /\ todo'[i] = todo[i] - 1 /\ \A j \in Ids \ {i} : todo'[j] = todo[j]
    BY <1>1, <2>1 DEF PackageTypes, Counts
  <2>5. Places(i) = PlacesIn(mem, size, i)
    BY DEF Places, PlacesIn
  <2>6. CASE Places(i) = {}
    <3>1. UNCHANGED <<mem, size>>
      BY <1>7, <2>6 DEF RemoveNext
    <3>2. Cardinality(PlacesIn(mem, size, i)) = 0
      BY <2>5, <2>6, FS_EmptySet
    <3>3. told[i] \in {0, 1}
      BY <1>1 DEF ToldOnce
    <3>4. Cardinality(PlacesIn(mem, size, i)) <= told'[i] + todo'[i]
      BY <1>3, <2>1, <2>4, <3>2, <3>3
    <3>5. "full" \notin world => FALSE
      <4>1. "full" \notin world => Cardinality(PlacesIn(mem, size, i)) = told[i] + todo[i]
        BY <1>1, <2>1, <2>2 DEF ListedAsTold, Due
      <4> QED
        BY <1>3, <2>1, <3>2, <3>3, <4>1
    <3>6. \A j \in Ids \ {i} : Due(j)' = Due(j)
      BY <2>1, <2>4 DEF Due
    <3>7. Due(i)' = told'[i] + todo'[i]
      BY <2>1 DEF Due
    <3>8. ASSUME NEW j \in Ids
          PROVE  /\ Cardinality(PlacesIn(mem', size', j)) <= Due(j)'
                 /\ "full" \notin world' => Cardinality(PlacesIn(mem', size', j)) = Due(j)'
      <4>1. CASE j = i
        BY <1>1, <3>1, <3>4, <3>5, <3>7, <4>1
      <4>2. CASE j # i
        <5>1. /\ Cardinality(PlacesIn(mem, size, j)) <= Due(j)
              /\ "full" \notin world => Cardinality(PlacesIn(mem, size, j)) = Due(j)
          BY <1>1, <2>2 DEF ListedAsTold
        <5> QED
          BY <1>1, <3>1, <3>6, <4>2, <5>1
      <4> QED
        BY <4>1, <4>2
    <3>9. ListedAsTold'
      BY <3>8 DEF ListedAsTold
    <3> QED
      BY <1>1, <2>1, <2>2, <2>3, <3>1, <3>9 DEF PackageTypes, BeforeInjection
  <2>7. CASE Places(i) # {}
    <3> DEFINE k == CHOOSE k \in Places(i) : \A j \in Places(i) : k <= j
    <3>1. mem' = [mem EXCEPT ![k] = mem[size]] /\ size' = size - 1
      BY <1>7, <2>7 DEF RemoveNext
    <3>2. k \in Places(i)
      <4>1. Places(i) \in SUBSET Nat
        BY DEF Places
      <4>2. \E p \in Places(i) : \A j \in Places(i) : p <= j
        BY <2>7, <4>1, SmallestExists
      <4> QED
        BY <4>2
    <3> HIDE DEF k
    <3>3. k \in 1..size /\ mem[k] = i /\ size \in 1..Len(mem)
      BY <1>3, <3>2 DEF Places
    <3>4. /\ mem' \in Seq(Ids) /\ size' \in 0..Len(mem')
          /\ Cardinality(PlacesIn(mem', size', i)) = Cardinality(PlacesIn(mem, size, i)) - 1
          /\ \A j \in Ids \ {i} : Cardinality(PlacesIn(mem', size', j))
                                    = Cardinality(PlacesIn(mem, size, j))
      <4> DEFINE w == [mem EXCEPT ![k] = mem[size]]
      <4>1. mem \in Seq(Ids) /\ size \in 1..Len(mem) /\ k \in 1..size /\ i \in Ids /\ mem[k] = i
        BY <1>3, <3>3
      <4>2. /\ w \in Seq(Ids) /\ size - 1 \in 0..Len(w)
            /\ Cardinality(PlacesIn(w, size - 1, i)) = Cardinality(PlacesIn(mem, size, i)) - 1
            /\ \A j \in Ids \ {i} : Cardinality(PlacesIn(w, size - 1, j))
                                      = Cardinality(PlacesIn(mem, size, j))
        BY <4>1, FastRemoved, ZenonT(30)
      <4>3. mem' = w /\ size' = size - 1
        BY <3>1
      <4> HIDE DEF w
      <4> QED
        BY <4>2, <4>3
    <3>5. \A j \in Ids \ {i} : Due(j)' = Due(j)
      BY <2>1, <2>4 DEF Due
    <3>6. Due(i)' = Due(i) - 1 /\ Due(i) \in Int
      <4>1. told[i] \in Int /\ todo[i] \in Nat
        BY <1>2, <1>3
      <4> QED
        BY <2>1, <2>4, <4>1 DEF Due
    <3>7. ASSUME NEW j \in Ids
          PROVE  /\ Cardinality(PlacesIn(mem', size', j)) <= Due(j)'
                 /\ "full" \notin world' => Cardinality(PlacesIn(mem', size', j)) = Due(j)'
      <4>1. /\ Cardinality(PlacesIn(mem, size, j)) <= Due(j)
            /\ "full" \notin world => Cardinality(PlacesIn(mem, size, j)) = Due(j)
        BY <1>1, <2>2 DEF ListedAsTold
      <4>2. CASE j = i
        <5>1. Cardinality(PlacesIn(mem, size, i)) \in Nat
          BY <1>3
        <5> QED
          BY <1>1, <3>4, <3>6, <4>1, <4>2, <5>1
      <4>3. CASE j # i
        BY <1>1, <3>4, <3>5, <4>1, <4>3
      <4> QED
        BY <4>2, <4>3
    <3>8. ListedAsTold'
      BY <3>7 DEF ListedAsTold
    <3> QED
      BY <1>1, <2>1, <2>2, <2>3, <3>4, <3>8 DEF PackageTypes, BeforeInjection
  <2> QED
    BY <2>6, <2>7
<1>8. CASE ApplyAdditions \/ LoseAdditions
  <2>1. /\ UNCHANGED <<todo, licensed, spc, first, at>> /\ wpc = "add" /\ wpc' = "mark"
        /\ told' = [i \in Ids |-> told[i] + reg.additions[i]]
    BY <1>8 DEF ApplyAdditions, LoseAdditions, TakeAdditions, steam
  <2>2. spc # "inject" /\ licensed
    <3>1. notify
      BY <2>1 DEF WatcherInv, StartupPassIsFresh
    <3> QED
      BY <1>1, <2>1, <3>1 DEF InjectedOnce
  <2>3. \A i \in Ids : /\ Due(i) = told[i] /\ Due(i)' = told[i] + reg.additions[i]
                       /\ reg.additions[i] \in {0, 1} /\ told[i] \in Int
    <3>1. ASSUME NEW i \in Ids PROVE reg.additions[i] \in {0, 1}
      <4>1. reg.additions[i] \in Nat /\ reg.additions[i] <= 1
        BY <1>1, <1>2 DEF ToldOnce
      <4> QED
        BY <4>1
    <3> QED
      BY <1>2, <2>1, <3>1 DEF Due
  <2>4. \A i \in Ids : /\ Cardinality(PlacesIn(mem, size, i)) <= told[i]
                       /\ "full" \notin world => Cardinality(PlacesIn(mem, size, i)) = told[i]
    BY <1>1, <2>2, <2>3 DEF ListedAsTold
  <2>5. CASE ApplyAdditions
    <3> DEFINE v == Vector(reg.additions)
               ids == [k \in DOMAIN v |-> v[k][1]]
               S == {i \in Ids : reg.additions[i] > 0}
    <3>1. WriteAt(size, ids)
      BY <2>5 DEF ApplyAdditions
    <3>2. Listing(ids, S)
      <4>1. reg.additions \in [Ids -> {0, 1}]
        BY <1>2, <2>3 DEF Registries, Counts
      <4> QED
        BY <4>1, AdditionsListed
    <3> HIDE DEF ids, S
    <3>3. /\ mem' \in Seq(Ids) /\ size' \in 0..Len(mem')
          /\ \A i \in Ids : Cardinality(PlacesIn(mem', size', i))
               = Cardinality(PlacesIn(mem, size, i)) + IF i \in S THEN 1 ELSE 0
      BY <1>3, <3>1, <3>2, EntriesWritten
    <3>4. \A i \in Ids : reg.additions[i] = IF i \in S THEN 1 ELSE 0
      BY <2>3 DEF S
    <3>5. ASSUME NEW i \in Ids
          PROVE  /\ Cardinality(PlacesIn(mem', size', i)) <= Due(i)'
                 /\ "full" \notin world' => Cardinality(PlacesIn(mem', size', i)) = Due(i)'
      <4>1. Due(i)' = told[i] + reg.additions[i] /\ told[i] \in Int
        BY <2>3
      <4>2. Cardinality(PlacesIn(mem', size', i))
              = Cardinality(PlacesIn(mem, size, i)) + reg.additions[i]
        BY <3>3, <3>4
      <4>3. /\ Cardinality(PlacesIn(mem, size, i)) <= told[i]
            /\ "full" \notin world => Cardinality(PlacesIn(mem, size, i)) = told[i]
            /\ Cardinality(PlacesIn(mem, size, i)) \in Nat /\ reg.additions[i] \in Nat
        BY <1>2, <1>3, <2>4
      <4> QED
        BY <1>1, <4>1, <4>2, <4>3
    <3>6. ListedAsTold'
      BY <3>5 DEF ListedAsTold
    <3> QED
      BY <1>1, <2>1, <2>2, <3>3, <3>6 DEF PackageTypes, BeforeInjection
  <2>6. CASE LoseAdditions
    <3>1. UNCHANGED <<mem, size>> /\ "full" \in world
      BY <2>6 DEF LoseAdditions, package
    <3>2. \A i \in Ids : Cardinality(PlacesIn(mem', size', i)) <= Due(i)'
      <4> SUFFICES ASSUME NEW i \in Ids
                   PROVE  Cardinality(PlacesIn(mem, size, i)) <= told[i] + reg.additions[i]
        BY <2>3, <3>1
      <4>1. /\ Cardinality(PlacesIn(mem, size, i)) \in Nat /\ told[i] \in Int
            /\ Cardinality(PlacesIn(mem, size, i)) <= told[i] /\ reg.additions[i] \in Nat
        BY <1>2, <1>3, <2>4
      <4> QED
        BY <4>1
    <3>3. ListedAsTold'
      BY <1>1, <3>1, <3>2 DEF ListedAsTold
    <3> QED
      BY <1>1, <2>1, <2>2, <3>1, <3>3 DEF PackageTypes, BeforeInjection
  <2> QED
    BY <1>8, <2>5, <2>6
<1>9. CASE StartInjection
  <2>1. /\ UNCHANGED <<reg, told, todo, wpc, licensed, mem, size>> /\ ~ licensed
        /\ first' \in SetToSeqs(reg.keys) /\ at' = size
    BY <1>9 DEF StartInjection, watcher, package
  <2>2. Listing(first', reg.keys)
    BY <1>2, <2>1, DepotsListed
  <2> QED
    BY <1>1, <2>1, <2>2 DEF PackageTypes, ListedAsTold, BeforeInjection, Listing, Distinct
<1>10. CASE Inject
  <2>1. /\ UNCHANGED <<reg, told, todo, wpc>> /\ spc = "inject"
        /\ IF first = <<>> THEN UNCHANGED <<mem, size>> ELSE WriteAt(at, first)
        /\ licensed' = TRUE /\ spc' = "idle"
    BY <1>10 DEF Inject, watcher, package
  <2>2. /\ ~ licensed /\ wpc \in {"open", "wait"} /\ ~ notify
    BY <1>1, <2>1 DEF InjectedOnce
  <2>3. size = 0 /\ at = size /\ Listing(first, reg.keys)
    BY <1>1, <2>1, <2>2 DEF BeforeInjection
  <2>4. /\ mem' \in Seq(Ids) /\ size' \in 0..Len(mem')
        /\ \A i \in Ids : Cardinality(PlacesIn(mem', size', i))
             = Cardinality(PlacesIn(mem, size, i)) + IF i \in reg.keys THEN 1 ELSE 0
    <3>1. WriteAt(at, first)
      <4> SUFFICES ASSUME first = <<>>, mem' = mem, size' = size PROVE WriteAt(at, first)
        BY <2>1
      <4>1. mem \in Seq(Ids) /\ at = 0 /\ size = 0 /\ Len(first) = 0
        BY <1>3, <2>3
      <4> QED
        BY <4>1 DEF WriteAt
    <3> QED
      BY <1>3, <2>3, <3>1, EntriesWritten
  <2>5. \A i \in Ids : Cardinality(PlacesIn(mem, size, i)) = 0
    <3>1. \A i \in Ids : PlacesIn(mem, size, i) = {}
      BY <2>3 DEF PlacesIn
    <3> QED
      BY <3>1, FS_EmptySet
  <2>6. reg.additions = Zero /\ reg.removals = Zero
    BY <2>2 DEF WatcherInv, StartupPassIsFresh
  <2>7. \A i \in Ids : Due(i)' = IF i \in reg.keys THEN 1 ELSE 0
    <3> SUFFICES ASSUME NEW i \in Ids
                 PROVE  Due(i)' = IF i \in reg.keys THEN 1 ELSE 0
      OBVIOUS
    <3>1. /\ told[i] \in Int /\ told[i] + 0 - 0 = IF i \in reg.keys THEN 1 ELSE 0
      BY <1>2, <2>6
    <3>2. Due(i)' = told[i] + 0
      BY <2>1, <2>2 DEF Due
    <3> QED
      BY <3>1, <3>2
  <2>8. \A i \in Ids : Cardinality(PlacesIn(mem', size', i)) = Due(i)' /\ Due(i)' \in Nat
    BY <2>4, <2>5, <2>7
  <2>9. ListedAsTold'
    BY <2>8 DEF ListedAsTold
  <2> QED
    BY <1>1, <2>1, <2>4, <2>9 DEF PackageTypes, BeforeInjection
<1> QED
  BY <1>4, <1>5, <1>6, <1>7, <1>8, <1>9, <1>10 DEF LiveNext, WatcherNext, SteamNext

LEMMA PackageInvAlways == LiveSpec => []PackageInv
BY PackageInvInit, PackageInvStep, WatcherInvAlways, FeedInvAlways, PTL DEF LiveSpec

----------------------------------------------------------------------------
(* "ParseFile unloads the old file before parsing the replacement.  Do not *)
(* queue that transient removal": between passes no depot a file names     *)
(* waits to be hidden by the UI, whatever files change when.               *)
LEMMA NoneHiddenByMistake == LiveSpec => []QueuedMeansRemoved
<1>1. ShownInv /\ WatcherInv => QueuedMeansRemoved
  <2> SUFFICES ASSUME ShownInv, WatcherInv, wpc = "wait", "full" \notin world
               PROVE  queue \cap reg.keys = {}
    BY DEF QueuedMeansRemoved
  <2>1. /\ queue = {} \/ reg.additions = Zero
        /\ \A i \in queue \cap reg.keys : reg.additions[i] > 0
    BY DEF ShownInv, NoneWaits
  <2>2. reg.keys \subseteq Ids /\ \A i \in Ids : ~ (Zero[i] > 0)
    BY QueueFacts
  <2> QED
    BY <2>1, <2>2
<1> QED
  BY <1>1, ShownInvAlways, WatcherInvAlways, PTL

(* "Remove depots that were unloaded", "Add depots that are newly loaded": *)
(* between passes package 0 lists every registered depot once and nothing  *)
(* else, for any number of files, depots, edits and reloads.               *)
LEMMA PackageFollows == LiveSpec => []PackageIsTheRegistry
<1>1. WatcherInv /\ FeedInv /\ PackageInv => PackageIsTheRegistry
  <2> SUFFICES ASSUME WatcherInv, FeedInv, PackageInv, wpc = "wait", licensed, Quiet,
                      NEW i \in Ids
               PROVE  Cardinality(Places(i)) \in (IF i \in reg.keys THEN {1} ELSE {0})
                                \cup (IF "full" \in world THEN {0} ELSE {})
    BY DEF PackageIsTheRegistry, Quiet
  <2>1. Places(i) = PlacesIn(mem, size, i)
    BY DEF Places, PlacesIn
  <2>2. Cardinality(Places(i)) \in Nat
    BY <2>1, PlacesAreCounted DEF PackageInv, PackageTypes
  <2>3. reg.additions = Zero /\ reg.removals = Zero
    BY DEF FeedInv, InjectedOnce
  <2>4. told[i] + 0 - 0 = (IF i \in reg.keys THEN 1 ELSE 0) /\ told[i] \in Int
    BY <2>3, QueueFacts
  <2>5. /\ Cardinality(PlacesIn(mem, size, i)) <= told[i] + 0
        /\ "full" \notin world => Cardinality(PlacesIn(mem, size, i)) = told[i] + 0
    BY DEF PackageInv, ListedAsTold, Due
  <2>6. /\ Cardinality(Places(i)) <= told[i]
        /\ "full" \notin world => Cardinality(Places(i)) = told[i]
    BY <2>1, <2>4, <2>5
  <2> QED
    BY <2>2, <2>4, <2>6
<1> QED
  BY <1>1, WatcherInvAlways, FeedInvAlways, PackageInvAlways, PTL

(* Package 0 and the library both follow the .lua files: the depots Steam  *)
(* is shown as licensed are the registered ones, once each, and no         *)
(* registered app is on its way to be hidden.                              *)
THEOREM SteamFollows == LiveSpec => []SteamFollowsTheFiles
<1>1. PackageIsTheRegistry /\ QueuedMeansRemoved => SteamFollowsTheFiles
  BY DEF SteamFollowsTheFiles
<1> QED
  BY <1>1, NoneHiddenByMistake, PackageFollows, PTL
=============================================================================
