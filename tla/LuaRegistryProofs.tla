------------------------- MODULE LuaRegistryProofs -------------------------
(***************************************************************************)
(* What LuaConfig's tables guarantee for any files, depots and manifests,  *)
(* and any texts of the files.                                             *)
(*                                                                         *)
(* Unload and Run are operators on the registry, so each fact about them   *)
(* is a lemma about any registry r, cited here for the registry alone; and *)
(* so for the tables t of keys and times in the second half.               *)
(***************************************************************************)
EXTENDS LuaRegistry, LuaTables, Induction, FiniteSetTheorems, TLAPS

(* The parse order is strict: two files with a sequence number have        *)
(* different ones, none is newer than the last parse, and a file that pins *)
(* something has one.                                                      *)
OrderedIn(r) ==
  /\ \A f \in Files : r.seq[f] <= r.parses
  /\ \A f, g \in Files : r.seq[f] = r.seq[g] /\ r.seq[f] # 0 => f = g
  /\ \A f \in Files, i \in Ids : r.filePins[f][i] # NoPin => r.seq[f] # 0

(* What is queued plus what was told is what is registered.                *)
BalancedIn(r, t) ==
  \A i \in Ids :
    t[i] + r.additions[i] - r.removals[i] = IF i \in r.keys THEN 1 ELSE 0

(* The files that name a depot are finitely many.                          *)
LEMMA ProvidersFinite ==
  ASSUME NEW r, NEW i
  PROVE  IsFiniteSet(Providers(r, i))
<1>1. Providers(r, i) \in SUBSET Files
  BY DEF Providers
<1> QED
  BY <1>1, ScriptsOK, FS_Subset

(* RebuildManifestOverride yields no pin when no file pins the depot, and  *)
(* else the pin of a file none of the others is newer than.                *)
PinningNow(filePins, seq, i) == {f \in Files : filePins[f][i] # NoPin /\ seq[f] # 0}

LEMMA WinnerIsLatest ==
  ASSUME NEW filePins \in [Files -> Pins], NEW seq \in [Files -> Nat],
         NEW n \in Nat, \A f \in Files : seq[f] <= n, NEW i \in Ids
  PROVE  /\ PinningNow(filePins, seq, i) = {} => Winner(filePins, seq, i) = NoPin
         /\ PinningNow(filePins, seq, i) # {} =>
              \E f \in PinningNow(filePins, seq, i) :
                /\ \A g \in PinningNow(filePins, seq, i) : seq[g] <= seq[f]
                /\ Winner(filePins, seq, i) = filePins[f][i]
<1> DEFINE P == PinningNow(filePins, seq, i)
           S == {seq[f] : f \in P}
<1>1. ASSUME P # {}
      PROVE  \E f \in P : \A g \in P : seq[g] <= seq[f]
  <2>1. P \subseteq Files
    BY DEF PinningNow
  <2>2. S \in SUBSET (0 .. n) /\ S # {}
    <3> HIDE DEF P
    <3> QED
      BY <1>1, <2>1
  <2>3. PICK m \in S : \A s \in S : s <= m
    <3> HIDE DEF S
    <3> QED
      BY <2>2, LargestExists
  <2> QED
    BY <2>3
<1>2. CASE P = {}
  BY <1>2 DEF Winner, PinningNow
<1>3. CASE P # {}
  <2> DEFINE last == CHOOSE f \in P : \A g \in P : seq[g] <= seq[f]
  <2>1. last \in P /\ \A g \in P : seq[g] <= seq[last]
    <3> HIDE DEF P
    <3> QED
      BY <1>1, <1>3
  <2>2. Winner(filePins, seq, i) = filePins[last][i]
    BY <1>3 DEF Winner, PinningNow
  <2> QED
    BY <1>3, <2>1, <2>2
<1> QED
  BY <1>2, <1>3

(* When no two files share a sequence number, that file is the only one.   *)
LEMMA WinnerUnique ==
  ASSUME NEW filePins \in [Files -> Pins], NEW seq \in [Files -> Nat],
         NEW n \in Nat, \A f \in Files : seq[f] <= n, NEW i \in Ids,
         \A f, g \in Files : seq[f] = seq[g] /\ seq[f] # 0 => f = g,
         NEW g \in PinningNow(filePins, seq, i),
         \A h \in PinningNow(filePins, seq, i) : seq[h] <= seq[g]
  PROVE  Winner(filePins, seq, i) = filePins[g][i]
<1>1. \A h \in PinningNow(filePins, seq, i) : h \in Files /\ seq[h] \in Nat /\ seq[h] # 0
  BY DEF PinningNow
<1>2. PICK k \in PinningNow(filePins, seq, i) :
        /\ \A h \in PinningNow(filePins, seq, i) : seq[h] <= seq[k]
        /\ Winner(filePins, seq, i) = filePins[k][i]
  BY WinnerIsLatest
<1>3. seq[g] = seq[k]
  BY <1>1, <1>2
<1>4. g = k
  BY <1>1, <1>3
<1> QED
  BY <1>2, <1>4

(* So it is a gid or NoPin.                                                *)
LEMMA WinnerType ==
  ASSUME NEW filePins \in [Files -> Pins], NEW seq \in [Files -> Nat],
         NEW n \in Nat, \A f \in Files : seq[f] <= n, NEW i \in Ids
  PROVE  Winner(filePins, seq, i) \in Gids \cup {NoPin}
<1>1. \A f \in Files : filePins[f][i] \in Gids \cup {NoPin}
  BY DEF Pins
<1>2. PinningNow(filePins, seq, i) \subseteq Files
  BY DEF PinningNow
<1> QED
  BY <1>1, <1>2, WinnerIsLatest
----------------------------------------------------------------------------
(* The facts about one registry that every operation preserves.            *)
Consistent(r) ==
  /\ r \in Registries
  /\ CountedIn(r)
  /\ OrderedIn(r)
  /\ LatestIn(r)

(* The file registers nothing: what Run expects and Unload establishes.    *)
Empty(r, f) == r.depots[f] = {} /\ r.filePins[f] = NoPins

(* A file's depots have at least one provider, itself, and it is the only  *)
(* one exactly when the count is one.                                      *)
LEMMA CountOfProvided ==
  ASSUME NEW r, Consistent(r), NEW f \in Files, NEW i \in r.depots[f]
  PROVE  /\ i \in Ids /\ r.refs[i] \in Nat /\ r.refs[i] > 0
         /\ Cardinality(Providers(r, i) \ {f}) = r.refs[i] - 1
         /\ Providers(r, i) \ {f} = {} <=> r.refs[i] = 1
<1>1. i \in Ids /\ r.refs[i] \in Nat
  BY DEF Consistent, Registries, Counts
<1>2. f \in Providers(r, i)
  BY DEF Providers
<1>3. /\ IsFiniteSet(Providers(r, i) \ {f})
      /\ Cardinality(Providers(r, i) \ {f}) = r.refs[i] - 1
  BY <1>1, <1>2, ProvidersFinite, FS_RemoveElement DEF Consistent, CountedIn
<1>4. Cardinality(Providers(r, i) \ {f}) \in Nat
  BY <1>3, FS_CardinalityType
<1>5. Providers(r, i) \ {f} = {} <=> Cardinality(Providers(r, i) \ {f}) = 0
  BY <1>3, FS_EmptySet
<1> QED
  BY <1>1, <1>3, <1>4, <1>5

(* UnloadFile on a file that registered something.                         *)
LEMMA UnloadFields ==
  ASSUME NEW r \in Registries, NEW f \in Files, ~ Empty(r, f)
  PROVE  LET u == Unload(r, f)
             last == {i \in r.depots[f] : r.refs[i] = 1}
         IN  /\ u.depots = [r.depots EXCEPT ![f] = {}]
             /\ u.refs = [i \in Ids |-> IF i \in r.depots[f] THEN r.refs[i] - 1
                                       ELSE r.refs[i]]
             /\ u.keys = r.keys \ last
             /\ u.filePins = [r.filePins EXCEPT ![f] = NoPins]
             /\ u.seq = [r.seq EXCEPT ![f] = 0]
             /\ u.parses = r.parses
             /\ u.pins = [i \in Ids |-> IF r.filePins[f][i] # NoPin
                                       THEN Winner(u.filePins, r.seq, i) ELSE r.pins[i]]
             /\ u.removals = [i \in Ids |-> IF i \in last THEN r.removals[i] + 1
                                           ELSE r.removals[i]]
             /\ u.additions = r.additions
             /\ u.refs \in Counts /\ u.pins \in Pins => u \in Registries
<1>1. r.filePins[f] \in [Ids -> Gids \cup {NoPin}]
  BY DEF Registries, Pins
<1>2. ~ (r.depots[f] = {} /\ {i \in Ids : r.filePins[f][i] # NoPin} = {})
  BY <1>1 DEF Empty, NoPins
<1>3. NoPins \in Pins
  BY DEF NoPins, Pins
<1>4. [i \in Ids |-> IF i \in {j \in r.depots[f] : r.refs[j] = 1}
                    THEN r.removals[i] + 1 ELSE r.removals[i]] \in Counts
  BY DEF Registries, Counts
<1> QED
  BY <1>2, <1>3, <1>4 DEF Unload, LastProvided, Erased, Registries

(* UnloadFile on a file that registered nothing.                           *)
LEMMA UnloadNothing ==
  ASSUME NEW r \in Registries, NEW f \in Files, Empty(r, f)
  PROVE  Unload(r, f) = r
<1>1. {i \in Ids : r.filePins[f][i] # NoPin} = {}
  BY DEF Empty, NoPins
<1> QED
  BY <1>1 DEF Empty, Unload

(* UnloadFile keeps the counts exact ...                                   *)
LEMMA UnloadCounts ==
  ASSUME NEW r, Consistent(r), NEW f \in Files, ~ Empty(r, f)
  PROVE  Unload(r, f).refs \in Counts /\ CountedIn(Unload(r, f))
<1> DEFINE u == Unload(r, f)
<1>1. /\ u.depots = [r.depots EXCEPT ![f] = {}]
      /\ u.refs = [i \in Ids |-> IF i \in r.depots[f] THEN r.refs[i] - 1 ELSE r.refs[i]]
      /\ u.keys = r.keys \ {i \in r.depots[f] : r.refs[i] = 1}
  BY UnloadFields DEF Consistent
<1>2. r.depots \in [Files -> SUBSET Ids] /\ r.refs \in [Ids -> Nat]
  BY DEF Consistent, Registries, Counts
<1> HIDE DEF u
<1>3. u.refs \in Counts
  <2>1. \A i \in r.depots[f] : r.refs[i] \in Nat /\ r.refs[i] > 0
    BY CountOfProvided
  <2>2. \A i \in Ids : (IF i \in r.depots[f] THEN r.refs[i] - 1 ELSE r.refs[i]) \in Nat
    BY <1>2, <2>1
  <2> QED
    BY <1>1, <2>2 DEF Counts
<1>4. ASSUME NEW i \in Ids
      PROVE  /\ u.refs[i] = Cardinality(Providers(u, i))
             /\ i \in u.keys <=> Providers(u, i) # {}
  <2>1. CASE i \in r.depots[f]
    <3>1. Providers(u, i) = Providers(r, i) \ {f}
      BY <1>1, <1>2, <2>1 DEF Providers
    <3>2. Providers(r, i) # {}
      BY <2>1 DEF Providers
    <3>3. i \in r.keys
      BY <3>2 DEF Consistent, CountedIn
    <3> QED
      BY <1>1, <2>1, <3>1, <3>3, CountOfProvided
  <2>2. CASE i \notin r.depots[f]
    <3>1. Providers(u, i) = Providers(r, i)
      BY <1>1, <1>2, <2>2 DEF Providers
    <3> QED
      BY <1>1, <2>2, <3>1 DEF Consistent, CountedIn
  <2> QED
    BY <2>1, <2>2
<1> QED
  BY <1>3, <1>4 DEF CountedIn, u

(* ... and the pins the latest ...                                         *)
LEMMA UnloadPins ==
  ASSUME NEW r, Consistent(r), NEW f \in Files, ~ Empty(r, f)
  PROVE  Unload(r, f).pins \in Pins /\ LatestIn(Unload(r, f)) /\ OrderedIn(Unload(r, f))
<1> DEFINE u == Unload(r, f)
<1>1. /\ u.filePins = [r.filePins EXCEPT ![f] = NoPins]
      /\ u.seq = [r.seq EXCEPT ![f] = 0] /\ u.parses = r.parses
      /\ u.pins = [i \in Ids |-> IF r.filePins[f][i] # NoPin
                                THEN Winner(u.filePins, r.seq, i) ELSE r.pins[i]]
  BY UnloadFields DEF Consistent
<1>2. /\ r.filePins \in [Files -> Pins] /\ r.pins \in Pins
      /\ r.seq \in [Files -> Nat] /\ r.parses \in Nat
  BY DEF Consistent, Registries
<1>3. NoPins \in Pins /\ \A i \in Ids : NoPins[i] = NoPin
  BY DEF NoPins, Pins
<1> HIDE DEF u
<1>4. u.filePins \in [Files -> Pins]
  BY <1>1, <1>2, <1>3
<1>5. \A g \in Files : r.seq[g] <= r.parses
  BY DEF Consistent, OrderedIn
<1>6. u.pins \in Pins
  <2>1. \A i \in Ids : Winner(u.filePins, r.seq, i) \in Gids \cup {NoPin}
    BY <1>2, <1>4, <1>5, WinnerType
  <2>2. \A i \in Ids : r.pins[i] \in Gids \cup {NoPin}
    BY <1>2 DEF Pins
  <2> QED
    BY <1>1, <2>1, <2>2 DEF Pins
<1>7. OrderedIn(u)
  BY <1>1, <1>2, <1>3 DEF Consistent, OrderedIn
<1>8. ASSUME NEW i \in Ids
      PROVE  /\ Pinning(u, i) = {} => u.pins[i] = NoPin
             /\ \A g \in Pinning(u, i) :
                  (\A h \in Pinning(u, i) : u.seq[h] <= u.seq[g])
                    => u.pins[i] = u.filePins[g][i]
  <2>1. CASE r.filePins[f][i] = NoPin
    <3>1. /\ Pinning(u, i) = Pinning(r, i) /\ f \notin Pinning(r, i)
          /\ Pinning(r, i) \subseteq Files
      BY <1>1, <1>2, <1>3, <2>1 DEF Pinning
    <3>2. \A g \in Pinning(r, i) : u.seq[g] = r.seq[g] /\ u.filePins[g] = r.filePins[g]
      BY <1>1, <1>2, <3>1
    <3>3. u.pins[i] = r.pins[i]
      BY <1>1, <2>1
    <3> QED
      BY <3>1, <3>2, <3>3 DEF Consistent, LatestIn
  <2>2. CASE r.filePins[f][i] # NoPin
    <3>1. u.pins[i] = Winner(u.filePins, r.seq, i)
      BY <1>1, <2>2
    <3>2. Pinning(u, i) = PinningNow(u.filePins, r.seq, i)
      BY <1>1, <1>2, <1>3 DEF Pinning, PinningNow, Consistent, OrderedIn
    <3>3. \A g \in Pinning(u, i) : g \in Files /\ u.seq[g] = r.seq[g] /\ r.seq[g] # 0
      BY <1>1, <1>2, <1>3, <3>2 DEF Pinning, PinningNow
    <3>4. \A g, h \in Files : r.seq[g] = r.seq[h] /\ r.seq[g] # 0 => g = h
      BY DEF Consistent, OrderedIn
    <3>5. Pinning(u, i) = {} => u.pins[i] = NoPin
      BY <1>2, <1>4, <1>5, <3>1, <3>2, WinnerIsLatest
    <3>6. ASSUME NEW g \in Pinning(u, i), \A h \in Pinning(u, i) : u.seq[h] <= u.seq[g]
          PROVE  u.pins[i] = u.filePins[g][i]
      <4>1. \A h \in PinningNow(u.filePins, r.seq, i) : r.seq[h] <= r.seq[g]
        BY <3>2, <3>3, <3>6
      <4>2. g \in PinningNow(u.filePins, r.seq, i)
        BY <3>2, <3>6
      <4> QED
        BY <1>2, <1>4, <1>5, <3>1, <3>4, <4>1, <4>2, WinnerUnique
    <3> QED
      BY <3>5, <3>6
  <2> QED
    BY <2>1, <2>2
<1> QED
  BY <1>6, <1>7, <1>8 DEF LatestIn, u

(* ... and the queues balanced: a depot's last provider leaving is queued. *)
LEMMA UnloadBalanced ==
  ASSUME NEW r, Consistent(r), NEW f \in Files, ~ Empty(r, f),
         NEW t \in [Ids -> Int], BalancedIn(r, t)
  PROVE  BalancedIn(Unload(r, f), t)
<1> DEFINE u == Unload(r, f)
           last == {i \in r.depots[f] : r.refs[i] = 1}
<1>1. /\ u.keys = r.keys \ last /\ u.additions = r.additions
      /\ u.removals = [i \in Ids |-> IF i \in last THEN r.removals[i] + 1 ELSE r.removals[i]]
  BY UnloadFields DEF Consistent
<1>2. r.removals \in [Ids -> Nat] /\ r.additions \in [Ids -> Nat]
  BY DEF Consistent, Registries, Counts
<1>3. last \subseteq r.keys
  <2> SUFFICES ASSUME NEW i \in last
               PROVE  i \in r.keys
    OBVIOUS
  <2>1. i \in Ids /\ f \in Providers(r, i)
    BY CountOfProvided DEF Providers
  <2> QED
    BY <2>1 DEF Consistent, CountedIn
<1> HIDE DEF u, last
<1>4. \A i \in Ids : t[i] + u.additions[i] - u.removals[i]
                       = IF i \in u.keys THEN 1 ELSE 0
  BY <1>1, <1>2, <1>3 DEF BalancedIn
<1> QED
  BY <1>4 DEF BalancedIn, u

(* Together: UnloadFile leaves a consistent, balanced registry in which    *)
(* the file registers nothing.                                             *)
LEMMA UnloadConsistent ==
  ASSUME NEW r, Consistent(r), NEW f \in Files
  PROVE  /\ Consistent(Unload(r, f)) /\ Empty(Unload(r, f), f)
         /\ \A t \in [Ids -> Int] : BalancedIn(r, t) => BalancedIn(Unload(r, f), t)
<1>1. CASE Empty(r, f)
  BY <1>1, UnloadNothing DEF Consistent
<1>2. CASE ~ Empty(r, f)
  <2>1. Unload(r, f) \in Registries
    BY <1>2, UnloadFields, UnloadCounts, UnloadPins DEF Consistent
  <2>2. Empty(Unload(r, f), f)
    <3>1. r \in Registries /\ r.depots \in [Files -> SUBSET Ids]
          /\ r.filePins \in [Files -> Pins]
      BY DEF Consistent, Registries
    <3>2. /\ Unload(r, f).depots = [r.depots EXCEPT ![f] = {}]
          /\ Unload(r, f).filePins = [r.filePins EXCEPT ![f] = NoPins]
      BY <1>2, <3>1, UnloadFields
    <3> QED
      BY <3>1, <3>2 DEF Empty
  <2> QED
    BY <1>2, <2>1, <2>2, UnloadCounts, UnloadPins, UnloadBalanced DEF Consistent
<1> QED
  BY <1>1, <1>2

----------------------------------------------------------------------------
(* Running a file in a registry where it registers nothing keeps the       *)
(* registry typed ...                                                      *)
LEMMA RunType ==
  ASSUME NEW r, Consistent(r), NEW f \in Files, NEW script \in Scripts
  PROVE  Run(r, f, script) \in Registries /\ OrderedIn(Run(r, f, script))
<1> DEFINE u == Run(r, f, script)
           files == [r.filePins EXCEPT ![f] = script.pins]
           seq == [r.seq EXCEPT ![f] = r.parses + 1]
<1>1. r \in Registries /\ script.ids \in SUBSET Ids /\ script.pins \in Pins
  BY ScriptsOK DEF Consistent
<1>2. files \in [Files -> Pins] /\ seq \in [Files -> Nat] /\ r.parses + 1 \in Nat
  BY <1>1 DEF Registries
<1>3. \A g \in Files : seq[g] <= r.parses + 1
  BY <1>1 DEF Registries, Consistent, OrderedIn
<1>4. [i \in Ids |-> IF script.pins[i] # NoPin THEN Winner(files, seq, i)
                    ELSE r.pins[i]] \in Pins
  <2> HIDE DEF files, seq
  <2>1. \A i \in Ids : Winner(files, seq, i) \in Gids \cup {NoPin}
    BY <1>2, <1>3, WinnerType
  <2>2. \A i \in Ids : r.pins[i] \in Gids \cup {NoPin}
    BY <1>1 DEF Registries, Pins
  <2> QED
    BY <2>1, <2>2 DEF Pins
<1>5. /\ [i \in Ids |-> IF i \in script.ids THEN r.refs[i] + 1 ELSE r.refs[i]] \in Counts
      /\ [i \in Ids |-> IF i \in {j \in script.ids : r.refs[j] = 0}
                        THEN r.additions[i] + 1 ELSE r.additions[i]] \in Counts
  BY <1>1 DEF Registries, Counts
<1>6. u \in Registries
  BY <1>1, <1>2, <1>4, <1>5 DEF Registries, Run, NewlyProvided
<1>7. OrderedIn(u)
  <2>1. u.filePins = files /\ u.seq = seq /\ u.parses = r.parses + 1
    BY DEF Run
  <2>2. r.filePins \in [Files -> Pins] /\ r.seq \in [Files -> Nat] /\ r.parses \in Nat
    BY <1>1 DEF Registries
  <2> HIDE DEF u
  <2> QED
    BY <1>3, <2>1, <2>2 DEF OrderedIn, Consistent
<1> QED
  BY <1>6, <1>7

(* ... its counts exact ...                                                *)
LEMMA RunCounts ==
  ASSUME NEW r, Consistent(r), NEW f \in Files, Empty(r, f), NEW script \in Scripts
  PROVE  CountedIn(Run(r, f, script))
<1> DEFINE u == Run(r, f, script)
<1>1. /\ u.depots = [r.depots EXCEPT ![f] = script.ids]
      /\ u.refs = [i \in Ids |-> IF i \in script.ids THEN r.refs[i] + 1 ELSE r.refs[i]]
      /\ u.keys = r.keys \cup script.ids
  BY DEF Run
<1>2. /\ r.depots \in [Files -> SUBSET Ids] /\ r.refs \in [Ids -> Nat]
      /\ r.depots[f] = {} /\ script.ids \in SUBSET Ids
  BY ScriptsOK DEF Consistent, Registries, Counts, Empty
<1> HIDE DEF u
<1>3. ASSUME NEW i \in Ids
      PROVE  /\ u.refs[i] = Cardinality(Providers(u, i))
             /\ i \in u.keys <=> Providers(u, i) # {}
  <2>1. CASE i \in script.ids
    <3>1. Providers(u, i) = Providers(r, i) \cup {f} /\ f \notin Providers(r, i)
      BY <1>1, <1>2, <2>1 DEF Providers
    <3>2. Cardinality(Providers(u, i)) = Cardinality(Providers(r, i)) + 1
      BY <3>1, ProvidersFinite, FS_AddElement
    <3> QED
      BY <1>1, <2>1, <3>1, <3>2 DEF Consistent, CountedIn
  <2>2. CASE i \notin script.ids
    <3>1. Providers(u, i) = Providers(r, i)
      BY <1>1, <1>2, <2>2 DEF Providers
    <3> QED
      BY <1>1, <2>2, <3>1 DEF Consistent, CountedIn
  <2> QED
    BY <2>1, <2>2
<1> QED
  BY <1>3 DEF CountedIn, u

(* ... the latest pin in force: this file's, since it was parsed last ...  *)
LEMMA RunPins ==
  ASSUME NEW r, Consistent(r), NEW f \in Files, Empty(r, f), NEW script \in Scripts
  PROVE  LatestIn(Run(r, f, script))
<1> DEFINE u == Run(r, f, script)
<1>1. /\ u.filePins = [r.filePins EXCEPT ![f] = script.pins]
      /\ u.seq = [r.seq EXCEPT ![f] = r.parses + 1] /\ u.parses = r.parses + 1
      /\ u.pins = [i \in Ids |-> IF script.pins[i] # NoPin
                                THEN Winner(u.filePins, u.seq, i) ELSE r.pins[i]]
  BY DEF Run
<1>2. /\ r.filePins \in [Files -> Pins] /\ r.seq \in [Files -> Nat]
      /\ \A i \in Ids : r.filePins[f][i] = NoPin
      /\ script.pins \in Pins
  BY ScriptsOK DEF Consistent, Registries, Empty, NoPins
<1>3. u \in Registries /\ OrderedIn(u)
  BY RunType
<1> HIDE DEF u
<1>4. /\ u.filePins \in [Files -> Pins] /\ u.seq \in [Files -> Nat] /\ u.parses \in Nat
      /\ \A g \in Files : u.seq[g] <= u.parses
      /\ \A g, h \in Files : u.seq[g] = u.seq[h] /\ u.seq[g] # 0 => g = h
  BY <1>3 DEF Registries, OrderedIn
<1>5. ASSUME NEW i \in Ids
      PROVE  /\ Pinning(u, i) = {} => u.pins[i] = NoPin
             /\ \A g \in Pinning(u, i) :
                  (\A h \in Pinning(u, i) : u.seq[h] <= u.seq[g])
                    => u.pins[i] = u.filePins[g][i]
  <2>1. CASE script.pins[i] = NoPin
    <3>1. /\ Pinning(u, i) = Pinning(r, i) /\ f \notin Pinning(r, i)
          /\ Pinning(r, i) \subseteq Files
      BY <1>1, <1>2, <2>1 DEF Pinning
    <3>2. \A g \in Pinning(r, i) : u.seq[g] = r.seq[g] /\ u.filePins[g] = r.filePins[g]
      BY <1>1, <1>2, <3>1
    <3>3. u.pins[i] = r.pins[i]
      BY <1>1, <2>1
    <3> QED
      BY <3>1, <3>2, <3>3 DEF Consistent, LatestIn
  <2>2. CASE script.pins[i] # NoPin
    <3>1. u.pins[i] = Winner(u.filePins, u.seq, i)
      BY <1>1, <2>2
    <3>2. Pinning(u, i) = PinningNow(u.filePins, u.seq, i)
      BY <1>3 DEF Pinning, PinningNow, OrderedIn
    <3> QED
      BY <1>4, <3>1, <3>2, WinnerIsLatest, WinnerUnique
  <2> QED
    BY <2>1, <2>2
<1> QED
  BY <1>5 DEF LatestIn, u

(* ... and its queues balanced.                                            *)
LEMMA RunBalanced ==
  ASSUME NEW r, Consistent(r), NEW f \in Files, NEW script \in Scripts,
         NEW t \in [Ids -> Int], BalancedIn(r, t)
  PROVE  BalancedIn(Run(r, f, script), t)
<1> DEFINE u == Run(r, f, script)
           new == {i \in script.ids : r.refs[i] = 0}
<1>1. /\ u.keys = r.keys \cup script.ids /\ u.removals = r.removals
      /\ u.additions = [i \in Ids |-> IF i \in new THEN r.additions[i] + 1
                                     ELSE r.additions[i]]
  BY DEF Run, NewlyProvided
<1>2. r.removals \in [Ids -> Nat] /\ r.additions \in [Ids -> Nat]
  BY DEF Consistent, Registries, Counts
<1>3. \A i \in Ids : r.refs[i] = 0 <=> i \notin r.keys
  BY ProvidersFinite, FS_EmptySet DEF Consistent, CountedIn
<1>4. \A i \in Ids : i \in new <=> i \in script.ids /\ i \notin r.keys
  BY <1>3
<1> HIDE DEF u, new
<1>5. ASSUME NEW i \in Ids
      PROVE  t[i] + u.additions[i] - u.removals[i] = IF i \in u.keys THEN 1 ELSE 0
  <2>1. t[i] + r.additions[i] - r.removals[i] = IF i \in r.keys THEN 1 ELSE 0
    BY DEF BalancedIn
  <2>2. CASE i \in new
    BY <1>1, <1>2, <1>4, <2>1, <2>2
  <2>3. CASE i \notin new
    BY <1>1, <1>4, <2>1, <2>3
  <2> QED
    BY <2>2, <2>3
<1> QED
  BY <1>5 DEF BalancedIn, u

(* ParseFile, opened or not, keeps the registry consistent and balanced.   *)
LEMMA ParseConsistent ==
  ASSUME NEW r, Consistent(r), NEW f \in Files, NEW content \in Scripts \cup {Gone},
         NEW t \in [Ids -> Int], BalancedIn(r, t)
  PROVE  Consistent(Parse(r, f, content)) /\ BalancedIn(Parse(r, f, content), t)
<1> DEFINE u == Unload(r, f)
<1>1. Consistent(u) /\ Empty(u, f) /\ BalancedIn(u, t)
  BY UnloadConsistent
<1> HIDE DEF u
<1>2. ASSUME content \in Scripts
      PROVE  Consistent(Run(u, f, content)) /\ BalancedIn(Run(u, f, content), t)
  BY <1>1, <1>2, RunType, RunCounts, RunPins, RunBalanced DEF Consistent
<1>3. Parse(r, f, content) = IF content = Gone THEN u ELSE Run(u, f, content)
  BY DEF Parse, u
<1> QED
  BY <1>1, <1>2, <1>3

(* Taking both queues leaves the rest as it was.                           *)
LEMMA TakenFields ==
  ASSUME NEW r \in Registries
  PROVE  LET u == Taken(r)
         IN  /\ u.depots = r.depots /\ u.refs = r.refs /\ u.keys = r.keys
             /\ u.filePins = r.filePins /\ u.seq = r.seq /\ u.parses = r.parses
             /\ u.pins = r.pins /\ u.removals = Zero /\ u.additions = Zero
             /\ u \in Registries
<1>1. Zero \in Counts
  BY DEF Zero, Counts
<1> QED
  BY <1>1 DEF Taken, Registries

----------------------------------------------------------------------------
(* The inductive invariant: each property needs the others' facts.  Exact  *)
(* counts make a decrement safe and tell the last provider from the rest,  *)
(* which the queues count; the strict order makes the latest file unique.  *)
RegistryInv ==
  /\ Consistent(reg)
  /\ told \in [Ids -> Int]
  /\ BalancedIn(reg, told)

LEMMA RegistryInvInit == RegistryInit => RegistryInv
<1> SUFFICES ASSUME RegistryInit
             PROVE  RegistryInv
  OBVIOUS
<1>1. reg = EmptyRegistry /\ told = Zero
  BY DEF RegistryInit
<1>2. reg \in Registries
  BY <1>1 DEF EmptyRegistry, Registries, Counts, Zero, Pins, NoPins
<1>3. \A i \in Ids : Providers(reg, i) = {} /\ Pinning(reg, i) = {}
  BY <1>1 DEF EmptyRegistry, Providers, Pinning, NoPins
<1>4. CountedIn(reg)
  BY <1>1, <1>3, FS_EmptySet DEF EmptyRegistry, CountedIn, Zero
<1>5. LatestIn(reg) /\ OrderedIn(reg)
  <2>1. /\ reg.seq = [f \in Files |-> 0] /\ reg.parses = 0 /\ reg.pins = NoPins
        /\ reg.filePins = [f \in Files |-> NoPins]
    BY <1>1 DEF EmptyRegistry
  <2>2. OrderedIn(reg)
    BY <2>1 DEF OrderedIn, NoPins
  <2> QED
    BY <1>3, <2>1, <2>2 DEF LatestIn, NoPins
<1>6. BalancedIn(reg, told) /\ told \in [Ids -> Int]
  BY <1>1 DEF EmptyRegistry, BalancedIn, Zero
<1> QED
  BY <1>2, <1>4, <1>5, <1>6 DEF RegistryInv, Consistent

LEMMA RegistryInvStep == RegistryInv /\ [RegistryNext]_registryVars => RegistryInv'
<1> SUFFICES ASSUME RegistryInv, [RegistryNext]_registryVars
             PROVE  RegistryInv'
  OBVIOUS
<1>1. ASSUME NEW f \in Files, NEW content \in Scripts \cup {Gone}, ParseFile(f, content)
      PROVE  RegistryInv'
  <2>1. reg' = Parse(reg, f, content) /\ told' = told
    BY <1>1 DEF ParseFile
  <2>2. Consistent(reg') /\ BalancedIn(reg', told)
    BY <2>1, ParseConsistent DEF RegistryInv
  <2> QED
    BY <2>1, <2>2 DEF RegistryInv, Consistent, BalancedIn, CountedIn, OrderedIn, LatestIn,
                      Providers, Pinning
<1>2. ASSUME NEW f \in Files, UnloadFile(f)
      PROVE  RegistryInv'
  <2>1. reg' = Unload(reg, f) /\ told' = told
    BY <1>2 DEF UnloadFile
  <2>2. Consistent(reg') /\ BalancedIn(reg', told)
    BY <2>1, UnloadConsistent DEF RegistryInv
  <2> QED
    BY <2>1, <2>2 DEF RegistryInv, Consistent, BalancedIn, CountedIn, OrderedIn, LatestIn,
                      Providers, Pinning
<1>3. CASE TakePending
  <2>1. /\ reg' = Taken(reg)
        /\ told' = [i \in Ids |-> told[i] + reg.additions[i] - reg.removals[i]]
    BY <1>3 DEF TakePending
  <2>2. /\ reg'.depots = reg.depots /\ reg'.refs = reg.refs /\ reg'.keys = reg.keys
        /\ reg'.filePins = reg.filePins /\ reg'.seq = reg.seq
        /\ reg'.parses = reg.parses /\ reg'.pins = reg.pins
        /\ reg'.removals = Zero /\ reg'.additions = Zero /\ reg' \in Registries
    BY <2>1, TakenFields DEF RegistryInv, Consistent
  <2>3. CountedIn(reg') /\ OrderedIn(reg') /\ LatestIn(reg')
    BY <2>2, SMTT(30) DEF RegistryInv, Consistent, CountedIn, OrderedIn, LatestIn, Providers, Pinning
  <2>4. told' \in [Ids -> Int] /\ BalancedIn(reg', told')
    BY <2>1, <2>2 DEF RegistryInv, Consistent, Registries, Counts, BalancedIn, Zero
  <2> QED
    BY <2>2, <2>3, <2>4 DEF RegistryInv, Consistent, CountedIn, OrderedIn, LatestIn,
                            Providers, Pinning, BalancedIn
<1>4. CASE UNCHANGED registryVars
  BY <1>4, ZenonT(30) DEF RegistryInv, registryVars, Consistent, BalancedIn, CountedIn, OrderedIn,
              LatestIn, Providers, Pinning
<1> QED
  BY <1>1, <1>2, <1>3, <1>4 DEF RegistryNext

LEMMA RegistryInvAlways == RegistrySpec => []RegistryInv
BY RegistryInvInit, RegistryInvStep, PTL DEF RegistrySpec

(* Type correctness: LuaConfig's tables have their declared types, the     *)
(* counts never drop below zero among them.                                *)
THEOREM RegistryTyped == RegistrySpec => []RegistryTypeOK
<1>1. RegistryInv => RegistryTypeOK
  BY DEF RegistryInv, Consistent, RegistryTypeOK
<1> QED
  BY <1>1, RegistryInvAlways, PTL

(* A depot is counted once per file that names it and has a key entry      *)
(* while there is one, for any order of parses and unloads.                *)
THEOREM CountsAreExact == RegistrySpec => []RefCounted
<1>1. RegistryInv => RefCounted
  BY DEF RegistryInv, Consistent, RefCounted
<1> QED
  BY <1>1, RegistryInvAlways, PTL

(* ManifestOverrides, updated one depot at a time, always holds the pin of *)
(* the most recently parsed file that still has one.                       *)
THEOREM LatestPinAlwaysWins == RegistrySpec => []LatestPinWins
<1>1. RegistryInv => LatestPinWins
  BY DEF RegistryInv, Consistent, LatestPinWins
<1> QED
  BY <1>1, RegistryInvAlways, PTL

(* NotifyLicenseChanged's two queues miss no appearance or disappearance   *)
(* of a depot and report none twice.                                       *)
THEOREM QueuesAreComplete == RegistrySpec => []QueuesAccountForKeys
<1>1. RegistryInv => QueuesAccountForKeys
  BY DEF RegistryInv, BalancedIn, QueuesAccountForKeys
<1> QED
  BY <1>1, RegistryInvAlways, PTL

-----------------------------------------------------------------------------

(* What a chunk may run: any statement but an error.                       *)
Runnable == {s \in LuaStmts : s.call # "error"}
ChunkState == [depth : Int, inner : Seq(LuaStmts), run : Seq(Runnable)]
RunSet(acc) == {acc.run[k] : k \in 1 .. Len(acc.run)}

(* What of a chunk is run.                                                 *)
LEMMA BeforeErrorRuns ==
  ASSUME NEW chunk \in Seq(LuaStmts)
  PROVE  /\ BeforeError(chunk) \in Seq(Runnable)
         /\ Len(chunk) = 1 /\ chunk[1].call # "error" => BeforeError(chunk) = chunk
<1> DEFINE ends == {i \in 1 .. Len(chunk) : chunk[i].call = "error"}
           e == CHOOSE i \in ends : \A j \in ends : i <= j
<1>1. BeforeError(chunk) = IF ends = {} THEN chunk ELSE SubSeq(chunk, 1, e - 1)
  <2>1. DOMAIN chunk = 1 .. Len(chunk)
    OBVIOUS
  <2> QED
    BY <2>1 DEF BeforeError
<1>2. Len(chunk) = 1 /\ chunk[1].call # "error" => ends = {}
  OBVIOUS
<1>3. CASE ends = {}
  <2>1. \A i \in 1 .. Len(chunk) : chunk[i] \in Runnable
    BY <1>3 DEF Runnable
  <2>2. chunk \in Seq(Runnable)
    BY <2>1
  <2> QED
    BY <1>1, <1>3, <2>2
<1>4. CASE ends # {}
  <2>1. ends \in SUBSET Nat
    OBVIOUS
  <2>2. e \in ends /\ \A j \in ends : e <= j
    <3>1. \E k \in ends : \A j \in ends : k <= j
      BY <1>4, <2>1, SmallestExists
    <3> HIDE DEF ends
    <3> QED
      BY <3>1
  <2> HIDE DEF e
  <2>3. e \in 1 .. Len(chunk) /\ \A i \in 1 .. e - 1 : chunk[i] \in Runnable
    BY <2>2 DEF Runnable
  <2>4. SubSeq(chunk, 1, e - 1) \in Seq(Runnable)
    <3> DEFINE f == [i \in 1 .. e - 1 |-> chunk[i]]
    <3>1. f \in Seq(Runnable)
      BY <2>3
    <3>2. SubSeq(chunk, 1, e - 1) = f
      BY <2>3
    <3> QED
      BY <3>1, <3>2
  <2> QED
    BY <1>1, <1>2, <1>4, <2>4
<1> QED
  BY <1>3, <1>4

(* What a line is of.                                                      *)
LEMMA LineFields ==
  ASSUME NEW l \in LuaLines
  PROVE  l.stmt \in LuaStmts /\ l.kind \in {"whole", "open", "close", "garbled"}
  BY DEF LuaLines, LuaStmts, Whole, Close, Open, Garbled, Raise

(* One line more: what was run stays run.                                  *)
LEMMA ChunkTyped ==
  ASSUME NEW acc \in ChunkState, NEW line \in LuaLines
  PROVE  NextChunk(acc, line) \in ChunkState /\ RunSet(acc) \subseteq RunSet(NextChunk(acc, line))
<1> DEFINE inner == IF line.kind \in {"whole", "close"} THEN Append(acc.inner, line.stmt) ELSE acc.inner
           depth == acc.depth + CASE line.kind = "open" -> 1 [] line.kind = "close" -> -1 [] OTHER -> 0
           more == BeforeError(inner)
<1>1. acc.inner \in Seq(LuaStmts) /\ acc.run \in Seq(Runnable) /\ acc.depth \in Int
  BY DEF ChunkState
<1>2. line.stmt \in LuaStmts /\ line.kind \in {"whole", "open", "close", "garbled"}
  BY LineFields
<1>3. inner \in Seq(LuaStmts)
  BY <1>1, <1>2
<1>4. depth \in Int
  BY <1>1, <1>2
<1>5. more \in Seq(Runnable)
  BY <1>3, BeforeErrorRuns
<1>6. acc.run \o more \in Seq(Runnable) /\ \A i \in 1 .. Len(acc.run) : (acc.run \o more)[i] = acc.run[i]
      /\ Len(acc.run \o more) = Len(acc.run) + Len(more)
  <2> HIDE DEF more
  <2> QED
    BY <1>1, <1>5, TwoParts
<1>7. NextChunk(acc, line) =
        IF acc.depth = Stuck THEN acc
        ELSE IF line.kind = "garbled" \/ depth < 0 THEN [acc EXCEPT !.depth = Stuck]
        ELSE IF depth > 0 THEN [acc EXCEPT !.depth = depth, !.inner = inner]
        ELSE [depth |-> 0, inner |-> <<>>, run |-> acc.run \o more]
  BY DEF NextChunk
<1> HIDE DEF inner, depth, more
<1>8. CASE NextChunk(acc, line) = acc
  BY <1>8
<1>9. CASE NextChunk(acc, line) = [acc EXCEPT !.depth = Stuck]
  BY <1>9 DEF ChunkState, RunSet, Stuck
<1>10. CASE NextChunk(acc, line) = [acc EXCEPT !.depth = depth, !.inner = inner]
  BY <1>3, <1>4, <1>10 DEF ChunkState, RunSet
<1>11. CASE NextChunk(acc, line) = [depth |-> 0, inner |-> <<>>, run |-> acc.run \o more]
  <2>1. NextChunk(acc, line) \in ChunkState
    BY <1>6, <1>11 DEF ChunkState
  <2>2. NextChunk(acc, line).run = acc.run \o more
    BY <1>11
  <2>3. Len(acc.run) \in Nat /\ Len(more) \in Nat
    BY <1>1, <1>5
  <2>4. ASSUME NEW k \in 1 .. Len(acc.run) PROVE acc.run[k] \in RunSet(NextChunk(acc, line))
    <3>1. k \in 1 .. Len(acc.run \o more) /\ (acc.run \o more)[k] = acc.run[k]
      BY <1>6, <2>3
    <3> QED
      BY <2>2, <3>1 DEF RunSet
  <2> QED
    BY <2>1, <2>4 DEF RunSet
<1> QED
  BY <1>7, <1>8, <1>9, <1>10, <1>11

(* Reading a text, line by line.                                           *)
Reads(text, after) ==
  /\ after[0] = NoChunk
  /\ \A i \in 0 .. Len(text) : after[i] \in ChunkState
  /\ \A i \in 1 .. Len(text) : after[i] = NextChunk(after[i - 1], text[i])
  /\ Executed(text) = after[Len(text)].run

(* Executed reads a text so.                                               *)
LEMMA TextRead ==
  ASSUME NEW text \in Seq(LuaLines)
  PROVE  \E after : Reads(text, after)
<1> DEFINE last == Len(text)
           step == [p \in (1 .. last) \X ChunkState |-> NextChunk(p[2], text[p[1]])]
           Is(g) == g = [i \in 0 .. Len(text) |-> IF i = 0 THEN NoChunk ELSE NextChunk(g[i - 1], text[i])]
           after == CHOOSE g : Is(g)
<1>1. last \in Nat /\ NoChunk \in ChunkState /\ \A i \in 1 .. last : text[i] \in LuaLines
  BY DEF NoChunk, ChunkState
<1>2. step \in [(1 .. last) \X ChunkState -> ChunkState]
  <2>1. ASSUME NEW p \in (1 .. last) \X ChunkState PROVE NextChunk(p[2], text[p[1]]) \in ChunkState
    <3>1. p[2] \in ChunkState /\ text[p[1]] \in LuaLines
      BY <1>1
    <3> QED
      BY <3>1, ChunkTyped
  <2> QED
    BY <2>1
<1>3. \A i \in 1 .. last, v \in ChunkState : step[<<i, v>>] = NextChunk(v, text[i])
  OBVIOUS
<1> HIDE DEF step
<1>4. PICK run : /\ run \in [0 .. last -> ChunkState] /\ run[0] = NoChunk
                 /\ \A i \in 1 .. last : run[i] = step[<<i, run[i - 1]>>]
  <2>1. PICK run : IsRun(run, ChunkState, NoChunk, last, step)
    <3> HIDE DEF last
    <3> QED
      BY <1>1, <1>2, RunExists
  <2> QED
    BY <2>1 DEF IsRun
<1>5. ASSUME NEW i \in 1 .. last PROVE run[i] = NextChunk(run[i - 1], text[i])
  <2>1. i - 1 \in 0 .. last
    BY <1>1
  <2>2. run[i - 1] \in ChunkState
    BY <1>4, <2>1
  <2> QED
    BY <1>3, <1>4, <2>2
<1>6. Is(run)
  <2>1. \A i \in 0 .. last : run[i] = IF i = 0 THEN NoChunk ELSE NextChunk(run[i - 1], text[i])
    BY <1>1, <1>4, <1>5
  <2>2. run = [i \in 0 .. last |-> run[i]]
    BY <1>4
  <2> QED
    BY <2>1, <2>2, Zenon
<1>7. Is(after)
  <2> HIDE DEF Is
  <2> QED
    BY <1>6
<1>8. Executed(text) = after[Len(text)].run
  BY DEF Executed
<1>9. /\ after[0] = NoChunk
      /\ \A i \in 1 .. last : after[i] = NextChunk(after[i - 1], text[i])
  <2> HIDE DEF after
  <2> QED
    BY <1>1, <1>7
<1> HIDE DEF after, Is
<1> DEFINE Typed == {i \in Nat : after[i] \in ChunkState}
<1>10. ASSUME NEW i \in 0 .. last - 1, i \in Typed PROVE i + 1 \in Typed
  <2>1. i + 1 \in 1 .. last /\ (i + 1) - 1 = i /\ i + 1 \in Nat
    BY <1>1
  <2>2. after[i + 1] = NextChunk(after[i], text[i + 1]) /\ text[i + 1] \in LuaLines
    BY <1>1, <1>9, <2>1
  <2> QED
    BY <1>10, <2>1, <2>2, ChunkTyped
<1>11. 0 \in Typed
  BY <1>1, <1>9
<1>12. \A i \in 0 .. last : i \in Typed
  <2> HIDE DEF Typed, last
  <2> QED
    BY <1>1, <1>10, <1>11, Upward
<1> QED
  BY <1>8, <1>9, <1>12 DEF Reads

(* The depots a text adds.                                                 *)
AddedBy(text) ==
  {d \in LuaDepots : \E i \in 1 .. Len(Executed(text)) :
     Executed(text)[i].call = "addappid" /\ Executed(text)[i].id = d}

(* What it yields can be run.                                              *)
LEMMA ExecutedTyped ==
  ASSUME NEW text \in Seq(LuaLines)
  PROVE  Executed(text) \in Seq(Runnable)
<1>1. PICK after : Reads(text, after)
  BY TextRead
<1>2. after[Len(text)] \in ChunkState
  BY <1>1 DEF Reads
<1> QED
  BY <1>1, <1>2 DEF Reads, ChunkState

(* A statement of two lines, ahead of anything but whole ones, is run.     *)
LEMMA TwoLinesRun ==
  ASSUME NEW text \in Seq(LuaLines), NEW n \in 1 .. Len(text),
         n > 1, text[n].kind = "close", text[n - 1].kind = "open",
         text[n].stmt.call = "addappid",
         \A j \in 1 .. n - 2 : text[j].kind = "whole"
  PROVE  text[n].stmt.id \in AddedBy(text)
<1>1. PICK after : Reads(text, after)
  BY TextRead
<1>2. Len(text) \in Nat /\ n \in Nat /\ n - 2 \in Nat /\ n - 1 \in Nat /\ n <= Len(text)
  OBVIOUS
<1> DEFINE Flat == {j \in Nat : after[j].depth = 0 /\ after[j].inner = <<>>}
<1>3. 0 \in Flat
  BY <1>1 DEF Reads, NoChunk
<1>4. ASSUME NEW j \in 0 .. (n - 2) - 1, j \in Flat PROVE j + 1 \in Flat
  <2>1. j + 1 \in 1 .. Len(text) /\ j + 1 \in 1 .. n - 2 /\ (j + 1) - 1 = j /\ j + 1 \in Nat
    BY <1>2
  <2>2. after[j + 1] = NextChunk(after[j], text[j + 1]) /\ text[j + 1].kind = "whole"
    BY <1>1, <2>1 DEF Reads
  <2>3. NextChunk(after[j], text[j + 1]).depth = 0 /\ NextChunk(after[j], text[j + 1]).inner = <<>>
    BY <1>4, <2>2 DEF NextChunk, Stuck
  <2> QED
    BY <2>1, <2>2, <2>3
<1>5. n - 2 \in Flat
  <2> HIDE DEF Flat
  <2>1. \A j \in 0 .. n - 2 : j \in Flat
    BY <1>2, <1>3, <1>4, Upward
  <2> QED
    BY <1>2, <2>1
<1>6. after[n - 1] = NextChunk(after[n - 2], text[n - 1]) /\ after[n] = NextChunk(after[n - 1], text[n])
  <2>1. n - 1 \in 1 .. Len(text) /\ (n - 1) - 1 = n - 2
    BY <1>2
  <2> QED
    BY <1>1, <2>1 DEF Reads
<1>7. after[n - 1].depth = 1 /\ after[n - 1].inner = <<>>
  <2>1. DOMAIN after[n - 2] = {"depth", "inner", "run"}
    <3>1. n - 2 \in 0 .. Len(text)
      BY <1>2
    <3> QED
      BY <1>1, <3>1 DEF Reads, ChunkState
  <2>2. NextChunk(after[n - 2], text[n - 1]) =
          [after[n - 2] EXCEPT !.depth = 1, !.inner = after[n - 2].inner]
    <3>1. after[n - 2].depth = 0
      BY <1>5
    <3>2. text[n - 1].kind = "open"
      OBVIOUS
    <3> DEFINE acc == after[n - 2] line == text[n - 1]
    <3>3. acc.depth = 0 /\ line.kind = "open"
      BY <3>1, <3>2
    <3> HIDE DEF acc, line
    <3>4. NextChunk(acc, line) = [acc EXCEPT !.depth = acc.depth + 1, !.inner = acc.inner]
      BY <3>3 DEF NextChunk, Stuck
    <3>5. NextChunk(acc, line) = [acc EXCEPT !.depth = 1, !.inner = acc.inner]
      BY <3>3, <3>4
    <3> QED
      BY <3>5 DEF acc, line
  <2> QED
    BY <1>5, <1>6, <2>1, <2>2
<1> DEFINE s == text[n].stmt
<1>8. s \in LuaStmts /\ s.call = "addappid"
  BY LineFields
<1>9. after[n] = [depth |-> 0, inner |-> <<>>, run |-> after[n - 1].run \o <<s>>]
  <2>1. BeforeError(<<s>>) = <<s>>
    <3>1. <<s>> \in Seq(LuaStmts) /\ Len(<<s>>) = 1 /\ <<s>>[1].call # "error"
      BY <1>8
    <3> HIDE DEF s
    <3> QED
      BY <3>1, BeforeErrorRuns
  <2>2. Append(<<>>, s) = <<s>>
    OBVIOUS
  <2>3. NextChunk(after[n - 1], text[n]) =
          [depth |-> 0, inner |-> <<>>, run |-> after[n - 1].run \o BeforeError(Append(<<>>, s))]
    BY <1>7 DEF NextChunk, Stuck
  <2> QED
    BY <1>6, <2>1, <2>2, <2>3
<1>10. s \in RunSet(after[n])
  <2>1. after[n - 1].run \in Seq(Runnable) /\ s \in Runnable
    <3>1. n - 1 \in 0 .. Len(text)
      BY <1>2
    <3> QED
      BY <1>1, <1>8, <3>1 DEF Reads, ChunkState, Runnable
  <2> HIDE DEF s
  <2>2. <<s>> \in Seq(Runnable) /\ Len(<<s>>) = 1 /\ <<s>>[1] = s
    BY <2>1
  <2>3. /\ Len(after[n].run) = Len(after[n - 1].run) + 1 /\ Len(after[n - 1].run) \in Nat
        /\ after[n].run[Len(after[n - 1].run) + 1] = s
    BY <1>9, <2>1, <2>2, TwoParts
  <2>4. Len(after[n - 1].run) + 1 \in 1 .. Len(after[n].run)
    BY <2>3
  <2> QED
    BY <2>3, <2>4 DEF RunSet
<1> HIDE DEF s
<1> DEFINE Ran == {j \in Nat : s \in RunSet(after[n + j])}
<1>11. ASSUME NEW j \in 0 .. (Len(text) - n) - 1, j \in Ran PROVE j + 1 \in Ran
  <2>1. (n + (j + 1)) \in 1 .. Len(text) /\ (n + (j + 1)) - 1 = n + j /\ n + j \in 0 .. Len(text)
    BY <1>2
  <2>2. /\ after[n + (j + 1)] = NextChunk(after[n + j], text[n + (j + 1)])
        /\ after[n + j] \in ChunkState /\ text[n + (j + 1)] \in LuaLines
    BY <1>1, <2>1 DEF Reads
  <2>3. RunSet(after[n + j]) \subseteq RunSet(after[n + (j + 1)])
    BY <2>2, ChunkTyped
  <2> QED
    BY <1>11, <2>3
<1>12. s \in RunSet(after[Len(text)])
  <2>1. 0 \in Ran
    BY <1>2, <1>10
  <2>2. Len(text) - n \in Nat /\ n + (Len(text) - n) = Len(text)
    <3>1. \A size, m \in Nat : m <= size => size - m \in Nat /\ m + (size - m) = size
      OBVIOUS
    <3> QED
      BY <1>2, <3>1, Zenon
  <2>3. Len(text) - n \in Ran
    <3> HIDE DEF Ran
    <3>1. \A j \in 0 .. Len(text) - n : j \in Ran
      BY <1>11, <2>1, <2>2, Upward
    <3> QED
      BY <2>2, <3>1
  <2> QED
    BY <2>2, <2>3
<1>13. s.id \in LuaDepots
  BY <1>8 DEF LuaStmts, Add, Note, Raise
<1> QED
  BY <1>1, <1>8, <1>12, <1>13 DEF Reads, RunSet, AddedBy, s

(* The tables, with an entry for what a file names and no app bought       *)
(* before a file that gives it.                                            *)
Tables ==
  [depots : [LuaFiles -> SUBSET LuaDepots], mtime : [LuaFiles -> Nat],
   keys : [LuaDepots -> DepotKeys \cup {NoKey, NoEntry}], bought : [LuaDepots -> Nat],
   tokens : SUBSET LuaDepots, texts : [LuaFiles -> Seq(LuaLines)], loads : Nat]

EntriesNamed(t) ==
  \A d \in LuaDepots : t.keys[d] # NoEntry <=> \E g \in LuaFiles : d \in t.depots[g]
BoughtNoEarlier(t) ==
  \A d \in LuaDepots, g \in LuaFiles : d \in t.depots[g] => t.bought[d] >= t.mtime[g]

Sound(t) == t \in Tables /\ EntriesNamed(t) /\ BoughtNoEarlier(t)

(* The depots a text gives a key.                                          *)
KeyedBy(text) ==
  {d \in LuaDepots : \E i \in 1 .. Len(Executed(text)) :
     /\ Executed(text)[i].call = "addappid" /\ Executed(text)[i].id = d
     /\ Executed(text)[i].key # NoKey}

(* And each file's depots are those its text adds, with a key if one is    *)
(* given anywhere.                                                         *)
LuaInv ==
  /\ Sound(lua)
  /\ \A f \in LuaFiles : /\ lua.depots[f] = AddedBy(lua.texts[f])
                         /\ \A d \in KeyedBy(lua.texts[f]) : lua.keys[d] \in DepotKeys

(* What a statement adds, and what it gives a key.                         *)
Adds(s)  == IF s.call = "addappid" THEN {s.id} ELSE {}
Gives(s) == IF s.call = "addappid" /\ s.key # NoKey THEN {s.id} ELSE {}

(* One statement of a file, as it is run.                                  *)
LEMMA StatementRuns ==
  ASSUME NEW t \in Tables, NEW f \in LuaFiles, NEW s \in Runnable
  PROVE  /\ Apply1(t, f, s) \in Tables
         /\ Sound(t) => Sound(Apply1(t, f, s))
         /\ Apply1(t, f, s).texts = t.texts
         /\ Apply1(t, f, s).depots = [t.depots EXCEPT ![f] = @ \cup Adds(s)]
         /\ \A d \in LuaDepots : t.keys[d] \in DepotKeys \/ d \in Gives(s)
                                   => Apply1(t, f, s).keys[d] \in DepotKeys
<1> DEFINE u == Apply1(t, f, s)
<1>1. /\ t.depots \in [LuaFiles -> SUBSET LuaDepots] /\ t.mtime \in [LuaFiles -> Nat]
      /\ t.keys \in [LuaDepots -> DepotKeys \cup {NoKey, NoEntry}]
      /\ t.bought \in [LuaDepots -> Nat] /\ t.tokens \in SUBSET LuaDepots
      /\ DOMAIN t = {"depots", "mtime", "keys", "bought", "tokens", "texts", "loads"}
  BY DEF Tables
<1>2. \/ s.call = "addtoken" /\ s.id \in LuaDepots
      \/ s.call = "addappid" /\ s.id \in LuaDepots /\ s.key \in DepotKeys \cup {NoKey}
  BY DEF Runnable, LuaStmts, Add, Note, Raise
<1>3. CASE s.call = "addtoken"
  <2>1. u = [t EXCEPT !.tokens = @ \cup {s.id}]
    BY <1>3 DEF Apply1
  <2>2. /\ u.tokens = t.tokens \cup {s.id} /\ u.depots = t.depots /\ u.keys = t.keys
        /\ u.bought = t.bought /\ u.mtime = t.mtime /\ u.texts = t.texts
    BY <1>1, <2>1
  <2>3. u \in Tables
    <3>1. t.tokens \cup {s.id} \in SUBSET LuaDepots
      BY <1>1, <1>2, <1>3
    <3> QED
      BY <2>1, <3>1 DEF Tables
  <2>4. Adds(s) = {} /\ Gives(s) = {}
    BY <1>3 DEF Adds, Gives
  <2>5. t.depots = [t.depots EXCEPT ![f] = @ \cup {}]
    BY <1>1
  <2>6. Sound(t) => Sound(u)
    BY <2>2, <2>3 DEF Sound, EntriesNamed, BoughtNoEarlier
  <2> HIDE DEF u
  <2> QED
    BY <2>2, <2>3, <2>4, <2>5, <2>6 DEF u
<1>4. CASE s.call = "addappid"
  <2> DEFINE key == BetterKey(t.keys[s.id], s.key)
             time == IF s.id \in t.depots[f] THEN t.bought[s.id]
                     ELSE LaterTime(t.bought[s.id], t.mtime[f])
  <2>1. s.id \in LuaDepots /\ s.key \in DepotKeys \cup {NoKey}
    BY <1>2, <1>4
  <2>2. u = [t EXCEPT !.keys = [t.keys EXCEPT ![s.id] = key],
                      !.depots = [t.depots EXCEPT ![f] = @ \cup {s.id}],
                      !.bought = [t.bought EXCEPT ![s.id] = time]]
    BY <1>4 DEF Apply1
  <2>3. key \in DepotKeys \cup {NoKey, NoEntry} /\ key # NoEntry
        /\ (t.keys[s.id] \in DepotKeys \/ s.key # NoKey => key \in DepotKeys)
    BY <1>1, <2>1, LuaAssumption DEF BetterKey
  <2>4. time \in Nat /\ time >= t.bought[s.id] /\ (s.id \notin t.depots[f] => time >= t.mtime[f])
    BY <1>1, <2>1 DEF LaterTime
  <2> HIDE DEF key, time, u
  <2>5. /\ u.keys = [t.keys EXCEPT ![s.id] = key]
        /\ u.depots = [t.depots EXCEPT ![f] = @ \cup {s.id}]
        /\ u.bought = [t.bought EXCEPT ![s.id] = time]
        /\ u.mtime = t.mtime /\ u.texts = t.texts
    BY <1>1, <2>2
  <2>6. u \in Tables
    <3>1. /\ [t.keys EXCEPT ![s.id] = key] \in [LuaDepots -> DepotKeys \cup {NoKey, NoEntry}]
          /\ [t.depots EXCEPT ![f] = @ \cup {s.id}] \in [LuaFiles -> SUBSET LuaDepots]
          /\ [t.bought EXCEPT ![s.id] = time] \in [LuaDepots -> Nat]
      BY <1>1, <2>1, <2>3, <2>4
    <3> QED
      BY <2>2, <3>1 DEF Tables
  <2>7. Adds(s) = {s.id} /\ Gives(s) = IF s.key # NoKey THEN {s.id} ELSE {}
    BY <1>4 DEF Adds, Gives
  <2>8. ASSUME Sound(t) PROVE EntriesNamed(u)
    <3> SUFFICES ASSUME NEW d \in LuaDepots
                 PROVE  u.keys[d] # NoEntry <=> \E g \in LuaFiles : d \in u.depots[g]
      BY DEF EntriesNamed
    <3>1. CASE d = s.id
      <4>1. u.keys[d] = key /\ d \in u.depots[f]
        BY <1>1, <2>1, <2>5, <3>1
      <4> QED
        BY <2>3, <4>1
    <3>2. CASE d # s.id
      <4>1. u.keys[d] = t.keys[d]
        BY <1>1, <2>5, <3>2
      <4>2. \A g \in LuaFiles : d \in u.depots[g] <=> d \in t.depots[g]
        BY <1>1, <2>5, <3>2
      <4> QED
        BY <2>8, <4>1, <4>2 DEF Sound, EntriesNamed
    <3> QED
      BY <3>1, <3>2
  <2>9. ASSUME Sound(t) PROVE BoughtNoEarlier(u)
    <3> SUFFICES ASSUME NEW d \in LuaDepots, NEW g \in LuaFiles, d \in u.depots[g]
                 PROVE  u.bought[d] >= t.mtime[g]
      BY <2>5 DEF BoughtNoEarlier
    <3>1. t.bought[d] \in Nat /\ t.mtime[g] \in Nat /\ t.bought[s.id] \in Nat
      BY <1>1, <2>1
    <3>2. d \in t.depots[g] => t.bought[d] >= t.mtime[g]
      BY <2>9 DEF Sound, BoughtNoEarlier
    <3>3. CASE d # s.id
      <4>1. u.bought[d] = t.bought[d] /\ d \in t.depots[g]
        BY <1>1, <2>5, <3>3
      <4> QED
        BY <3>2, <4>1
    <3>4. CASE d = s.id
      <4>1. u.bought[d] = time
        BY <1>1, <2>5, <3>4
      <4>2. g = f \/ d \in t.depots[g]
        BY <1>1, <2>5
      <4> QED
        BY <2>4, <3>1, <3>2, <3>4, <4>1, <4>2
    <3> QED
      BY <3>3, <3>4
  <2>10. \A d \in LuaDepots : t.keys[d] \in DepotKeys \/ d \in Gives(s) => u.keys[d] \in DepotKeys
    BY <1>1, <2>1, <2>3, <2>5, <2>7
  <2> QED
    BY <2>5, <2>6, <2>7, <2>8, <2>9, <2>10 DEF Sound, u
<1> QED
  BY <1>2, <1>3, <1>4

(* A file is unloaded: what only it named loses key and time.              *)
LEMMA UnloadRuns ==
  ASSUME NEW t, Sound(t), NEW f \in LuaFiles
  PROVE  /\ Sound(Unloaded(t, f))
         /\ Unloaded(t, f).depots = [t.depots EXCEPT ![f] = {}]
         /\ t.depots[f] = {} => Unloaded(t, f) = t
         /\ t.depots[f] # {} => Unloaded(t, f).texts = [t.texts EXCEPT ![f] = <<>>]
         /\ \A d \in LuaDepots : (\E g \in LuaFiles \ {f} : d \in t.depots[g])
                                   => Unloaded(t, f).keys[d] = t.keys[d]
<1> DEFINE u == Unloaded(t, f)
           others == UNION {t.depots[g] : g \in LuaFiles \ {f}}
           last == t.depots[f] \ others
<1>1. /\ t.depots \in [LuaFiles -> SUBSET LuaDepots] /\ t.mtime \in [LuaFiles -> Nat]
      /\ t.keys \in [LuaDepots -> DepotKeys \cup {NoKey, NoEntry}]
      /\ t.bought \in [LuaDepots -> Nat] /\ t.texts \in [LuaFiles -> Seq(LuaLines)]
      /\ DOMAIN t = {"depots", "mtime", "keys", "bought", "tokens", "texts", "loads"}
      /\ t \in Tables
  BY DEF Tables, Sound
<1>2. CASE t.depots[f] = {}
  <2>1. u = t
    BY <1>2 DEF Unloaded
  <2>2. t.depots = [t.depots EXCEPT ![f] = {}]
    BY <1>1, <1>2
  <2> HIDE DEF u
  <2> QED
    BY <1>2, <2>1, <2>2 DEF u
<1>3. CASE t.depots[f] # {}
  <2> DEFINE keys == [d \in LuaDepots |-> IF d \in last THEN NoEntry ELSE t.keys[d]]
             bought == [d \in LuaDepots |-> IF d \in last THEN 0 ELSE t.bought[d]]
  <2>1. u = [t EXCEPT !.depots = [t.depots EXCEPT ![f] = {}], !.mtime = [t.mtime EXCEPT ![f] = 0],
                      !.texts = [t.texts EXCEPT ![f] = <<>>], !.keys = keys, !.bought = bought]
    BY <1>3 DEF Unloaded
  <2>2. \A d \in LuaDepots : d \in last <=> d \in t.depots[f] /\ \A g \in LuaFiles \ {f} : d \notin t.depots[g]
    OBVIOUS
  <2> HIDE DEF last, others
  <2>3. /\ keys \in [LuaDepots -> DepotKeys \cup {NoKey, NoEntry}]
        /\ \A d \in LuaDepots : keys[d] = IF d \in last THEN NoEntry ELSE t.keys[d]
    BY <1>1
  <2>4. /\ bought \in [LuaDepots -> Nat]
        /\ \A d \in LuaDepots : bought[d] = IF d \in last THEN 0 ELSE t.bought[d]
    BY <1>1
  <2> HIDE DEF keys, bought, u
  <2>5. /\ u.depots = [t.depots EXCEPT ![f] = {}] /\ u.mtime = [t.mtime EXCEPT ![f] = 0]
        /\ u.texts = [t.texts EXCEPT ![f] = <<>>] /\ u.keys = keys /\ u.bought = bought
    BY <1>1, <2>1
  <2>6. u \in Tables
    <3>1. /\ [t.depots EXCEPT ![f] = {}] \in [LuaFiles -> SUBSET LuaDepots]
          /\ [t.mtime EXCEPT ![f] = 0] \in [LuaFiles -> Nat]
      BY <1>1
    <3>2. [t.texts EXCEPT ![f] = <<>>] \in [LuaFiles -> Seq(LuaLines)]
      BY <1>1
    <3> QED
      BY <1>1, <2>1, <2>3, <2>4, <3>1, <3>2 DEF Tables
  <2>7. EntriesNamed(u)
    <3> SUFFICES ASSUME NEW d \in LuaDepots
                 PROVE  keys[d] # NoEntry <=> \E g \in LuaFiles : d \in u.depots[g]
      BY <2>5 DEF EntriesNamed
    <3>1. t.keys[d] # NoEntry <=> \E g \in LuaFiles : d \in t.depots[g]
      BY DEF Sound, EntriesNamed
    <3>2. (\E g \in LuaFiles : d \in u.depots[g]) <=> \E g \in LuaFiles \ {f} : d \in t.depots[g]
      BY <1>1, <2>5
    <3> QED
      BY <2>2, <2>3, <3>1, <3>2
  <2>8. BoughtNoEarlier(u)
    <3> SUFFICES ASSUME NEW d \in LuaDepots, NEW g \in LuaFiles, d \in u.depots[g]
                 PROVE  bought[d] >= u.mtime[g]
      BY <2>5 DEF BoughtNoEarlier
    <3>1. g # f /\ d \in t.depots[g] /\ u.mtime[g] = t.mtime[g]
      BY <1>1, <2>5
    <3>2. t.bought[d] >= t.mtime[g]
      BY <3>1 DEF Sound, BoughtNoEarlier
    <3> QED
      BY <2>2, <2>4, <3>1, <3>2
  <2>9. \A d \in LuaDepots : (\E g \in LuaFiles \ {f} : d \in t.depots[g]) => u.keys[d] = t.keys[d]
    BY <2>2, <2>3, <2>5
  <2> QED
    BY <1>3, <2>5, <2>6, <2>7, <2>8, <2>9 DEF Sound, u
<1> QED
  BY <1>2, <1>3

(* The statements of a text, one after the other, on the tables a file is  *)
(* opened with.                                                            *)
Runs(opened, f, stmts, done) ==
  /\ done[0] = opened
  /\ \A i \in 0 .. Len(stmts) : done[i] \in Tables
  /\ \A i \in 1 .. Len(stmts) : done[i] = Apply1(done[i - 1], f, stmts[i])

(* What the last one leaves: the result of ParseLua.                       *)
RunOf(opened, f, stmts) ==
  LET done[i \in 0 .. Len(stmts)] == IF i = 0 THEN opened ELSE Apply1(done[i - 1], f, stmts[i])
  IN  done[Len(stmts)]

(* ParseLua runs a text so.                                                *)
LEMMA StatementsRun ==
  ASSUME NEW opened \in Tables, NEW f \in LuaFiles, NEW stmts \in Seq(Runnable)
  PROVE  \E done : Runs(opened, f, stmts, done) /\ RunOf(opened, f, stmts) = done[Len(stmts)]
<1> DEFINE size == Len(stmts)
           step == [p \in (1 .. size) \X Tables |-> Apply1(p[2], f, stmts[p[1]])]
           Is(g) == g = [i \in 0 .. Len(stmts) |-> IF i = 0 THEN opened ELSE Apply1(g[i - 1], f, stmts[i])]
           done == CHOOSE g : Is(g)
<1>1. size \in Nat /\ \A i \in 1 .. size : stmts[i] \in Runnable
  OBVIOUS
<1>2. step \in [(1 .. size) \X Tables -> Tables]
  <2>1. ASSUME NEW p \in (1 .. size) \X Tables PROVE Apply1(p[2], f, stmts[p[1]]) \in Tables
    <3>1. p[2] \in Tables /\ stmts[p[1]] \in Runnable
      BY <1>1
    <3> QED
      BY <3>1, StatementRuns
  <2> QED
    BY <2>1
<1>3. \A i \in 1 .. size, v \in Tables : step[<<i, v>>] = Apply1(v, f, stmts[i])
  OBVIOUS
<1> HIDE DEF step
<1>4. PICK run : /\ run \in [0 .. size -> Tables] /\ run[0] = opened
                 /\ \A i \in 1 .. size : run[i] = step[<<i, run[i - 1]>>]
  <2>1. PICK run : IsRun(run, Tables, opened, size, step)
    <3> HIDE DEF size
    <3> QED
      BY <1>1, <1>2, RunExists
  <2> QED
    BY <2>1 DEF IsRun
<1>5. ASSUME NEW i \in 1 .. size PROVE run[i] = Apply1(run[i - 1], f, stmts[i])
  <2>1. i - 1 \in 0 .. size
    BY <1>1
  <2>2. run[i - 1] \in Tables
    BY <1>4, <2>1
  <2> QED
    BY <1>3, <1>4, <2>2
<1>6. Is(run)
  <2>1. \A i \in 0 .. size : run[i] = IF i = 0 THEN opened ELSE Apply1(run[i - 1], f, stmts[i])
    BY <1>1, <1>4, <1>5
  <2>2. run = [i \in 0 .. size |-> run[i]]
    BY <1>4
  <2> QED
    BY <2>1, <2>2, Zenon
<1>7. Is(done)
  <2> HIDE DEF Is
  <2> QED
    BY <1>6
<1>8. RunOf(opened, f, stmts) = done[Len(stmts)]
  BY DEF RunOf
<1>9. /\ done[0] = opened
      /\ \A i \in 1 .. size : done[i] = Apply1(done[i - 1], f, stmts[i])
  <2> HIDE DEF done
  <2> QED
    BY <1>1, <1>7
<1> HIDE DEF done, Is
<1> DEFINE Typed == {i \in Nat : done[i] \in Tables}
<1>10. ASSUME NEW i \in 0 .. size - 1, i \in Typed PROVE i + 1 \in Typed
  <2>1. i + 1 \in 1 .. size /\ (i + 1) - 1 = i /\ i + 1 \in Nat
    BY <1>1
  <2>2. done[i + 1] = Apply1(done[i], f, stmts[i + 1]) /\ stmts[i + 1] \in Runnable
    BY <1>1, <1>9, <2>1
  <2>3. done[i] \in Tables
    BY <1>10
  <2> QED
    <3> HIDE DEF Typed, size
    <3>1. ASSUME NEW t \in Tables, NEW s \in Runnable PROVE Apply1(t, f, s) \in Tables
      BY StatementRuns
    <3>2. done[i + 1] \in Tables
      BY <2>2, <2>3, <3>1
    <3> QED
      BY <2>1, <3>2 DEF Typed
<1>11. 0 \in Typed
  BY <1>9
<1>12. \A i \in 0 .. size : i \in Typed
  <2> HIDE DEF Typed, size
  <2> QED
    BY <1>1, <1>10, <1>11, Upward
<1> QED
  BY <1>8, <1>9, <1>12 DEF Runs

(* What they leave behind.                                                 *)
LEMMA FileRuns ==
  ASSUME NEW opened, Sound(opened), NEW f \in LuaFiles, opened.depots[f] = {},
         NEW text \in Seq(LuaLines)
  PROVE  /\ Sound(RunOf(opened, f, Executed(text)))
         /\ RunOf(opened, f, Executed(text)).texts = opened.texts
         /\ RunOf(opened, f, Executed(text)).depots = [opened.depots EXCEPT ![f] = AddedBy(text)]
         /\ \A d \in LuaDepots : opened.keys[d] \in DepotKeys \/ d \in KeyedBy(text)
                                   => RunOf(opened, f, Executed(text)).keys[d] \in DepotKeys
<1> DEFINE stmts == Executed(text)
<1>1. stmts \in Seq(Runnable) /\ Len(stmts) \in Nat /\ \A i \in 1 .. Len(stmts) : stmts[i] \in Runnable
  <2>1. stmts \in Seq(Runnable)
    BY ExecutedTyped
  <2> HIDE DEF stmts
  <2> QED
    BY <2>1
<1>2. opened \in Tables /\ opened.depots \in [LuaFiles -> SUBSET LuaDepots]
  BY DEF Sound, Tables
<1> HIDE DEF stmts
<1>3. PICK done : Runs(opened, f, stmts, done) /\ RunOf(opened, f, stmts) = done[Len(stmts)]
  BY <1>1, <1>2, StatementsRun
<1> DEFINE Added(i) == UNION {Adds(stmts[j]) : j \in 1 .. i}
           Given(i) == UNION {Gives(stmts[j]) : j \in 1 .. i}
           As(i) == /\ Sound(done[i]) /\ done[i].texts = opened.texts
                    /\ done[i].depots = [opened.depots EXCEPT ![f] = Added(i)]
                    /\ \A d \in LuaDepots : opened.keys[d] \in DepotKeys \/ d \in Given(i)
                                              => done[i].keys[d] \in DepotKeys
           M == {i \in Nat : As(i)}
<1>4. 0 \in M
  <2>1. Added(0) = {} /\ Given(0) = {}
    OBVIOUS
  <2>2. opened.depots = [opened.depots EXCEPT ![f] = {}]
    BY <1>2
  <2>3. done[0] = opened
    BY <1>3 DEF Runs
  <2> HIDE DEF Added, Given
  <2> QED
    BY <2>1, <2>2, <2>3
<1>5. ASSUME NEW i \in 0 .. Len(stmts) - 1, i \in M PROVE i + 1 \in M
  <2>1. i + 1 \in 1 .. Len(stmts) /\ (i + 1) - 1 = i /\ i + 1 \in Nat /\ i \in Nat /\ i \in 0 .. Len(stmts)
    BY <1>1
  <2> DEFINE t == done[i] s == stmts[i + 1] u == done[i + 1]
  <2>2. u = Apply1(t, f, s) /\ t \in Tables /\ s \in Runnable
    BY <1>1, <1>3, <2>1 DEF Runs
  <2>3. As(i)
    BY <1>5
  <2>4. Added(i + 1) = Added(i) \cup Adds(s) /\ Given(i + 1) = Given(i) \cup Gives(s)
    <3>1. 1 .. i + 1 = (1 .. i) \cup {i + 1}
      BY <2>1
    <3> QED
      BY <3>1
  <2> HIDE DEF Added, Given, t, s, u
  <2>5. /\ Sound(t) => Sound(u)
        /\ u.texts = t.texts /\ u.depots = [t.depots EXCEPT ![f] = @ \cup Adds(s)]
        /\ \A d \in LuaDepots : t.keys[d] \in DepotKeys \/ d \in Gives(s) => u.keys[d] \in DepotKeys
    BY <2>2, StatementRuns
  <2>6. /\ Sound(t) /\ t.texts = opened.texts /\ t.depots = [opened.depots EXCEPT ![f] = Added(i)]
        /\ \A d \in LuaDepots : opened.keys[d] \in DepotKeys \/ d \in Given(i)
                                  => t.keys[d] \in DepotKeys
    BY <2>3 DEF t
  <2>7. u.depots = [opened.depots EXCEPT ![f] = Added(i + 1)]
    BY <1>2, <2>4, <2>5, <2>6
  <2>8. \A d \in LuaDepots : opened.keys[d] \in DepotKeys \/ d \in Given(i + 1) => u.keys[d] \in DepotKeys
    BY <2>4, <2>5, <2>6
  <2>9. As(i + 1)
    BY <2>5, <2>6, <2>7, <2>8 DEF u
  <2> QED
    BY <2>1, <2>9
<1>6. As(Len(stmts))
  <2>1. Len(stmts) \in M
    <3> HIDE DEF M
    <3>1. \A i \in 0 .. Len(stmts) : i \in M
      BY <1>1, <1>4, <1>5, Upward
    <3> QED
      BY <1>1, <3>1
  <2> QED
    BY <2>1
<1>7. Added(Len(stmts)) = AddedBy(text) /\ Given(Len(stmts)) = KeyedBy(text)
  <2>1. \A i \in 1 .. Len(stmts) : stmts[i].call = "addappid" => stmts[i].id \in LuaDepots
    BY <1>1 DEF Runnable, LuaStmts, Add, Note, Raise
  <2>2. AddedBy(text) = {d \in LuaDepots : \E i \in 1 .. Len(stmts) : stmts[i].call = "addappid" /\ stmts[i].id = d}
    BY DEF AddedBy, stmts
  <2>3. KeyedBy(text) = {d \in LuaDepots : \E i \in 1 .. Len(stmts) :
                           stmts[i].call = "addappid" /\ stmts[i].id = d /\ stmts[i].key # NoKey}
    BY DEF KeyedBy, stmts
  <2>4. \A d : d \in Added(Len(stmts)) <=> d \in AddedBy(text)
    BY <2>1, <2>2 DEF Adds
  <2>5. \A d : d \in Given(Len(stmts)) <=> d \in KeyedBy(text)
    BY <2>1, <2>3 DEF Gives
  <2> HIDE DEF Added, Given
  <2> QED
    BY <2>4, <2>5
<1> HIDE DEF Added, Given
<1> QED
  BY <1>3, <1>6, <1>7 DEF stmts

(* An empty text does nothing.                                             *)
LEMMA NothingAdded == AddedBy(<<>>) = {} /\ KeyedBy(<<>>) = {}
<1>1. Executed(<<>>) = <<>>
  <2>1. <<>> \in Seq(LuaLines) /\ Len(<<>>) = 0
    OBVIOUS
  <2>2. PICK after : Reads(<<>>, after)
    BY <2>1, TextRead
  <2> QED
    BY <2>1, <2>2 DEF Reads, NoChunk
<1> QED
  BY <1>1 DEF AddedBy, KeyedBy

(* LuaInv holds while nothing is loaded,                                   *)
LEMMA InitLuaInv == LuaInit => LuaInv
<1> SUFFICES ASSUME LuaInit PROVE LuaInv
  OBVIOUS
<1>1. AddedBy(<<>>) = {} /\ KeyedBy(<<>>) = {}
  BY NothingAdded
<1>2. lua \in Tables
  BY DEF LuaInit, Tables
<1>3. EntriesNamed(lua) /\ BoughtNoEarlier(lua)
  BY DEF LuaInit, EntriesNamed, BoughtNoEarlier
<1>4. \A f \in LuaFiles : lua.depots[f] = {} /\ lua.texts[f] = <<>>
  BY DEF LuaInit
<1> QED
  BY <1>1, <1>2, <1>3, <1>4 DEF LuaInv, Sound

(* after a file was parsed,                                                *)
LEMMA ParseLuaInv ==
  ASSUME LuaInv, NEW f \in LuaFiles, NEW text \in LuaTexts, NEW time \in 1 .. MaxMtime,
         ParseLua(f, text, time)
  PROVE  LuaInv'
<1> DEFINE unl == Unloaded(lua, f)
           opened == [unl EXCEPT !.mtime[f] = time, !.texts[f] = text, !.loads = @ + 1]
           r == RunOf(opened, f, Executed(text))
<1>1. lua' = r
  BY DEF ParseLua, RunOf
<1>2. text \in Seq(LuaLines) /\ time \in Nat
  BY LuaAssumption
<1>3. /\ Sound(unl) /\ unl.depots = [lua.depots EXCEPT ![f] = {}]
      /\ lua.depots[f] = {} => unl = lua
      /\ lua.depots[f] # {} => unl.texts = [lua.texts EXCEPT ![f] = <<>>]
      /\ \A d \in LuaDepots : (\E g \in LuaFiles \ {f} : d \in lua.depots[g]) => unl.keys[d] = lua.keys[d]
  BY UnloadRuns DEF LuaInv
<1>4. lua.depots \in [LuaFiles -> SUBSET LuaDepots] /\ lua.texts \in [LuaFiles -> Seq(LuaLines)]
  BY DEF LuaInv, Sound, Tables
<1> HIDE DEF unl
<1>5. /\ unl.mtime \in [LuaFiles -> Nat] /\ unl.texts \in [LuaFiles -> Seq(LuaLines)] /\ unl.loads \in Nat
      /\ DOMAIN unl = {"depots", "mtime", "keys", "bought", "tokens", "texts", "loads"}
      /\ unl \in Tables
  BY <1>3 DEF Sound, Tables
<1>6. /\ opened.depots = unl.depots /\ opened.keys = unl.keys /\ opened.bought = unl.bought
      /\ opened.mtime = [unl.mtime EXCEPT ![f] = time] /\ opened.texts = [unl.texts EXCEPT ![f] = text]
  BY <1>5
<1>7. opened \in Tables
  <2>1. /\ [unl.mtime EXCEPT ![f] = time] \in [LuaFiles -> Nat] /\ unl.loads + 1 \in Nat
    BY <1>2, <1>5
  <2>2. [unl.texts EXCEPT ![f] = text] \in [LuaFiles -> Seq(LuaLines)]
    BY <1>2, <1>5
  <2> QED
    BY <1>5, <2>1, <2>2 DEF Tables
<1> HIDE DEF opened
<1>8. opened.depots[f] = {} /\ Sound(opened)
  <2>1. opened.depots[f] = {}
    BY <1>3, <1>4, <1>6
  <2>2. EntriesNamed(opened)
    BY <1>3, <1>6 DEF Sound, EntriesNamed
  <2>3. BoughtNoEarlier(opened)
    <3> SUFFICES ASSUME NEW d \in LuaDepots, NEW g \in LuaFiles, d \in opened.depots[g]
                 PROVE  opened.bought[d] >= opened.mtime[g]
      BY DEF BoughtNoEarlier
    <3>1. g # f /\ opened.mtime[g] = unl.mtime[g]
      BY <1>5, <1>6, <2>1
    <3> QED
      BY <1>3, <1>6, <3>1 DEF Sound, BoughtNoEarlier
  <2> QED
    BY <1>7, <2>1, <2>2, <2>3 DEF Sound
<1>9. /\ Sound(r) /\ r.texts = opened.texts
      /\ r.depots = [opened.depots EXCEPT ![f] = AddedBy(text)]
      /\ \A d \in LuaDepots : opened.keys[d] \in DepotKeys \/ d \in KeyedBy(text) => r.keys[d] \in DepotKeys
  BY <1>2, <1>8, FileRuns
<1> HIDE DEF r
<1>10. ASSUME NEW g \in LuaFiles
       PROVE  r.depots[g] = AddedBy(r.texts[g]) /\ \A d \in KeyedBy(r.texts[g]) : r.keys[d] \in DepotKeys
  <2>1. CASE g = f
    <3>1. r.texts[g] = text /\ r.depots[g] = AddedBy(text)
      BY <1>3, <1>4, <1>5, <1>6, <1>9, <2>1
    <3> QED
      BY <1>9, <2>1, <3>1 DEF KeyedBy
  <2>2. CASE g # f
    <3>1. r.texts[g] = lua.texts[g]
      <4>1. r.texts[g] = unl.texts[g]
        BY <1>5, <1>6, <1>9, <2>2
      <4> QED
        BY <1>3, <1>4, <2>2, <4>1
    <3>2. r.depots[g] = lua.depots[g]
      BY <1>3, <1>4, <1>6, <1>9, <2>2
    <3>3. lua.depots[g] = AddedBy(lua.texts[g]) /\ \A d \in KeyedBy(lua.texts[g]) : lua.keys[d] \in DepotKeys
      BY DEF LuaInv
    <3>4. ASSUME NEW d \in KeyedBy(lua.texts[g]) PROVE r.keys[d] \in DepotKeys
      <4>1. d \in LuaDepots /\ d \in lua.depots[g]
        BY <3>3 DEF KeyedBy, AddedBy
      <4>2. opened.keys[d] = lua.keys[d]
        BY <1>3, <1>6, <2>2, <4>1
      <4> QED
        BY <1>9, <3>3, <4>1, <4>2
    <3> QED
      BY <3>1, <3>2, <3>3, <3>4
  <2> QED
    BY <2>1, <2>2
<1> QED
  BY <1>1, <1>9, <1>10 DEF LuaInv

(* after one was unloaded,                                                 *)
LEMMA UnloadLuaInv ==
  ASSUME LuaInv, NEW f \in LuaFiles, UnloadLua(f)
  PROVE  LuaInv'
<1> DEFINE unl == Unloaded(lua, f)
<1>1. lua' = unl /\ lua.depots[f] # {}
  BY DEF UnloadLua
<1>2. /\ Sound(unl) /\ unl.depots = [lua.depots EXCEPT ![f] = {}]
      /\ unl.texts = [lua.texts EXCEPT ![f] = <<>>]
      /\ \A d \in LuaDepots : (\E g \in LuaFiles \ {f} : d \in lua.depots[g]) => unl.keys[d] = lua.keys[d]
  BY <1>1, UnloadRuns DEF LuaInv
<1>3. lua.depots \in [LuaFiles -> SUBSET LuaDepots] /\ lua.texts \in [LuaFiles -> Seq(LuaLines)]
  BY DEF LuaInv, Sound, Tables
<1> HIDE DEF unl
<1>4. AddedBy(<<>>) = {} /\ KeyedBy(<<>>) = {}
  BY NothingAdded
<1>5. ASSUME NEW g \in LuaFiles
      PROVE  unl.depots[g] = AddedBy(unl.texts[g]) /\ \A d \in KeyedBy(unl.texts[g]) : unl.keys[d] \in DepotKeys
  <2>1. CASE g = f
    BY <1>2, <1>3, <1>4, <2>1
  <2>2. CASE g # f
    <3>1. unl.depots[g] = lua.depots[g] /\ unl.texts[g] = lua.texts[g]
      BY <1>2, <1>3, <2>2
    <3>2. lua.depots[g] = AddedBy(lua.texts[g]) /\ \A d \in KeyedBy(lua.texts[g]) : lua.keys[d] \in DepotKeys
      BY DEF LuaInv
    <3>3. ASSUME NEW d \in KeyedBy(lua.texts[g]) PROVE unl.keys[d] \in DepotKeys
      <4>1. d \in LuaDepots /\ d \in lua.depots[g]
        BY <3>2 DEF KeyedBy, AddedBy
      <4> QED
        BY <1>2, <2>2, <3>2, <4>1
    <3> QED
      BY <3>1, <3>2, <3>3
  <2> QED
    BY <2>1, <2>2
<1> QED
  BY <1>1, <1>2, <1>5 DEF LuaInv

(* and says what is to be shown.                                           *)
LEMMA LuaInvSays == LuaInv => TablesFollowTheFiles
<1> SUFFICES ASSUME LuaInv PROVE TablesFollowTheFiles
  OBVIOUS
<1>1. lua.texts \in [LuaFiles -> Seq(LuaLines)]
  BY DEF LuaInv, Sound, Tables
<1>2. ASSUME NEW f \in LuaFiles
      PROVE  /\ lua.depots[f] = AddedBy(lua.texts[f])
             /\ \A d \in KeyedBy(lua.texts[f]) : lua.keys[d] \in DepotKeys
             /\ Executed(lua.texts[f]) \in Seq(Runnable)
             /\ lua.texts[f] \in Seq(LuaLines)
  BY <1>1, ExecutedTyped DEF LuaInv
<1>3. KeysAreKept
  <2> SUFFICES ASSUME NEW d \in LuaDepots
               PROVE  /\ lua.keys[d] # NoEntry <=> \E f \in LuaFiles : d \in lua.depots[f]
                      /\ (\E f \in LuaFiles : d \in lua.depots[f] /\
                            \E i \in DOMAIN Executed(lua.texts[f]) :
                               Executed(lua.texts[f])[i].call = "addappid" /\ Executed(lua.texts[f])[i].id = d
                               /\ Executed(lua.texts[f])[i].key # NoKey)
                         => lua.keys[d] \in DepotKeys
    BY DEF KeysAreKept
  <2>1. lua.keys[d] # NoEntry <=> \E f \in LuaFiles : d \in lua.depots[f]
    BY DEF LuaInv, Sound, EntriesNamed
  <2>2. ASSUME NEW f \in LuaFiles, NEW i \in DOMAIN Executed(lua.texts[f]),
               Executed(lua.texts[f])[i].call = "addappid", Executed(lua.texts[f])[i].id = d,
               Executed(lua.texts[f])[i].key # NoKey
        PROVE  lua.keys[d] \in DepotKeys
    <3>1. i \in 1 .. Len(Executed(lua.texts[f]))
      BY <1>2
    <3>2. d \in KeyedBy(lua.texts[f])
      BY <2>2, <3>1 DEF KeyedBy
    <3> QED
      BY <1>2, <3>2
  <2> QED
    BY <2>1, <2>2
<1>4. BoughtWithItsFiles
  BY DEF LuaInv, Sound, BoughtNoEarlier, BoughtWithItsFiles
<1>5. StatementsTakeEffect
  <2> SUFFICES ASSUME NEW f \in LuaFiles, NEW n \in DOMAIN lua.texts[f],
                      n > 1, lua.texts[f][n].kind = "close", lua.texts[f][n - 1].kind = "open",
                      lua.texts[f][n].stmt.call = "addappid",
                      \A j \in 1 .. n - 2 : lua.texts[f][j].kind = "whole"
               PROVE  lua.texts[f][n].stmt.id \in lua.depots[f]
    BY DEF StatementsTakeEffect
  <2> DEFINE text == lua.texts[f]
  <2>1. text \in Seq(LuaLines) /\ lua.depots[f] = AddedBy(text)
    BY <1>2
  <2>2. n \in 1 .. Len(text)
    BY <2>1
  <2>3. /\ n > 1 /\ text[n].kind = "close" /\ text[n - 1].kind = "open"
        /\ text[n].stmt.call = "addappid" /\ \A j \in 1 .. n - 2 : text[j].kind = "whole"
    OBVIOUS
  <2> HIDE DEF text
  <2>4. text[n].stmt.id \in AddedBy(text)
    BY <2>1, <2>2, <2>3, TwoLinesRun
  <2> QED
    BY <2>1, <2>4 DEF text
<1> QED
  BY <1>3, <1>4, <1>5 DEF TablesFollowTheFiles

(* For any files, texts and times: the tables are those of the files that  *)
(* are loaded, in whatever order they were parsed, parsed again or taken   *)
(* away (ParseFile, lua_addappid and UnloadFile of LuaConfig.cpp).         *)
THEOREM TablesAreOfFiles == LuaInit /\ [][LuaNext]_lua => []TablesFollowTheFiles
<1>1. LuaInv /\ [LuaNext]_lua => LuaInv'
  <2> SUFFICES ASSUME LuaInv, [LuaNext]_lua PROVE LuaInv'
    OBVIOUS
  <2>1. CASE UNCHANGED lua
    BY <2>1 DEF LuaInv
  <2>2. ASSUME NEW f \in LuaFiles, UnloadLua(f) PROVE LuaInv'
    BY <2>2, UnloadLuaInv
  <2>3. ASSUME NEW f \in LuaFiles, NEW text \in LuaTexts, NEW time \in 1 .. MaxMtime,
               ParseLua(f, text, time)
        PROVE  LuaInv'
    BY <2>3, ParseLuaInv
  <2> QED
    BY <2>1, <2>2, <2>3 DEF LuaNext
<1> QED
  BY InitLuaInv, <1>1, LuaInvSays, PTL
=============================================================================
