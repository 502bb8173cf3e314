------------------------------ MODULE FixCases ------------------------------
(***************************************************************************)
(* What is claimed of the functions of FixArchive, each case of whose      *)
(* arguments is an initial state.                                          *)
(***************************************************************************)
EXTENDS FixArchive

VARIABLE given   \* the case: what it is about and its arguments

Plain   == <<Data>>
Nested  == Pack(<<Plain>>, 0)
Bodies  == {Plain, <<Data, Data>>, Nested, Pack(<<>>, 0), Pack(<<Plain>>, 1)}
Archives ==
  {Pack(f, c) : f \in {<<b>> : b \in Bodies} \cup {<<b, d>> : b, d \in Bodies},
                c \in 0..2}

SourceNames == <<"Ryuu", "Sushi", "Luie", "Hubcap">>
Orders == SeqOf({"Sushi", "Luie", "typo"}, 3)

Block(id, kind) ==
  CASE kind = "key"    -> <<[t |-> "id", id |-> id], [t |-> "brace"], [t |-> "key"]>>
    [] kind = "keyless" -> <<[t |-> "id", id |-> id], [t |-> "brace"]>>
    [] kind = "bare"    -> <<[t |-> "id", id |-> id]>>

NoCase == [of |-> "nothing"]

CasesInit ==
  \/ \E z \in Archives : given = [of |-> "archive", z |-> z]
  \/ \E c \in Orders : given = [of |-> "order", configured |-> c]
  \/ \E kinds \in [1..3 -> {"key", "keyless", "bare"}] : given = [of |-> "vdf", kinds |-> kinds]

-----------------------------------------------------------------------------
(* A download cut anywhere installs nothing, whatever archives are stored  *)
(* inside it, and a whole one yields every entry with its data in place.   *)
(* The cap on a download relies on it (LuaFlipperDownload.cpp:163).        *)
CutInstallsNothing ==
  given.of = "archive" =>
    LET z  == given.z
        es == ReadCentralDirectory(z)
    IN /\ \A n \in 0..Len(z) - 1 : ReadCentralDirectory(SubSeq(z, 1, n)) = <<>>
       /\ es # <<>> /\ \A i \in DOMAIN es : EntryData(z, es[i]) # 0

(* The configured order puts its sources first, in its order, and neither  *)
(* a typo, a repetition nor an omission loses or repeats a source          *)
(* (EffectiveOrder's comment at LuaFlipperDownload.cpp:471).               *)
OrderKeepsEverySource ==
  given.of = "order" =>
    LET c == given.configured
        o == EffectiveOrder(c, SourceNames)
        place(s) == CHOOSE i \in DOMAIN o : o[i] = s
    IN /\ Len(o) = Len(SourceNames) /\ ToSet(o) = ToSet(SourceNames)
       /\ \A s \in ToSet(c) \ {"typo"}, r \in ToSet(SourceNames) \ ToSet(c) :
            place(s) < place(r)
       /\ \A i, k \in DOMAIN c :
            i < k /\ {c[i], c[k]} \cap {"typo"} = {} /\ c[k] # c[i]
              /\ (\A m \in 1..k - 1 : c[m] # c[k]) => place(c[i]) < place(c[k])

(* Every source the probe lists, whatever the configured order, is one     *)
(* Install knows, and it says a sign-in or a key is missing exactly when   *)
(* Install would refuse for that: "the probe and the download can never    *)
(* advertise different sets" (LuaFlipperDownload.cpp:77).                  *)
ProbeAgreesWithInstall ==
  given.of = "order" =>
    \A name \in ToSet(EffectiveOrder(given.configured, SourceNames)),
       token \in BOOLEAN, key \in {"none", "typo", "shaped"},
       probe \in {"available", "unavailable", "unlisted", "unknown"},
       hub \in {"available", "unavailable", "unknown", "bad key"} :
      LET status == ProbeStatus(name, probe, token, key, hub)
          gate   == InstallGate(name, token, key, hub)
          gates  == {"needs sign-in", "needs key", "bad key"}
      IN gate # "unknown source" /\ (status \in gates \/ gate \in gates => status = gate)

(* A depot counts as having a key exactly when its own block holds one:    *)
(* "counting one of those as already has a key would hide a real gap"      *)
(* (ConfigDepotKeys, LuaFlipperDownload.cpp:764).                          *)
KeysFoundAreTheOwners ==
  given.of = "vdf" =>
    ConfigDepotKeys(FlattenSeq([i \in 1..3 |-> Block(i, given.kinds[i])]))
      = {i \in 1..3 : given.kinds[i] = "key"}

(* The four together: what is downloaded, from where, and for which depot. *)
ArchivesHold ==
  CutInstallsNothing /\ OrderKeepsEverySource /\ ProbeAgreesWithInstall /\ KeysFoundAreTheOwners
=============================================================================
