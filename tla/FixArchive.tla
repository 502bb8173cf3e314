----------------------------- MODULE FixArchive -----------------------------
(***************************************************************************)
(* The archives LuaFlipperDownload unpacks and the documents it reads, as  *)
(* functions of their contents.                                            *)
(*                                                                         *)
(* An archive is a sequence of cells, each a header, a directory entry, an *)
(* end record or a piece of data; offsets count cells.  A file stored      *)
(* uncompressed shows its own cells, those of an archive included.         *)
(***************************************************************************)
EXTENDS Integers, Sequences, SequencesExt, FiniteSets

Data  == [t |-> "data"]
Local(n) == [t |-> "local", size |-> n]
Listed(off, n) == [t |-> "cd", local |-> off, size |-> n]
End(count, off, comment) ==
  [t |-> "eocd", count |-> count, off |-> off, comment |-> comment]

(* The archive of the given files, each a sequence of cells.               *)
Pack(files, comment) ==
  LET start[i \in 1..Len(files) + 1] ==
        IF i = 1 THEN 0 ELSE start[i - 1] + 1 + Len(files[i - 1])
      locals == [i \in 1..Len(files) |-> <<Local(Len(files[i]))>> \o files[i]]
      dir    == [i \in 1..Len(files) |-> Listed(start[i], Len(files[i]))]
  IN FlattenSeq(locals) \o dir
       \o <<End(Len(files), start[Len(files) + 1], comment)>>
       \o [i \in 1..comment |-> Data]

EndRecords(z) == {i \in DOMAIN z : z[i].t = "eocd"}

(* Mutant: the first end record from the back, whatever follows it.        *)
FindEocdAnywhere(z) ==
  LET at == EndRecords(z)
  IN IF at = {} THEN 0 ELSE CHOOSE i \in at : \A k \in at : k <= i

(* The last end record whose comment is exactly what follows it; 0 if none.*)
FindEocd(z) ==
  LET at == {i \in EndRecords(z) : i + z[i].comment = Len(z)}
  IN IF at = {} THEN 0 ELSE CHOOSE i \in at : \A k \in at : k <= i

(* The entries of the central directory, or none if any part of it is not  *)
(* where the end record says.                                              *)
ReadCentralDirectory(z) ==
  LET e == FindEocd(z)
      within(r) == r.off + r.count <= Len(z)
      listed(r) == \A i \in 1..r.count : z[r.off + i].t = "cd"
  IN IF e # 0 /\ within(z[e]) /\ listed(z[e])
       THEN SubSeq(z, z[e].off + 1, z[e].off + z[e].count)
       ELSE <<>>

(* Where an entry's data starts, 0 if its header or its data is not there. *)
EntryData(z, e) ==
  LET at == e.local + 1
  IN IF at <= Len(z) /\ z[at].t = "local" /\ at + e.size <= Len(z)
       THEN at ELSE 0

(* Sources.  EffectiveOrder is what every installer walks top down.        *)
Known(builtIn, name) == name \in ToSet(builtIn)

(* Mutant: a configured list replaces the built-in order.                  *)
OrderOnlyConfigured(configured, builtIn) ==
  IF configured = <<>> THEN builtIn
  ELSE SelectSeq(configured, LAMBDA s : Known(builtIn, s))

EffectiveOrder(configured, builtIn) ==
  LET names == configured \o builtIn
      order[i \in 0..Len(names)] ==
        IF i = 0 THEN <<>>
        ELSE LET before == order[i - 1]
             IN IF Known(builtIn, names[i]) /\ names[i] \notin ToSet(before)
                  THEN Append(before, names[i]) ELSE before
  IN order[Len(names)]

(* How a source is reached; a name this build does not know is none.       *)
SourceKind(name) ==
  CASE name \in {"Ryuu", "Sushi"} -> "plain"
    [] name = "Luie"              -> "proxy"
    [] name = "Hubcap"            -> "hubcap"
    [] OTHER                      -> "unknown"

(* Mutant: what the probe says of a proxied source is passed on as it is.  *)
ProbeStatusUngated(name, probe, token, key, hub) ==
  IF SourceKind(name) = "hubcap"
    THEN CASE key = "none" -> "needs key" [] key = "typo" -> "bad key" [] OTHER -> hub
    ELSE probe

(* What ProbeSources says of a source.  "probe" is what the shared probe   *)
(* answers for it, "unknown" if it is dead; "hub" is Hubcap's own answer   *)
(* to a key of the right shape, "bad key" if it is a 401.                  *)
ProbeStatus(name, probe, token, key, hub) ==
  CASE SourceKind(name) = "proxy" /\ ~token -> "needs sign-in"
    [] SourceKind(name) = "proxy" /\ token  -> IF probe = "unlisted" THEN "unknown" ELSE probe
    [] SourceKind(name) = "plain"           -> IF probe = "unlisted" THEN "unavailable" ELSE probe
    [] SourceKind(name) = "hubcap" ->
         CASE key = "none" -> "needs key" [] key = "typo" -> "bad key" [] OTHER -> hub

(* Whether Install fetches from a source, or says that a sign-in or a key  *)
(* is missing; Hubcap refuses a key on both its addresses or on neither.   *)
InstallGate(name, token, key, hub) ==
  CASE SourceKind(name) = "unknown"                  -> "unknown source"
    [] SourceKind(name) = "proxy" /\ ~token          -> "needs sign-in"
    [] SourceKind(name) = "hubcap" /\ key = "none"   -> "needs key"
    [] SourceKind(name) = "hubcap" /\ key = "typo"   -> "bad key"
    [] SourceKind(name) = "hubcap" /\ key = "shaped" /\ hub = "bad key" -> "bad key"
    [] OTHER                                         -> "fetch"

(* config.vdf as the tokens ConfigDepotKeys looks for: quoted ids, opening *)
(* braces and keys.  A key belongs to the id before the brace before it.   *)
Before(doc, at, tok) ==
  LET is == {i \in 1..at - 1 : doc[i].t = tok}
  IN IF is = {} THEN 0 ELSE CHOOSE i \in is : \A k \in is : k <= i

(* Mutant: the key is looked for forward from each id.                     *)
DepotKeysForward(doc) ==
  {doc[i].id : i \in {i \in DOMAIN doc :
     doc[i].t = "id" /\ \E k \in DOMAIN doc : k > i /\ doc[k].t = "key"}}

ConfigDepotKeys(doc) ==
  LET keys == {i \in DOMAIN doc : doc[i].t = "key"}
      owner(i) == Before(doc, Before(doc, i, "brace"), "id")
  IN {doc[owner(i)].id : i \in {k \in keys : owner(k) # 0}}

(* Libraries lists the Steam root, then each other path once.  GameDir is  *)
(* the first of them with a manifest, a directory named by it, and that    *)
(* directory; an interrupted move leaves a manifest without one.           *)
Libraries(root, paths) ==
  FoldLeft(LAMBDA roots, p : IF p \in ToSet(roots) THEN roots ELSE Append(roots, p),
           <<root>>, paths)

GameDir(libs, acf, dirs) ==
  LET hits == SelectSeq(libs, LAMBDA l : l \in acf /\ l \in dirs)
  IN IF hits = <<>> THEN <<>> ELSE <<Head(hits)>>

=============================================================================
