----------------------------- MODULE MCRegistry -----------------------------
(* Two behaviours on the same tables, `part` says which: LuaRegistry alone *)
(* with three files that may name and pin the same two depots, and         *)
(* LiveLicense with two of those files and no pins under conditions its    *)
(* other run rules out.                                                    *)
EXTENDS LiveLicense

CONSTANTS i1, i2, g1, g2, LiveFiles

VARIABLE part

Script(ids, pins) == [ids |-> ids, pins |-> [i \in Ids |-> IF i \in DOMAIN pins
                                                           THEN pins[i] ELSE NoPin]]

(* One depot, both, one of them pinned either way, a pin alone, nothing.   *)
Plain == {Script({i1}, <<>>), Script({i1, i2}, <<>>)}
MCScripts ==
  Plain \cup
  {Script({i1}, [i \in {i1} |-> g1]), Script({i2}, [i \in {i1} |-> g2]), Script({}, <<>>)}

Offered(d) ==
  \A f \in Files : d[f] \in IF f \in LiveFiles THEN Plain \cup {Gone} ELSE {Gone}

MCInit ==
  \/ part = "live" /\ LiveInit /\ Offered(disk)
  \/ part = "registry" /\ LiveInit /\ disk = [f \in Files |-> Gone]

MCNext ==
  /\ UNCHANGED part
  /\ \/ part = "live" /\ LiveNext /\ Offered(disk')
     \/ part = "registry" /\ RegistryNext
        /\ UNCHANGED <<watcher, files, steam, package, ui>>

MCSpec == MCInit /\ [][MCNext]_<<liveVars, part>>
=============================================================================
