---------------------------- MODULE SaveCatalog ----------------------------
(***************************************************************************)
(* What a cloud-save backend promises the Steam client, for one account    *)
(* and one app: a durable catalogue of save files under a change number.   *)
(*                                                                         *)
(* Nothing here crashes, buffers or writes a file.  A published record     *)
(* stays until it is replaced or retracted, and the change number a client *)
(* was told only ever grows.  CloudStore is shown to implement this.       *)
(***************************************************************************)
EXTENDS Naturals

CONSTANTS Names,    \* the clean relative names a save can be stored under
          Records,  \* what the catalogue may say about a name
          Absent    \* says that a name is not in the catalogue

VARIABLES catalog,  \* what the store holds, by name
          version   \* the change number of that inventory

vars == <<catalog, version>>

Init ==
  /\ catalog = [n \in Names |-> Absent]
  /\ version = 0

(* A committed upload.  Outside a batch it is a change of its own; inside  *)
(* one it lands under the number the batch has claimed.                    *)
Publish(n, r) ==
  /\ catalog' = [catalog EXCEPT ![n] = r]
  /\ version' \in {version, version + 1}

Retract(n) ==
  /\ catalog[n] # Absent
  /\ catalog' = [catalog EXCEPT ![n] = Absent]
  /\ version' \in {version, version + 1}

(* A batch claims its number before any of its files arrives; a store the  *)
(* client is ahead of takes the client's number.                           *)
Renumber ==
  /\ version' > version
  /\ UNCHANGED catalog

Next ==
  \/ \E n \in Names, r \in Records : Publish(n, r)
  \/ \E n \in Names : Retract(n)
  \/ Renumber

Spec == Init /\ [][Next]_vars
============================================================================
