----------------------------- MODULE ClientCalls ----------------------------
(***************************************************************************)
(* The API's handlers that make Steam's own pages do something, by an      *)
(* expression evaluated in one of them, and those that ask the Hubcap      *)
(* service about the key the user has just pasted.                         *)
(*                                                                         *)
(* A call may find no page, run there and answer, run and lose its answer, *)
(* or be refused by the page.  One handler runs at a time.                 *)
(***************************************************************************)
EXTENDS Naturals, FiniteSets

CONSTANTS
  Items,       \* workshop items
  Libs,        \* Steam's libraries, in the order they are looked at
  HubKeys,     \* well-formed Hubcap keys
  GoodKeys,    \* those the service accepts
  NoHubKey

ASSUME CallsAssumption == GoodKeys \subseteq HubKeys /\ NoHubKey \notin HubKeys

VARIABLES
  wanted,      \* items the client was told to download
  onDisk,      \* for each library the items whose directory is there
  reported,    \* items the client says it has
  looking,     \* the item of a status call between its two halves
  status,      \* the last status answered
  menu,        \* the popup is drawn
  believed,    \* the client's window thinks it is
  hubFile, hubConf,  \* the key in the file, and in the loaded configuration
  verdict      \* the last answer about a key: which, and what is said of it

calls == <<wanted, onDisk, reported, looking, status, menu, believed, hubFile, hubConf, verdict>>
workshop == <<wanted, onDisk, reported, looking, status>>
popup    == <<menu, believed>>
hubcap   == <<hubFile, hubConf, verdict>>

NoItem   == "no item"
NoStatus == [item |-> NoItem, path |-> FALSE, asked |-> FALSE]
Outcomes == {"unreachable", "answered", "lost", "refused"}
Ran(o)   == o \in {"answered", "lost"}

CallsInit ==
  /\ wanted = {} /\ onDisk = [l \in Libs |-> {}] /\ reported = {}
  /\ looking = NoItem /\ status = NoStatus
  /\ menu = FALSE /\ believed = FALSE
  /\ hubFile = NoHubKey /\ hubConf = NoHubKey /\ verdict = <<NoHubKey, "none">>

(* JsonWorkshopDownload: an answer that is lost counts as accepted.        *)
JsonWorkshopDownload(i) ==
  /\ looking = NoItem
  /\ \E o \in Outcomes : wanted' = IF Ran(o) THEN wanted \cup {i} ELSE wanted
  /\ UNCHANGED <<onDisk, reported, looking, status, popup, hubcap>>

(* The client puts the item beside its app, says so when it is whole, and  *)
(* may drop it again.                                                      *)
ClientFetches(i, l) ==
  /\ i \in wanted /\ \A k \in Libs : i \notin onDisk[k]
  /\ onDisk' = [onDisk EXCEPT ![l] = @ \cup {i}]
  /\ UNCHANGED <<wanted, reported, looking, status, popup, hubcap>>

ClientReports(i) ==
  /\ i \in wanted /\ \E l \in Libs : i \in onDisk[l]
  /\ reported' = reported \cup {i}
  /\ UNCHANGED <<wanted, onDisk, looking, status, popup, hubcap>>

ClientDrops(i) ==
  /\ i \in reported
  /\ wanted' = wanted \ {i} /\ reported' = reported \ {i}
  /\ onDisk' = [l \in Libs |-> onDisk[l] \ {i}]
  /\ UNCHANGED <<looking, status, popup, hubcap>>

(* Mutant: the directories are looked at without asking the client.        *)
AskStatusOfDisk(i) ==
  /\ looking = NoItem
  /\ IF \E l \in Libs : i \in onDisk[l]
       THEN looking' = i /\ UNCHANGED status
       ELSE UNCHANGED looking /\ status' = [item |-> i, path |-> FALSE, asked |-> FALSE]
  /\ UNCHANGED <<wanted, onDisk, reported, popup, hubcap>>

(* JsonWorkshopStatus asks the client for what it has ...                  *)
AskStatus(i) ==
  /\ looking = NoItem
  /\ \E o \in Outcomes :
       IF o = "answered" /\ i \in reported
         THEN looking' = i /\ UNCHANGED status
         ELSE UNCHANGED looking /\ status' = [item |-> i, path |-> FALSE, asked |-> FALSE]
  /\ UNCHANGED <<wanted, onDisk, reported, popup, hubcap>>

(* ... and then for the directory in each library.                         *)
LookUp ==
  /\ looking # NoItem
  /\ status' = [item |-> looking, path |-> \E l \in Libs : looking \in onDisk[l], asked |-> TRUE]
  /\ looking' = NoItem
  /\ UNCHANGED <<wanted, onDisk, reported, popup, hubcap>>

(* Mutant: a call that was delivered means a menu that was drawn.          *)
JsonNavMenuShowDelivered ==
  /\ looking = NoItem
  /\ \E o \in Outcomes :
       /\ menu' = (menu \/ Ran(o))
       /\ believed' = (o \in {"answered", "refused"})
  /\ UNCHANGED <<workshop, hubcap>>

(* JsonNavMenuShow: up if the popup's script answers with its rectangle.   *)
JsonNavMenuShow ==
  /\ looking = NoItem
  /\ \E o \in Outcomes :
       /\ menu' = (menu \/ Ran(o))
       /\ believed' = (o = "answered")
  /\ UNCHANGED <<workshop, hubcap>>

(* JsonNavMenuHide by the client's window; the popup closes on a click     *)
(* (JsonNavMenuPick) or when the pointer leaves it (JsonNavMenuClose), and *)
(* tells the window, which may not hear it.                                *)
JsonNavMenuHide ==
  /\ believed /\ looking = NoItem
  /\ believed' = FALSE
  /\ menu' \in {FALSE, menu}
  /\ UNCHANGED <<workshop, hubcap>>

JsonNavMenuPick ==
  /\ menu /\ looking = NoItem
  /\ \E o \in Outcomes : believed' = IF Ran(o) THEN FALSE ELSE believed
  /\ menu' = menu
  /\ UNCHANGED <<workshop, hubcap>>

(* What the service may say of a key; no key is not asked about.           *)
HubcapStatsFor(k) ==
  IF k = NoHubKey THEN {"none"}
  ELSE {"unreachable", IF k \in GoodKeys THEN "valid" ELSE "rejected"}

(* Mutant: the verdict is of the key that is loaded.                       *)
JsonHubcapSaveReread(k) ==
  /\ looking = NoItem
  /\ hubFile' = k
  /\ \E v \in HubcapStatsFor(hubConf) : verdict' = <<k, v>>
  /\ UNCHANGED <<workshop, popup, hubConf>>

(* JsonHubcapSave, of a well-formed key or of none: written to the file,   *)
(* and judged as it was handed over.                                       *)
JsonHubcapSave(k) ==
  /\ looking = NoItem
  /\ hubFile' = k
  /\ \E v \in HubcapStatsFor(k) : verdict' = <<k, v>>
  /\ UNCHANGED <<workshop, popup, hubConf>>

JsonHubcapStats ==
  /\ looking = NoItem
  /\ \E v \in HubcapStatsFor(hubConf) : verdict' = <<hubConf, v>>
  /\ UNCHANGED <<workshop, popup, hubFile, hubConf>>

(* The watcher loads the file in its own time.                             *)
LoadHubcapKey ==
  /\ hubConf' = hubFile
  /\ UNCHANGED <<workshop, popup, hubFile, verdict>>

CallsNext ==
  \/ \E i \in Items : \/ JsonWorkshopDownload(i) \/ ClientReports(i) \/ ClientDrops(i) \/ AskStatus(i)
                      \/ \E l \in Libs : ClientFetches(i, l)
  \/ LookUp \/ JsonNavMenuShow \/ JsonNavMenuHide \/ JsonNavMenuPick
  \/ \E k \in HubKeys \cup {NoHubKey} : JsonHubcapSave(k)
  \/ JsonHubcapStats \/ LoadHubcapKey

-----------------------------------------------------------------------------
(* The client's window takes the popup for drawn only when it is: "what    *)
(* made the client window think a menu was up when nothing had been drawn" *)
(* (EvalInTarget, LuaFlipperUI.cpp:1238).                                  *)
BelievedIsDrawn == believed => menu

(* A key the service accepts is never answered as rejected because the     *)
(* configuration had not caught up, nor a bad one as valid: "no window in  *)
(* which a good key reads as bad" (JsonHubcapSave, LuaFlipperUI.cpp:1168). *)
VerdictIsOfTheKey ==
  /\ verdict[2] = "valid" => verdict[1] \in GoodKeys
  /\ verdict[2] = "rejected" => verdict[1] \notin GoodKeys

(* An item is reported as downloaded only after the client has said it is  *)
(* whole, not while its directory is being filled.                         *)
StatusWaitsForClient ==
  [][looking' # NoItem => looking' \in reported \cup {looking}]_calls

(* What the pages are told about the client is so when they are told.      *)
CallsTellTheTruth == [](BelievedIsDrawn /\ VerdictIsOfTheKey) /\ StatusWaitsForClient
=============================================================================
