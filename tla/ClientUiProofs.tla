--------------------------- MODULE ClientUiProofs ---------------------------
(***************************************************************************)
(* The client interface, for any apps, versions, sign-ins, items, keys and *)
(* lengths of the console log: the directory of manifests is what the      *)
(* answers said; a session is opened once and kept; the pages are told     *)
(* what is so; a key handed over by a website is adopted once; a setting   *)
(* its one writer wrote stays written; the browser's frames are read whole *)
(* and in order, whatever their lengths; an edit of the configuration file *)
(* changes what it is about; and text crosses to the pages and back.       *)
(*                                                                         *)
(* Each component has its own state and its own inductive invariant,       *)
(* stated before the lemmas that keep it.  The invariants of the last two  *)
(* are that the file holds lines and the text characters; the rest is what *)
(* the functions do with files and texts of any length.                    *)
(***************************************************************************)
EXTENDS ManifestShelf, FixSession, ClientCalls, UrlTail, SettingsFile, Cdp, TomlEdit,
        ClientText, Induction, SequenceTheorems, FunctionTheorems, FiniteSetTheorems, TLAPS

-----------------------------------------------------------------------------

(* The shelf.  While a removal is under way its app still has the manifest *)
(* to be removed, so that losing the earlier .removed breaks no promise.   *)
ShelfInv ==
  /\ ShelfMatchesAnswers
  /\ kept \in Files
  /\ \E apps \in SUBSET Apps : removing = apps /\ \A a \in apps : live[a] # Nowhere

LEMMA InitShelfInv == ShelfInit => ShelfInv
<1> SUFFICES ASSUME ShelfInit PROVE ShelfInv
  OBVIOUS
<1>1. live \in Files
  BY DEF ShelfInit, Files
<1> QED
  BY <1>1 DEF ShelfInit, ShelfInv, ShelfMatchesAnswers, NoApp

LEMMA StepShelfInv ==
  ASSUME ShelfInv, [ShelfNext]_shelf
  PROVE  ShelfInv'
<1> USE DEF ShelfInv, ShelfMatchesAnswers, Files, NoApp
<1>1. ASSUME NEW a \in Apps, Update(a) PROVE ShelfInv'
  <2>1. PICK outcomes \in {<<v>> : v \in Versions} \cup {<<>>} :
          LET v == IF outcomes = <<>> THEN live[a] ELSE outcomes[1]
          IN live' = [live EXCEPT ![a] = v] /\ inService' = [inService EXCEPT ![a] = v]
    BY <1>1 DEF Update
  <2> DEFINE v == IF outcomes = <<>> THEN live[a] ELSE outcomes[1]
  <2>2. v = live[a] \/ v \in Versions
    BY <2>1
  <2>3. live' = [live EXCEPT ![a] = v] /\ inService' = live'
    BY <2>1
  <2> HIDE DEF v
  <2>4. live' \in Files /\ \A b \in Apps : live'[b] = Nowhere => live[b] = Nowhere
    BY <2>2, <2>3, ShelfAssumption
  <2> QED
    BY <1>1, <2>3, <2>4 DEF Update
<1>2. ASSUME NEW a \in Apps, RemoveBegins(a) PROVE ShelfInv'
  BY <1>2 DEF RemoveBegins
<1>3. ASSUME NEW a \in Apps, RemoveRenames(a) PROVE ShelfInv'
  BY <1>3 DEF RemoveRenames
<1>4. ASSUME NEW a \in Apps, Restore(a) PROVE ShelfInv'
  BY <1>4 DEF Restore
<1>5. CASE RemoveFails
  BY <1>5 DEF RemoveFails
<1>6. CASE SteamStarts
  BY <1>6 DEF SteamStarts
<1>7. CASE UNCHANGED shelf
  BY <1>7 DEF shelf
<1> QED
  BY <1>1, <1>2, <1>3, <1>4, <1>5, <1>6, <1>7 DEF ShelfNext

(* For any apps and versions, and wherever Steam dies within a removal:    *)
(* what is in service and what can be put back is what was answered.       *)
THEOREM AnswersStandOnTheShelf == ShelfSpec => []ShelfMatchesAnswers
<1>1. ShelfInv => ShelfMatchesAnswers
  BY DEF ShelfInv
<1> QED
  BY InitShelfInv, StepShelfInv, <1>1, PTL DEF ShelfSpec

-----------------------------------------------------------------------------

(* The session.  A verifier that has not been used yet is that of the last *)
(* link, and every one presented was a link's; and the token that is saved *)
(* stays the service's through a refresh that brings no other.             *)
SessionInv ==
  /\ lost \in BOOLEAN /\ links \in Nat /\ verifier \in 0 .. links
  /\ presented \in Seq(Nat)
  /\ \A i \in DOMAIN presented : presented[i] \in 1 .. links /\ presented[i] # verifier
  /\ ~NewSession /\ ~lost => saved \in {NoToken, issued}
  /\ LinksAreOneShot

LEMMA InitSessionInv == SessionInit => SessionInv
<1> SUFFICES ASSUME SessionInit PROVE SessionInv
  OBVIOUS
<1>1. lost \in BOOLEAN
  BY DEF SessionInit
<1>2. presented \in Seq(Nat) /\ DOMAIN presented = {}
  BY EmptySeq DEF SessionInit
<1> QED
  BY <1>1, <1>2 DEF SessionInit, SessionInv, SavedTokenIsCurrent, LinksAreOneShot, NoLink, NoToken

(* Using up a verifier.                                                    *)
LEMMA VerifierIsUsedUp ==
  ASSUME SessionInv, verifier # NoLink, presented' = Append(presented, verifier),
         verifier' = NoLink, links' = links
  PROVE  /\ presented' \in Seq(Nat)
         /\ \A i \in DOMAIN presented' : presented'[i] \in 1 .. links' /\ presented'[i] # verifier'
         /\ LinksAreOneShot'
<1>1. /\ presented' \in Seq(Nat) /\ Len(presented') = Len(presented) + 1
      /\ DOMAIN presented' = 1 .. Len(presented) + 1
      /\ \A i \in 1 .. Len(presented) : presented'[i] = presented[i]
      /\ presented'[Len(presented) + 1] = verifier
  BY AppendProperties, LenProperties DEF SessionInv
<1>2. DOMAIN presented = 1 .. Len(presented) /\ Len(presented) \in Nat
  BY LenProperties DEF SessionInv
<1>3. \A i \in DOMAIN presented' : presented'[i] \in 1 .. links' /\ presented'[i] # verifier'
  <2> SUFFICES ASSUME NEW i \in DOMAIN presented'
               PROVE  presented'[i] \in 1 .. links' /\ presented'[i] # verifier'
    OBVIOUS
  <2>1. CASE i \in DOMAIN presented
    BY <2>1, <1>1, <1>2 DEF SessionInv, NoLink
  <2>2. CASE i = Len(presented) + 1
    BY <2>2, <1>1 DEF SessionInv, NoLink
  <2> QED
    BY <1>1, <1>2, <2>1, <2>2
<1>4. LinksAreOneShot'
  <2> SUFFICES ASSUME NEW i \in DOMAIN presented', NEW j \in DOMAIN presented',
                      presented'[i] = presented'[j]
               PROVE  i = j
    BY DEF LinksAreOneShot
  <2>1. CASE i \in DOMAIN presented /\ j \in DOMAIN presented
    BY <2>1, <1>1, <1>2 DEF SessionInv, LinksAreOneShot
  <2>2. CASE i \notin DOMAIN presented \/ j \notin DOMAIN presented
    BY <2>2, <1>1, <1>2 DEF SessionInv
  <2> QED
    BY <2>1, <2>2
<1> QED
  BY <1>1, <1>3, <1>4

LEMMA StepSessionInv ==
  ASSUME SessionInv, [SessionNext]_session
  PROVE  SessionInv'
<1> USE DEF SessionInv, LinksAreOneShot, Free, NewSession, Nothing
<1>1. CASE Reload
  BY <1>1 DEF Reload
<1>2. CASE Expire
  BY <1>2 DEF Expire
<1>3. CASE RefreshAccess
  BY <1>3 DEF RefreshAccess, Nothing
<1>4. CASE SignIn
  BY <1>4 DEF SignIn
<1>5. CASE Login
  BY <1>5 DEF Login, Nothing
<1>6. ASSUME NEW l \in 1 .. links, Callback(l) PROVE SessionInv'
  <2>1. (~NewSession /\ ~lost => saved \in {NoToken, issued})'
    BY <1>6 DEF Callback
  <2>2. links' = links /\ verifier' = 0
    BY <1>6 DEF Callback, NoLink
  <2> QED
    BY <1>6, <2>1, <2>2, VerifierIsUsedUp DEF Callback
<1>7. CASE KeepSession
  BY <1>7 DEF KeepSession
<1>8. CASE SaveFails
  BY <1>8 DEF SaveFails
<1>9. CASE Logout
  BY <1>9 DEF Logout, NoToken
<1>10. CASE RestartSteam
  <2>1. lost' = (lost \/ NewSession) /\ lost' \in BOOLEAN
    BY <1>10 DEF RestartSteam
  <2>2. (~NewSession /\ ~lost => saved \in {NoToken, issued})'
    BY <1>10, <2>1 DEF RestartSteam
  <2> QED
    BY <1>10, <2>1, <2>2 DEF RestartSteam, NoLink
<1>12. CASE ReplyLost
  BY <1>12 DEF ReplyLost
<1>11. CASE UNCHANGED session
  BY <1>11 DEF session
<1> QED
  BY <1>1, <1>2, <1>3, <1>4, <1>5, <1>6, <1>7, <1>8, <1>9, <1>10, <1>11, <1>12 DEF SessionNext

(* However many tokens and links there are, however late the configuration *)
(* is loaded, whichever replies are lost and wherever Steam dies: a token  *)
(* that came out of its exchange is the one saved, and each link is opened *)
(* once at most.                                                           *)
THEOREM SessionsAreKept == SessionSpec => []SessionIsKept
<1>1. SessionInv => SessionIsKept
  BY DEF SessionInv, SessionIsKept, SavedTokenIsCurrent, Free, NewSession, Nothing
<1> QED
  BY InitSessionInv, StepSessionInv, <1>1, PTL DEF SessionSpec

-----------------------------------------------------------------------------

(* What the pages are told.  A verdict about no key is none.               *)
CallsInv ==
  /\ believed \in BOOLEAN /\ menu \in BOOLEAN
  /\ BelievedIsDrawn /\ VerdictIsOfTheKey

(* An answer about a key is about that key, whatever the service says.     *)
LEMMA VerdictsAreTrue ==
  ASSUME NEW k, NEW v \in HubcapStatsFor(k), verdict' = <<k, v>>
  PROVE  VerdictIsOfTheKey'
BY DEF HubcapStatsFor, VerdictIsOfTheKey

LEMMA InitCallsInv == CallsInit => CallsInv
<1> SUFFICES ASSUME CallsInit PROVE CallsInv
  OBVIOUS
<1>1. believed = FALSE /\ menu = FALSE
  BY DEF CallsInit
<1>2. VerdictIsOfTheKey
  BY DEF CallsInit, VerdictIsOfTheKey
<1> QED
  BY <1>1, <1>2 DEF CallsInv, BelievedIsDrawn

LEMMA StepCallsInv ==
  ASSUME CallsInv, [CallsNext]_calls
  PROVE  CallsInv'
<1> USE DEF CallsInv
<1>1. CASE UNCHANGED <<popup, hubcap>>
  BY <1>1 DEF popup, hubcap, BelievedIsDrawn, VerdictIsOfTheKey
<1>2. ASSUME NEW i \in Items,
             \/ JsonWorkshopDownload(i) \/ ClientReports(i) \/ ClientDrops(i) \/ AskStatus(i)
             \/ \E l \in Libs : ClientFetches(i, l)
      PROVE  UNCHANGED <<popup, hubcap>>
  BY <1>2 DEF JsonWorkshopDownload, ClientReports, ClientDrops, AskStatus, ClientFetches
<1>3. CASE LookUp
  BY <1>1, <1>3 DEF LookUp
<1>4. CASE JsonNavMenuShow
  <2>1. PICK o \in Outcomes : menu' = (menu \/ Ran(o)) /\ believed' = (o = "answered")
    BY <1>4 DEF JsonNavMenuShow
  <2>2. /\ menu' \in BOOLEAN /\ believed' \in BOOLEAN
        /\ believed' => menu'
    BY <2>1, Zenon DEF Ran
  <2>3. VerdictIsOfTheKey'
    BY <1>4 DEF JsonNavMenuShow, hubcap, VerdictIsOfTheKey
  <2> QED
    BY <2>2, <2>3 DEF BelievedIsDrawn
<1>5. CASE JsonNavMenuHide
  <2>1. believed' = FALSE /\ menu' \in BOOLEAN
    BY <1>5 DEF JsonNavMenuHide
  <2>2. VerdictIsOfTheKey'
    BY <1>5 DEF JsonNavMenuHide, hubcap, VerdictIsOfTheKey
  <2> QED
    BY <2>1, <2>2 DEF BelievedIsDrawn
<1>6. CASE JsonNavMenuPick
  <2>1. believed' \in BOOLEAN /\ menu' = menu /\ menu = TRUE
    BY <1>6 DEF JsonNavMenuPick
  <2>2. VerdictIsOfTheKey'
    BY <1>6 DEF JsonNavMenuPick, hubcap, VerdictIsOfTheKey
  <2> QED
    BY <2>1, <2>2 DEF BelievedIsDrawn
<1>7. ASSUME NEW k, JsonHubcapSave(k) PROVE CallsInv'
  <2>1. VerdictIsOfTheKey'
    BY <1>7, VerdictsAreTrue DEF JsonHubcapSave
  <2> QED
    BY <1>7, <2>1 DEF JsonHubcapSave, popup, BelievedIsDrawn
<1>8. CASE JsonHubcapStats
  <2>1. VerdictIsOfTheKey'
    BY <1>8, VerdictsAreTrue DEF JsonHubcapStats
  <2> QED
    BY <1>8, <2>1 DEF JsonHubcapStats, popup, BelievedIsDrawn
<1>9. CASE LoadHubcapKey
  BY <1>9 DEF LoadHubcapKey, popup, BelievedIsDrawn, VerdictIsOfTheKey
<1>10. CASE UNCHANGED calls
  BY <1>1, <1>10 DEF calls, popup, hubcap
<1> QED
  BY <1>1, <1>2, <1>3, <1>4, <1>5, <1>6, <1>7, <1>8, <1>9, <1>10 DEF CallsNext

(* The client is asked before a directory is looked for.                   *)
LEMMA StatusStep ==
  ASSUME CallsNext
  PROVE  looking' # NoItem => looking' \in reported \cup {looking}
<1>1. ASSUME NEW i \in Items, AskStatus(i) PROVE looking' = looking \/ looking' \in reported
  BY <1>1 DEF AskStatus
<1>2. CASE LookUp
  BY <1>2 DEF LookUp
<1>3. ASSUME NEW i \in Items,
             \/ JsonWorkshopDownload(i) \/ ClientReports(i) \/ ClientDrops(i)
             \/ \E l \in Libs : ClientFetches(i, l)
      PROVE  looking' = looking
  BY <1>3 DEF JsonWorkshopDownload, ClientReports, ClientDrops, ClientFetches
<1>4. ASSUME \/ JsonNavMenuShow \/ JsonNavMenuHide \/ JsonNavMenuPick
             \/ \E k \in HubKeys \cup {NoHubKey} : JsonHubcapSave(k)
             \/ JsonHubcapStats \/ LoadHubcapKey
      PROVE  looking' = looking
  BY <1>4 DEF JsonNavMenuShow, JsonNavMenuHide, JsonNavMenuPick, JsonHubcapSave, JsonHubcapStats,
              LoadHubcapKey, workshop
<1> QED
  BY <1>1, <1>2, <1>3, <1>4 DEF CallsNext

(* For any items, libraries and keys, and whatever becomes of a call: a    *)
(* popup the window takes for drawn is drawn, a verdict is about the key   *)
(* it names, and an item is not downloaded before the client has said so.  *)
THEOREM PagesAreToldTheTruth == CallsInit /\ [][CallsNext]_calls => CallsTellTheTruth
<1>1. CallsInv => BelievedIsDrawn /\ VerdictIsOfTheKey
  BY DEF CallsInv
<1>2. [CallsNext]_calls => [looking' # NoItem => looking' \in reported \cup {looking}]_calls
  BY StatusStep
<1> QED
  BY InitCallsInv, StepCallsInv, <1>1, <1>2, PTL DEF CallsTellTheTruth, StatusWaitsForClient

-----------------------------------------------------------------------------

(* The console log.  What has not been read yet is newer than anything     *)
(* adopted or about to be, or known to be read again: its lines begin      *)
(* above History, and each further one higher.                             *)
Piece == Int \X Int
Key == Int \X Int
Unread == {i \in 1 .. Len(log) : i > at /\ log[i][2] = 1}
Taken == adopted \o todo

TailTypeOK ==
  /\ log \in Seq(Piece) /\ at \in Nat /\ looked \in Nat /\ reads \in Nat
  /\ lines \in Nat /\ lines >= History
  /\ adopted \in Seq(Key) /\ todo \in Seq(Key)

TailInv ==
  /\ TailTypeOK
  /\ looked > 0 => todo = <<>> /\ at < looked
  /\ InOrder(Taken)
  /\ \A i \in DOMAIN Taken : History < Taken[i][1] /\ Taken[i][1] <= lines
  /\ \A i \in Unread : History < log[i][1] /\ log[i][1] <= lines
  /\ \A i \in Unread, a \in DOMAIN Taken :
       Taken[a][1] < log[i][1] \/ <<log[i][1], reads + 1>> \in again
  /\ \A i, j \in Unread : i < j => log[i][1] < log[j][1]

(* The ranks in a finite set of numbers rise and leave none out.           *)
Rank(W, i) == Cardinality({k \in W : k <= i})

LEMMA RanksRise ==
  ASSUME NEW W \in SUBSET Nat, IsFiniteSet(W), NEW i \in W, NEW j \in W, i < j
  PROVE  Rank(W, i) < Rank(W, j)
<1> DEFINE A == {k \in W : k <= i}
           B == {k \in W : k <= j}
<1>1. IsFiniteSet(B) /\ Cardinality(B) \in Nat
  BY FS_Subset, FS_CardinalityType
<1>2. A \in SUBSET B /\ A # B
  <2>1. j \in B /\ j \notin A
    OBVIOUS
  <2>2. \A k \in A : k \in B
    OBVIOUS
  <2> QED
    BY <2>1, <2>2
<1>3. IsFiniteSet(A) /\ Cardinality(A) \in Nat /\ Cardinality(A) <= Cardinality(B)
  BY <1>1, <1>2, FS_Subset, FS_CardinalityType
<1>4. Cardinality(A) # Cardinality(B)
  BY <1>1, <1>2, FS_Subset
<1> QED
  BY <1>1, <1>3, <1>4 DEF Rank

LEMMA RanksAreTaken ==
  ASSUME NEW W \in SUBSET Nat, IsFiniteSet(W), NEW r \in 1 .. Cardinality(W)
  PROVE  \E i \in W : Rank(W, i) = r
<1> DEFINE T == 1 .. Cardinality(W)
           f == [i \in W |-> Rank(W, i)]
<1>1. Cardinality(W) \in Nat
  BY FS_CardinalityType
<1>2. ASSUME NEW i \in W PROVE Rank(W, i) \in T
  <2> DEFINE A == {k \in W : k <= i}
  <2>1. IsFiniteSet(A) /\ Cardinality(A) <= Cardinality(W) /\ Cardinality(A) \in Nat
    BY FS_Subset, FS_CardinalityType
  <2>2. Cardinality(A) # 0
    BY <2>1, FS_EmptySet
  <2> QED
    BY <1>1, <2>1, <2>2 DEF Rank
<1>3. f \in [W -> T]
  BY <1>2
<1>4. ASSUME NEW i \in W, NEW j \in W, f[i] = f[j] PROVE i = j
  <2>1. Rank(W, i) = Rank(W, j) /\ Rank(W, i) \in Nat
    BY <1>2, <1>4
  <2> QED
    BY <2>1, RanksRise
<1> HIDE DEF f
<1>5. f \in Injection(W, T)
  BY <1>3, <1>4, Fun_IsInj
<1>6. IsFiniteSet(T) /\ Cardinality(T) = Cardinality(W)
  BY <1>1, FS_Interval
<1>7. f \in Surjection(W, T)
  BY <1>5, <1>6, FS_Injection
<1>8. \A t \in T : \E i \in W : f[i] = t
  BY <1>7 DEF Surjection
<1> QED
  BY <1>8 DEF f

(* The keys found under a mark are those of the chunk's starts that are    *)
(* followed by an end, in their order.                                     *)
LEMMA KeysAreOfStarts ==
  ASSUME NEW mark, NEW chunk \in Seq(Piece)
  PROVE  /\ KeysUnder(mark, chunk) \in Seq(Int)
         /\ \A j \in DOMAIN KeysUnder(mark, chunk) :
              /\ KeysUnder(mark, chunk)[j] \in mark
              /\ \E i \in 1 .. Len(chunk) :
                   chunk[i][2] = 1 /\ KeysUnder(mark, chunk)[j] = chunk[i][1]
         /\ \A j, l \in DOMAIN KeysUnder(mark, chunk) : j < l =>
              \E i, k \in 1 .. Len(chunk) :
                /\ i < k /\ chunk[i][2] = 1 /\ chunk[k][2] = 1
                /\ KeysUnder(mark, chunk)[j] = chunk[i][1]
                /\ KeysUnder(mark, chunk)[l] = chunk[k][1]
<1> DEFINE W == {i \in 1 .. Len(chunk) - 1 :
                  chunk[i][2] = 1 /\ chunk[i + 1][2] = 2 /\ chunk[i][1] \in mark}
           c == Cardinality(W)
           from == [j \in 1 .. c |-> CHOOSE i \in W : Rank(W, i) = j]
<1>1. Len(chunk) \in Nat /\ chunk \in [1 .. Len(chunk) -> Piece]
  BY LenProperties
<1>2. W \in SUBSET (1 .. Len(chunk)) /\ IsFiniteSet(1 .. Len(chunk))
  BY <1>1, FS_Interval
<1>3. W \in SUBSET Nat /\ IsFiniteSet(W) /\ c \in Nat
  BY <1>2, FS_Subset, FS_CardinalityType
<1>4. KeysUnder(mark, chunk) = [j \in 1 .. c |-> chunk[from[j]][1]]
  BY DEF KeysUnder, Rank
<1>5. \A j \in 1 .. c : from[j] \in W /\ Rank(W, from[j]) = j
  <2> SUFFICES ASSUME NEW j \in 1 .. c PROVE from[j] \in W /\ Rank(W, from[j]) = j
    OBVIOUS
  <2>1. \E i \in W : Rank(W, i) = j
    BY <1>3, RanksAreTaken
  <2> QED
    BY <2>1
<1>6. \A i \in W : i \in 1 .. Len(chunk) /\ chunk[i][2] = 1 /\ chunk[i][1] \in Int
                  /\ chunk[i][1] \in mark
  BY <1>1, <1>2 DEF Piece
<1> HIDE DEF W, from
<1>7. from \in [1 .. c -> 1 .. Len(chunk)]
  BY <1>5, <1>6 DEF from
<1>8. ASSUME NEW j \in 1 .. c, NEW l \in 1 .. c, j < l PROVE from[j] < from[l]
  <2>1. /\ from[j] \in W /\ from[l] \in W /\ from[j] \in Nat /\ from[l] \in Nat
        /\ Rank(W, from[j]) = j /\ Rank(W, from[l]) = l
    BY <1>3, <1>5
  <2>2. from[j] # from[l]
    BY <1>8, <2>1
  <2>3. ~ (from[l] < from[j])
    BY <1>3, <1>8, <2>1, RanksRise
  <2> QED
    BY <2>1, <2>2, <2>3
<1>9. KeysUnder(mark, chunk) \in [1 .. c -> Int] /\ DOMAIN KeysUnder(mark, chunk) = 1 .. c
  BY <1>4, <1>5, <1>6
<1>10. KeysUnder(mark, chunk) \in Seq(Int)
  BY <1>3, <1>9
<1>11. \A j \in 1 .. c : /\ chunk[from[j]][2] = 1
                        /\ KeysUnder(mark, chunk)[j] = chunk[from[j]][1]
                        /\ KeysUnder(mark, chunk)[j] \in mark
  BY <1>4, <1>5, <1>6
<1> DEFINE K == KeysUnder(mark, chunk)
<1> HIDE DEF K
<1>12. DOMAIN K = 1 .. c /\ K \in Seq(Int)
  BY <1>9, <1>10 DEF K
<1>13. \A j \in 1 .. c : /\ from[j] \in 1 .. Len(chunk) /\ chunk[from[j]][2] = 1
                        /\ K[j] = chunk[from[j]][1] /\ K[j] \in mark
  BY <1>7, <1>11 DEF K
<1>14. \A j \in DOMAIN K :
         K[j] \in mark /\ \E i \in 1 .. Len(chunk) : chunk[i][2] = 1 /\ K[j] = chunk[i][1]
  BY <1>12, <1>13
<1>15. \A j, l \in DOMAIN K : j < l =>
         \E i, k \in 1 .. Len(chunk) : /\ i < k /\ chunk[i][2] = 1 /\ chunk[k][2] = 1
                                       /\ K[j] = chunk[i][1] /\ K[l] = chunk[k][1]
  BY <1>8, <1>12, <1>13
<1> QED
  BY <1>12, <1>14, <1>15 DEF K

(* Of a chunk whose lines rise, the keys rise under each mark, and those   *)
(* that name steamflipper come last.                                       *)
LEMMA KeysRiseUnderEachMark ==
  ASSUME NEW chunk \in Seq(Piece),
         \A i, j \in 1 .. Len(chunk) :
           i < j /\ chunk[i][2] = 1 /\ chunk[j][2] = 1 => chunk[i][1] < chunk[j][1]
  PROVE  LET keys == KeysIn(chunk)
         IN /\ keys \in Seq(Int)
            /\ \A j \in DOMAIN keys :
                 \E i \in 1 .. Len(chunk) : chunk[i][2] = 1 /\ keys[j] = chunk[i][1]
            /\ \A j, l \in DOMAIN keys : j < l =>
                 keys[j] < keys[l] \/ (keys[j] \notin own /\ keys[l] \in own)
<1> DEFINE M1 == (1 .. lines) \ own
           K1 == KeysUnder(M1, chunk)
           K2 == KeysUnder(own, chunk)
           keys == KeysIn(chunk)
<1>0. keys = K1 \o K2
  BY DEF KeysIn
<1>1. K1 \in Seq(Int) /\ K2 \in Seq(Int)
  BY KeysAreOfStarts
<1>2. /\ \A j \in DOMAIN K1 : /\ K1[j] \notin own
                               /\ \E i \in 1 .. Len(chunk) : chunk[i][2] = 1 /\ K1[j] = chunk[i][1]
      /\ \A j, l \in DOMAIN K1 : j < l =>
           \E i, k \in 1 .. Len(chunk) : /\ i < k /\ chunk[i][2] = 1 /\ chunk[k][2] = 1
                                         /\ K1[j] = chunk[i][1] /\ K1[l] = chunk[k][1]
  <2>1. /\ \A j \in DOMAIN K1 : /\ K1[j] \in M1
                                 /\ \E i \in 1 .. Len(chunk) : chunk[i][2] = 1 /\ K1[j] = chunk[i][1]
        /\ \A j, l \in DOMAIN K1 : j < l =>
             \E i, k \in 1 .. Len(chunk) : /\ i < k /\ chunk[i][2] = 1 /\ chunk[k][2] = 1
                                           /\ K1[j] = chunk[i][1] /\ K1[l] = chunk[k][1]
    <3> HIDE DEF M1
    <3> QED
      BY KeysAreOfStarts
  <2> HIDE DEF K1
  <2> QED
    BY <2>1
<1>3. /\ \A j \in DOMAIN K2 : /\ K2[j] \in own
                               /\ \E i \in 1 .. Len(chunk) : chunk[i][2] = 1 /\ K2[j] = chunk[i][1]
      /\ \A j, l \in DOMAIN K2 : j < l =>
           \E i, k \in 1 .. Len(chunk) : /\ i < k /\ chunk[i][2] = 1 /\ chunk[k][2] = 1
                                         /\ K2[j] = chunk[i][1] /\ K2[l] = chunk[k][1]
  BY KeysAreOfStarts
<1> HIDE DEF K1, K2, keys
<1>4. \A j, l \in DOMAIN K1 : j < l => K1[j] < K1[l]
  BY <1>2
<1>5. \A j, l \in DOMAIN K2 : j < l => K2[j] < K2[l]
  BY <1>3
<1>6. /\ Len(K1) \in Nat /\ DOMAIN K1 = 1 .. Len(K1)
      /\ Len(K2) \in Nat /\ DOMAIN K2 = 1 .. Len(K2)
  BY <1>1, LenProperties
<1>7. /\ keys \in Seq(Int) /\ DOMAIN keys = 1 .. Len(K1) + Len(K2)
      /\ \A j \in 1 .. Len(K1) + Len(K2) :
           keys[j] = IF j <= Len(K1) THEN K1[j] ELSE K2[j - Len(K1)]
  BY <1>0, <1>1, ConcatProperties, LenProperties
<1>8. \A j \in DOMAIN keys :
        \/ j \in DOMAIN K1 /\ keys[j] = K1[j]
        \/ j \notin DOMAIN K1 /\ j - Len(K1) \in DOMAIN K2 /\ keys[j] = K2[j - Len(K1)]
  BY <1>6, <1>7
<1>9. \A j \in DOMAIN keys : \E i \in 1 .. Len(chunk) : chunk[i][2] = 1 /\ keys[j] = chunk[i][1]
  BY <1>2, <1>3, <1>8
<1>10. ASSUME NEW j \in DOMAIN keys, NEW l \in DOMAIN keys, j < l
       PROVE  keys[j] < keys[l] \/ (keys[j] \notin own /\ keys[l] \in own)
  <2>1. CASE l \in DOMAIN K1
    <3>1. j \in DOMAIN K1
      BY <1>6, <1>7, <1>10, <2>1
    <3>2. keys[j] = K1[j] /\ keys[l] = K1[l]
      BY <1>6, <1>7, <2>1, <3>1
    <3> QED
      BY <1>4, <1>10, <2>1, <3>1, <3>2
  <2>2. CASE j \in DOMAIN K1 /\ l \notin DOMAIN K1
    <3>1. keys[j] = K1[j] /\ l - Len(K1) \in DOMAIN K2 /\ keys[l] = K2[l - Len(K1)]
      BY <1>6, <1>7, <1>8, <2>2
    <3> QED
      BY <1>2, <1>3, <2>2, <3>1
  <2>3. CASE j \notin DOMAIN K1
    <3>1. j - Len(K1) \in DOMAIN K2 /\ keys[j] = K2[j - Len(K1)]
      BY <1>8, <2>3
    <3>2. l \notin DOMAIN K1
      BY <1>6, <1>7, <1>10, <2>3
    <3>3. l - Len(K1) \in DOMAIN K2 /\ keys[l] = K2[l - Len(K1)]
      BY <1>8, <3>2
    <3>4. j - Len(K1) < l - Len(K1)
      BY <1>6, <1>7, <1>10
    <3> QED
      BY <1>5, <3>1, <3>3, <3>4
  <2> QED
    BY <2>1, <2>2, <2>3
<1> QED
  BY <1>7, <1>9, <1>10 DEF keys

LEMMA InitTailInv == TailInit => TailInv
<1> SUFFICES ASSUME TailInit PROVE TailInv
  OBVIOUS
<1> USE TailAssumption DEF TailInit, TailInitAt
<1> DEFINE n == 2 * (History - 1 + 1)
           e(i) == <<1 + (i - 1) \div 2, 1 + ((i - 1) % 2)>>
<1>1. n \in Nat /\ n = 2 * History
  OBVIOUS
<1>2. \A i \in 1 .. n : e(i) \in Piece
  BY DEF Piece
<1>3. log = [i \in 1 .. n |-> e(i)]
  BY DEF Pieces
<1> HIDE DEF e, n
<1>4. log \in Seq(Piece) /\ Len(log) = n
  BY <1>1, <1>2, <1>3
<1>5. Unread = {}
  BY <1>1, <1>4 DEF Unread
<1>6. Taken = <<>> /\ adopted \in Seq(Key) /\ todo \in Seq(Key)
  BY EmptySeq, ConcatEmptySeq DEF Taken
<1>7. DOMAIN Taken = {}
  BY <1>6
<1> QED
  BY <1>1, <1>4, <1>5, <1>6, <1>7 DEF TailInv, TailTypeOK, InOrder

(* Nothing is read: what has not been read is as it was, or the start of a *)
(* new line at the end.                                                    *)
LEMMA WritesKeepOrder ==
  ASSUME TailInv, UNCHANGED <<reading, adopted>>, log' \in Seq(Piece),
         lines' \in Int, lines <= lines',
         \A k \in Int : k <= lines => (k \in own' <=> k \in own),
         \A i \in Unread' :
           \/ i \in Unread /\ log'[i] = log[i]
           \/ lines' = lines + 1 /\ log'[i][1] = lines' /\ \A j \in Unread' : j <= i
  PROVE  TailInv'
<1> USE DEF TailInv, TailTypeOK, reading
<1>1. /\ \A i \in Unread : log[i][1] \in Int
      /\ \A i \in Unread' : i \in Int
      /\ \A a \in DOMAIN Taken : Taken[a][1] \in Int
  <2>1. log \in [1 .. Len(log) -> Piece]
    BY LenProperties
  <2>2. Taken \in Seq(Key)
    BY ConcatProperties DEF Taken
  <2>3. \A a \in DOMAIN Taken : Taken[a] \in Key
    BY <2>2, LenProperties, ElementOfSeq
  <2> QED
    BY <2>1, <2>3 DEF Unread, Piece, Key
<1>2. TailTypeOK' /\ Taken' = Taken
  BY TailAssumption DEF Taken
<1>3. InOrder(Taken)'
  <2> SUFFICES ASSUME NEW i \in DOMAIN Taken, NEW j \in DOMAIN Taken, i < j
               PROVE  \/ Taken[i][1] < Taken[j][1]
                      \/ Taken[j] \in again
                      \/ Taken[i][2] = Taken[j][2] /\ Taken[i][1] \notin own' /\ Taken[j][1] \in own'
    BY <1>2 DEF InOrder
  <2> QED
    BY <1>1 DEF InOrder
<1>4. \A a \in DOMAIN Taken' : History < Taken'[a][1] /\ Taken'[a][1] <= lines'
  BY <1>1, <1>2
<1>5. \A i \in Unread' : History < log'[i][1] /\ log'[i][1] <= lines'
  <2> SUFFICES ASSUME NEW i \in Unread' PROVE History < log'[i][1] /\ log'[i][1] <= lines'
    OBVIOUS
  <2>1. CASE i \in Unread /\ log'[i] = log[i]
    BY <1>1, <2>1, TailAssumption
  <2>2. CASE lines' = lines + 1 /\ log'[i][1] = lines'
    BY <2>2, TailAssumption
  <2> QED
    BY <2>1, <2>2
<1>6. \A i \in Unread', a \in DOMAIN Taken' :
        Taken'[a][1] < log'[i][1] \/ <<log'[i][1], reads' + 1>> \in again'
  <2> SUFFICES ASSUME NEW i \in Unread', NEW a \in DOMAIN Taken
               PROVE  Taken[a][1] < log'[i][1] \/ <<log'[i][1], reads + 1>> \in again
    BY <1>2
  <2>1. CASE i \in Unread /\ log'[i] = log[i]
    BY <2>1
  <2>2. CASE lines' = lines + 1 /\ log'[i][1] = lines'
    BY <1>1, <2>2
  <2> QED
    BY <2>1, <2>2
<1>7. ASSUME NEW i \in Unread', NEW j \in Unread', i < j
      PROVE  log'[i][1] < log'[j][1]
  <2>1. i \in Unread /\ log'[i] = log[i]
    BY <1>1, <1>7
  <2>2. CASE j \in Unread /\ log'[j] = log[j]
    BY <1>7, <2>1, <2>2
  <2>3. CASE lines' = lines + 1 /\ log'[j][1] = lines'
    <3>1. log[i][1] <= lines /\ log[i][1] \in Int
      BY <1>1, <2>1
    <3> QED
      BY <2>1, <2>3, <3>1
  <2> QED
    BY <2>2, <2>3
<1> QED
  BY <1>2, <1>3, <1>4, <1>5, <1>6, <1>7

LEMMA WriteStartTailInv == ASSUME TailInv, WriteStart PROVE TailInv'
<1> DEFINE two == <<<<lines + 1, 1>>, <<lines + 1, 2>>>>
<1>1. PICK n \in 1 .. 2 : log' = log \o SubSeq(two, 1, n)
  BY DEF WriteStart
<1>2. /\ log \in Seq(Piece) /\ Len(log) \in Nat /\ lines \in Nat
      /\ lines' = lines + 1 /\ UNCHANGED <<reading, adopted>>
  BY LenProperties DEF TailInv, TailTypeOK, WriteStart
<1>3. /\ \A i \in 1 .. n : two[i] \in Piece
      /\ two[1][1] = lines + 1 /\ two[2][2] = 2
  <2>1. two[1] = <<lines + 1, 1>> /\ two[2] = <<lines + 1, 2>>
    OBVIOUS
  <2>2. <<lines + 1, 1>> \in Piece /\ <<lines + 1, 2>> \in Piece
    BY <1>2 DEF Piece
  <2> HIDE DEF two
  <2>3. \A i \in 1 .. n : i = 1 \/ i = 2
    OBVIOUS
  <2> QED
    BY <2>1, <2>2, <2>3
<1> DEFINE new == SubSeq(two, 1, n)
<1> HIDE DEF two
<1>4. /\ new \in Seq(Piece) /\ Len(new) = n
      /\ \A i \in 1 .. n : new[i] = two[i]
  BY <1>3, SubSeqProperties
<1> HIDE DEF new
<1>5. /\ log' \in Seq(Piece) /\ Len(log') = Len(log) + n
      /\ \A i \in 1 .. Len(log) + n : log'[i] = IF i <= Len(log) THEN log[i] ELSE new[i - Len(log)]
  BY <1>1, <1>2, <1>4, ConcatProperties DEF new
<1>6. ASSUME NEW i \in Unread'
      PROVE  \/ i \in Unread /\ log'[i] = log[i]
             \/ lines' = lines + 1 /\ log'[i][1] = lines' /\ \A j \in Unread' : j <= i
  <2>1. CASE i <= Len(log)
    BY <1>2, <1>5, <2>1 DEF Unread, reading
  <2>2. CASE i > Len(log)
    <3>1. \A j \in Unread' : j > Len(log) => j = Len(log) + 1
      BY <1>2, <1>3, <1>4, <1>5 DEF Unread, reading
    <3>2. i = Len(log) + 1 /\ \A j \in Unread' : j <= i
      BY <1>2, <2>2, <3>1 DEF Unread, reading
    <3>3. log'[i] = two[1]
      BY <1>2, <1>4, <1>5, <3>2
    <3> QED
      BY <1>2, <1>3, <3>2, <3>3
  <2> QED
    BY <1>2, <1>5, <2>1, <2>2 DEF Unread, reading
<1>7. \A k \in Int : k <= lines => (k \in own' <=> k \in own)
  BY <1>2 DEF WriteStart
<1> QED
  BY <1>2, <1>5, <1>6, <1>7, WritesKeepOrder

LEMMA WriteEndTailInv == ASSUME TailInv, WriteEnd PROVE TailInv'
<1>1. /\ log \in Seq(Piece) /\ Len(log) \in Nat /\ log # <<>>
      /\ lines \in Nat /\ UNCHANGED <<own, lines, reading, adopted>>
  BY LenProperties DEF TailInv, TailTypeOK, WriteEnd, LineOpen
<1> DEFINE e == <<log[Len(log)][1], 2>>
<1>2. e \in Piece
  <2>1. Len(log) \in 1 .. Len(log)
    BY <1>1, EmptySeq
  <2> QED
    BY <1>1, <2>1, ElementOfSeq DEF Piece
<1>3. log' = Append(log, e) /\ e[2] = 2
  BY DEF WriteEnd
<1> HIDE DEF e
<1>4. /\ log' \in Seq(Piece) /\ Len(log') = Len(log) + 1
      /\ \A i \in 1 .. Len(log) : log'[i] = log[i]
      /\ log'[Len(log) + 1] = e
  BY <1>1, <1>2, <1>3, AppendProperties
<1>5. \A i \in Unread' : i \in Unread /\ log'[i] = log[i]
  BY <1>1, <1>3, <1>4 DEF Unread, reading
<1> QED
  BY <1>1, <1>4, <1>5, WritesKeepOrder

LEMMA LookTailInv == ASSUME TailInv, Look PROVE TailInv'
<1> USE DEF TailInv, TailTypeOK
<1>1. /\ Len(log) \in Nat /\ todo = <<>>
      /\ UNCHANGED <<log, own, lines, todo, reads, again, adopted>>
  BY LenProperties DEF Look, logFile
<1>2. /\ at' \in Nat /\ looked' \in Nat /\ (at' = at \/ at' = Len(log))
      /\ looked' > 0 => at' < looked'
  BY <1>1 DEF Look
<1>3. Unread' \subseteq Unread
  BY <1>1, <1>2 DEF Unread
<1>4. Taken' = Taken
  BY <1>1 DEF Taken
<1>5. InOrder(Taken)'
  BY <1>1, <1>4 DEF InOrder
<1>6. TailTypeOK'
  BY <1>1, <1>2
<1>7. /\ \A i \in Unread' : History < log'[i][1] /\ log'[i][1] <= lines'
      /\ \A i, j \in Unread' : i < j => log'[i][1] < log'[j][1]
  BY <1>1, <1>3
<1>8. \A i \in Unread', a \in DOMAIN Taken' :
        Taken'[a][1] < log'[i][1] \/ <<log'[i][1], reads' + 1>> \in again'
  BY <1>1, <1>3, <1>4
<1>9. \A i \in DOMAIN Taken' : History < Taken'[i][1] /\ Taken'[i][1] <= lines'
  BY <1>1, <1>4
<1> QED
  BY <1>1, <1>2, <1>5, <1>6, <1>7, <1>8, <1>9

(* The keys of a chunk are those of unread lines, and what stays unread    *)
(* beyond them is known to be read again.                                  *)
LEMMA ReadTailInv == ASSUME TailInv, Read PROVE TailInv'
<1> DEFINE chunk == SubSeq(log, at + 1, Len(log))
           keys  == KeysIn(chunk)
<1>1. /\ log \in Seq(Piece) /\ Len(log) \in Nat /\ at \in Nat /\ looked \in Nat /\ reads \in Nat
      /\ lines \in Nat /\ adopted \in Seq(Key) /\ todo = <<>>
  BY LenProperties DEF TailInv, TailTypeOK, Read
<1>2. /\ todo' = [i \in DOMAIN keys |-> <<keys[i], reads + 1>>]
      /\ at' = looked /\ looked' = 0 /\ reads' = reads + 1 /\ UNCHANGED <<log, own, lines, adopted>>
      /\ again \subseteq again'
      /\ \A i \in 1 .. Len(log) : i > looked /\ log[i][2] = 1 => <<log[i][1], reads + 2>> \in again'
  BY <1>1 DEF Read, logFile
<1>3. \A i \in 1 .. Len(log) : log[i] \in Piece /\ log[i][1] \in Int
  BY <1>1, ElementOfSeq DEF Piece
<1>4. /\ chunk \in Seq(Piece)
      /\ \A i \in 1 .. Len(chunk) : at + i \in 1 .. Len(log) /\ chunk[i] = log[at + i]
  <2>1. CASE at < Len(log)
    <3>1. /\ chunk \in Seq(Piece) /\ Len(chunk) = Len(log) - (at + 1) + 1
          /\ \A i \in 1 .. Len(log) - (at + 1) + 1 : chunk[i] = log[at + 1 + i - 1]
      BY <1>1, <1>3, <2>1, SubSeqProperties
    <3> HIDE DEF chunk
    <3>2. ASSUME NEW i \in 1 .. Len(chunk)
          PROVE  at + i \in 1 .. Len(log) /\ chunk[i] = log[at + i]
      <4>1. i \in 1 .. Len(log) - (at + 1) + 1 /\ at + 1 + i - 1 = at + i
        BY <1>1, <2>1, <3>1
      <4> QED
        BY <1>1, <2>1, <3>1, <4>1
    <3> QED
      BY <3>1, <3>2
  <2>2. CASE at >= Len(log)
    <3>1. chunk = <<>>
      BY <1>1, <2>2, SubSeqEmpty
    <3>2. chunk \in Seq(Piece) /\ Len(chunk) = 0
      BY <3>1, EmptySeq
    <3> HIDE DEF chunk
    <3> QED
      BY <3>2
  <2> QED
    BY <1>1, <2>1, <2>2
<1> HIDE DEF chunk
<1>5. \A i \in 1 .. Len(chunk) : chunk[i][2] = 1 => at + i \in Unread /\ log[at + i] = chunk[i]
  BY <1>1, <1>4 DEF Unread
<1>6. \A i, j \in 1 .. Len(chunk) :
        i < j /\ chunk[i][2] = 1 /\ chunk[j][2] = 1 => chunk[i][1] < chunk[j][1]
  <2> SUFFICES ASSUME NEW i \in 1 .. Len(chunk), NEW j \in 1 .. Len(chunk),
                      i < j, chunk[i][2] = 1, chunk[j][2] = 1
               PROVE  chunk[i][1] < chunk[j][1]
    OBVIOUS
  <2>1. at + i \in Unread /\ at + j \in Unread /\ at + i < at + j
    BY <1>1, <1>5
  <2>2. log[at + i][1] < log[at + j][1]
    BY <2>1 DEF TailInv
  <2> QED
    BY <1>5, <2>2
<1>7. /\ keys \in Seq(Int)
      /\ \A j \in DOMAIN keys : \E i \in 1 .. Len(chunk) : chunk[i][2] = 1 /\ keys[j] = chunk[i][1]
      /\ \A j, l \in DOMAIN keys : j < l => keys[j] < keys[l] \/ (keys[j] \notin own /\ keys[l] \in own)
  BY <1>4, <1>6, KeysRiseUnderEachMark
<1> HIDE DEF keys
<1>8. \A j \in DOMAIN keys : \E i \in Unread : keys[j] = log[i][1]
  BY <1>5, <1>7
<1>9. \A j \in DOMAIN keys : /\ History < keys[j] /\ keys[j] <= lines
                             /\ \A a \in DOMAIN Taken :
                                  Taken[a][1] < keys[j] \/ <<keys[j], reads + 1>> \in again
  BY <1>8 DEF TailInv
<1>10. /\ Len(adopted) \in Nat /\ DOMAIN adopted = 1 .. Len(adopted)
       /\ Len(keys) \in Nat /\ DOMAIN keys = 1 .. Len(keys)
       /\ Taken = adopted
  BY <1>1, <1>7, LenProperties, ConcatEmptySeq DEF Taken
<1>11. todo' \in Seq(Key) /\ Len(todo') = Len(keys)
  <2>1. \A i \in 1 .. Len(keys) : keys[i] \in Int
    BY <1>7, <1>10, ElementOfSeq
  <2>2. \A i \in 1 .. Len(keys) : <<keys[i], reads + 1>> \in Key
    BY <1>1, <2>1 DEF Key
  <2> QED
    BY <1>2, <1>10, <2>2
<1>12. /\ Taken' \in Seq(Key) /\ DOMAIN Taken' = 1 .. Len(adopted) + Len(keys)
       /\ \A i \in 1 .. Len(adopted) + Len(keys) :
            Taken'[i] = IF i <= Len(adopted) THEN adopted[i] ELSE todo'[i - Len(adopted)]
  <2>1. adopted' = adopted
    BY <1>2
  <2>2. /\ Taken' \in Seq(Key) /\ Len(Taken') = Len(adopted) + Len(todo')
        /\ \A i \in 1 .. Len(adopted) + Len(todo') :
             Taken'[i] = IF i <= Len(adopted) THEN adopted[i] ELSE todo'[i - Len(adopted)]
    BY <1>1, <1>11, <2>1, ConcatProperties DEF Taken
  <2>3. DOMAIN Taken' = 1 .. Len(Taken')
    BY <2>2, LenProperties
  <2> QED
    BY <1>11, <2>2, <2>3
<1>13. ASSUME NEW i \in DOMAIN Taken'
       PROVE  \/ i \in DOMAIN Taken /\ Taken'[i] = Taken[i]
              \/ /\ i \notin DOMAIN Taken /\ i - Len(adopted) \in DOMAIN keys
                 /\ Taken'[i] = <<keys[i - Len(adopted)], reads + 1>>
  <2>1. i \in 1 .. Len(adopted) + Len(keys) /\ DOMAIN Taken = 1 .. Len(adopted)
    BY <1>10, <1>12
  <2>2. CASE i <= Len(adopted)
    BY <1>10, <1>12, <2>1, <2>2
  <2>3. CASE i > Len(adopted)
    <3>1. i - Len(adopted) \in DOMAIN keys /\ i \notin DOMAIN Taken
      BY <1>10, <2>1, <2>3
    <3>2. todo'[i - Len(adopted)] = <<keys[i - Len(adopted)], reads + 1>>
      BY <1>2, <3>1
    <3> QED
      BY <1>12, <2>1, <2>3, <3>1, <3>2
  <2> QED
    BY <1>10, <2>1, <2>2, <2>3
<1>14. \A i \in DOMAIN Taken' : History < Taken'[i][1] /\ Taken'[i][1] <= lines'
  BY <1>2, <1>9, <1>13 DEF TailInv
<1>15. ASSUME NEW i \in DOMAIN Taken', NEW j \in DOMAIN Taken', i < j
       PROVE  \/ Taken'[i][1] < Taken'[j][1]
              \/ Taken'[j] \in again'
              \/ Taken'[i][2] = Taken'[j][2] /\ Taken'[i][1] \notin own' /\ Taken'[j][1] \in own'
  <2>1. CASE j \in DOMAIN Taken
    <3>1. i \in DOMAIN Taken
      BY <1>10, <1>12, <1>15, <2>1
    <3>2. Taken'[i] = Taken[i] /\ Taken'[j] = Taken[j]
      BY <1>13, <2>1, <3>1
    <3> QED
      BY <1>2, <1>15, <2>1, <3>1, <3>2 DEF TailInv, InOrder
  <2>2. CASE i \in DOMAIN Taken /\ j \notin DOMAIN Taken
    BY <1>2, <1>9, <1>13, <2>2
  <2>3. CASE i \notin DOMAIN Taken
    <3>1. j \notin DOMAIN Taken
      BY <1>10, <1>12, <1>15, <2>3
    <3>2. /\ i - Len(adopted) \in DOMAIN keys /\ Taken'[i] = <<keys[i - Len(adopted)], reads + 1>>
          /\ j - Len(adopted) \in DOMAIN keys /\ Taken'[j] = <<keys[j - Len(adopted)], reads + 1>>
      BY <1>13, <2>3, <3>1
    <3>3. i - Len(adopted) < j - Len(adopted)
      BY <1>10, <1>12, <1>15
    <3> QED
      BY <1>2, <1>7, <3>2, <3>3
  <2> QED
    BY <2>1, <2>2, <2>3
<1>16. ASSUME NEW i \in Unread' PROVE i \in 1 .. Len(log) /\ i > looked /\ log[i][2] = 1
  BY <1>2 DEF Unread
<1>17. \A i \in Unread' : <<log'[i][1], reads' + 1>> \in again'
  BY <1>1, <1>2, <1>16
<1>18. TailTypeOK'
  BY <1>1, <1>2, <1>11 DEF TailInv, TailTypeOK
<1>19. at < looked
  BY DEF TailInv, Read
<1>20. \A i \in Unread' : i \in Unread /\ log'[i] = log[i]
  BY <1>1, <1>2, <1>16, <1>19 DEF Unread
<1>21. InOrder(Taken)'
  BY <1>15 DEF InOrder
<1> QED
  BY <1>2, <1>14, <1>17, <1>18, <1>20, <1>21 DEF TailInv

(* A key is saved or passed over: what is taken loses one key at most.     *)
LEMMA AdoptTailInv == ASSUME TailInv, Adopt PROVE TailInv'
<1> DEFINE n == Len(adopted)
<1>1. /\ adopted \in Seq(Key) /\ todo \in Seq(Key) /\ todo # <<>> /\ todo' = Tail(todo)
      /\ n \in Nat /\ Len(todo) \in Nat \ {0}
      /\ UNCHANGED <<log, own, lines, at, looked, reads, again>>
  BY LenProperties, EmptySeq DEF TailInv, TailTypeOK, Adopt, logFile
<1>2. /\ todo' \in Seq(Key) /\ Len(todo') = Len(todo) - 1
      /\ \A i \in 1 .. Len(todo) - 1 : todo'[i] = todo[i + 1]
      /\ Head(todo) = todo[1] /\ Head(todo) \in Key
  <2>1. Head(todo) = todo[1]
    BY <1>1
  <2> QED
    BY <1>1, <2>1, HeadTailProperties
<1>3. /\ Taken \in Seq(Key) /\ DOMAIN Taken = 1 .. n + Len(todo)
      /\ \A i \in 1 .. n + Len(todo) : Taken[i] = IF i <= n THEN adopted[i] ELSE todo[i - n]
  BY <1>1, ConcatProperties, LenProperties DEF Taken
<1>4. looked = 0
  BY <1>1 DEF TailInv, TailTypeOK
<1>5. adopted' \in Seq(Key) /\
      \E f \in [DOMAIN Taken' -> DOMAIN Taken] :
        /\ \A i \in DOMAIN Taken' : Taken'[i] = Taken[f[i]]
        /\ \A i, j \in DOMAIN Taken' : i < j => f[i] < f[j]
  <2>1. CASE adopted' = Append(adopted, Head(todo))
    <3>1. /\ adopted' \in Seq(Key) /\ Len(adopted') = n + 1
          /\ \A i \in 1 .. n : adopted'[i] = adopted[i]
          /\ adopted'[n + 1] = todo[1]
      BY <1>1, <1>2, <2>1, AppendProperties
    <3>2. /\ Taken' \in Seq(Key) /\ DOMAIN Taken' = 1 .. n + Len(todo)
          /\ \A i \in 1 .. n + Len(todo) :
               Taken'[i] = IF i <= n + 1 THEN adopted'[i] ELSE todo'[i - (n + 1)]
      <4>1. n + 1 + (Len(todo) - 1) = n + Len(todo)
        BY <1>1
      <4>2. /\ adopted' \in Seq(Key) /\ Len(adopted') = n + 1
            /\ todo' \in Seq(Key) /\ Len(todo') = Len(todo) - 1
        BY <1>2, <3>1
      <4>3. /\ Taken' \in Seq(Key) /\ Len(Taken') = Len(adopted') + Len(todo')
            /\ \A i \in 1 .. Len(adopted') + Len(todo') :
                 Taken'[i] = IF i <= Len(adopted') THEN adopted'[i] ELSE todo'[i - Len(adopted')]
        BY <4>2, ConcatProperties DEF Taken
      <4>4. Len(adopted') + Len(todo') = n + Len(todo)
        BY <4>1, <4>2
      <4>5. DOMAIN Taken' = 1 .. Len(Taken')
        BY <4>3, LenProperties
      <4> QED
        BY <4>2, <4>3, <4>4, <4>5
    <3>3. \A i \in 1 .. n + Len(todo) : Taken'[i] = Taken[i]
      <4> SUFFICES ASSUME NEW i \in 1 .. n + Len(todo) PROVE Taken'[i] = Taken[i]
        OBVIOUS
      <4>1. CASE i <= n
        <5>1. i \in 1 .. n /\ i <= n + 1
          BY <1>1, <4>1
        <5> QED
          BY <1>3, <3>1, <3>2, <4>1, <5>1
      <4>2. CASE i = n + 1
        <5>1. Taken'[i] = adopted'[n + 1]
          BY <1>1, <3>2, <4>2
        <5>2. ~ (i <= n) /\ i - n = 1
          BY <1>1, <4>2
        <5>3. Taken[i] = todo[i - n]
          BY <1>3, <5>2
        <5> QED
          BY <3>1, <5>1, <5>2, <5>3
      <4>3. CASE i > n + 1
        <5>0. ~ (i <= n) /\ ~ (i <= n + 1) /\ i - (n + 1) \in 1 .. Len(todo) - 1
          BY <1>1, <4>3
        <5>1. Taken'[i] = todo'[i - (n + 1)] /\ i - (n + 1) \in 1 .. Len(todo) - 1
          BY <3>2, <5>0
        <5>2. todo'[i - (n + 1)] = todo[i - (n + 1) + 1] /\ i - (n + 1) + 1 = i - n
          BY <1>1, <1>2, <5>1
        <5>3. Taken[i] = todo[i - n]
          BY <1>3, <5>0
        <5> QED
          BY <5>1, <5>2, <5>3
      <4> QED
        BY <1>1, <4>1, <4>2, <4>3
    <3> DEFINE f == [i \in 1 .. n + Len(todo) |-> i]
    <3>4. /\ f \in [DOMAIN Taken' -> DOMAIN Taken]
          /\ \A i \in DOMAIN Taken' : Taken'[i] = Taken[f[i]]
          /\ \A i, j \in DOMAIN Taken' : i < j => f[i] < f[j]
      BY <1>3, <3>2, <3>3
    <3> HIDE DEF f
    <3> QED
      BY <3>1, <3>4
  <2>2. CASE adopted' = adopted
    <3>1. /\ Taken' \in Seq(Key) /\ DOMAIN Taken' = 1 .. n + Len(todo) - 1
          /\ \A i \in 1 .. n + Len(todo) - 1 :
               Taken'[i] = IF i <= n THEN adopted[i] ELSE todo'[i - n]
      <4>1. n + (Len(todo) - 1) = n + Len(todo) - 1
        BY <1>1
      <4> QED
        BY <1>1, <1>2, <2>2, <4>1, ConcatProperties, LenProperties DEF Taken
    <3> DEFINE f == [i \in 1 .. n + Len(todo) - 1 |-> IF i <= n THEN i ELSE i + 1]
    <3>2. ASSUME NEW i \in 1 .. n + Len(todo) - 1 PROVE Taken'[i] = Taken[f[i]]
      <4>1. CASE i <= n
        <5>1. f[i] = i /\ i \in 1 .. n + Len(todo)
          BY <1>1, <4>1
        <5> QED
          BY <1>3, <3>1, <4>1, <5>1
      <4>2. CASE i > n
        <5>1. Taken'[i] = todo'[i - n] /\ i - n \in 1 .. Len(todo) - 1
          <6>1. ~ (i <= n) /\ i - n \in 1 .. Len(todo) - 1
            BY <1>1, <4>2
          <6> QED
            BY <3>1, <6>1
        <5>2. todo'[i - n] = todo[i - n + 1] /\ i - n + 1 = (i + 1) - n
          BY <1>1, <1>2, <5>1
        <5>3. Taken[f[i]] = todo[(i + 1) - n]
          <6>1. f[i] = i + 1 /\ i + 1 \in 1 .. n + Len(todo) /\ ~ (i + 1 <= n)
            BY <1>1, <4>2
          <6> QED
            BY <1>3, <6>1
        <5> QED
          BY <5>1, <5>2, <5>3
      <4> QED
        BY <1>1, <4>1, <4>2
    <3>3. f \in [DOMAIN Taken' -> DOMAIN Taken]
      BY <1>1, <1>3, <3>1
    <3>4. \A i, j \in DOMAIN Taken' : i < j => f[i] < f[j]
      BY <1>1, <3>1
    <3> HIDE DEF f
    <3> QED
      BY <1>1, <2>2, <3>1, <3>2, <3>3, <3>4
  <2> QED
    BY <2>1, <2>2 DEF Adopt
<1>6. PICK f \in [DOMAIN Taken' -> DOMAIN Taken] :
        /\ \A i \in DOMAIN Taken' : Taken'[i] = Taken[f[i]]
        /\ \A i, j \in DOMAIN Taken' : i < j => f[i] < f[j]
  BY <1>5
<1>7. InOrder(Taken)'
  <2> SUFFICES ASSUME NEW i \in DOMAIN Taken', NEW j \in DOMAIN Taken', i < j
               PROVE  \/ Taken'[i][1] < Taken'[j][1]
                      \/ Taken'[j] \in again
                      \/ Taken'[i][2] = Taken'[j][2] /\ Taken'[i][1] \notin own /\ Taken'[j][1] \in own
    BY <1>1 DEF InOrder
  <2>1. f[i] \in DOMAIN Taken /\ f[j] \in DOMAIN Taken /\ f[i] < f[j]
    BY <1>6
  <2> QED
    BY <1>6, <2>1 DEF TailInv, InOrder
<1>8. Unread' = Unread
  BY <1>1 DEF Unread
<1>9. TailTypeOK'
  BY <1>1, <1>2, <1>5 DEF TailInv, TailTypeOK
<1>10. /\ \A i \in DOMAIN Taken' : History < Taken'[i][1] /\ Taken'[i][1] <= lines
       /\ \A i \in Unread, k \in DOMAIN Taken' :
            Taken'[k][1] < log[i][1] \/ <<log[i][1], reads + 1>> \in again
  BY <1>6 DEF TailInv
<1> QED
  BY <1>1, <1>4, <1>7, <1>8, <1>9, <1>10 DEF TailInv

LEMMA StepTailInv ==
  ASSUME TailInv, [TailNext]_tail
  PROVE  TailInv'
<1>1. CASE RotateLog
  <2>1. log' \in Seq(Piece) /\ Unread' = {}
    BY <1>1, EmptySeq DEF RotateLog, Unread
  <2>2. UNCHANGED <<own, lines, at, looked, todo, reads, adopted, again>>
    BY <1>1 DEF RotateLog, reading
  <2>3. Taken' = Taken /\ TailTypeOK' /\ InOrder(Taken)'
    BY <2>1, <2>2 DEF Taken, TailInv, TailTypeOK, InOrder
  <2> QED
    BY <2>1, <2>2, <2>3 DEF TailInv
<1>2. CASE LoadKey
  <2>1. UNCHANGED <<log, own, lines, at, looked, todo, reads, adopted, again>>
    BY <1>2 DEF LoadKey, reading, logFile
  <2>2. Unread' = Unread /\ Taken' = Taken /\ TailTypeOK'
    BY <2>1 DEF Unread, Taken, TailInv, TailTypeOK
  <2>3. InOrder(Taken)'
    BY <2>1, <2>2 DEF InOrder, TailInv
  <2> QED
    BY <2>1, <2>2, <2>3 DEF TailInv
<1>3. CASE UNCHANGED tail
  <2>1. UNCHANGED <<log, own, lines, at, looked, todo, reads, adopted, again>>
    BY <1>3 DEF tail, reading, logFile
  <2>2. Unread' = Unread /\ Taken' = Taken /\ TailTypeOK'
    BY <2>1 DEF Unread, Taken, TailInv, TailTypeOK
  <2>3. InOrder(Taken)'
    BY <2>1, <2>2 DEF InOrder, TailInv
  <2> QED
    BY <2>1, <2>2, <2>3 DEF TailInv
<1> QED
  BY <1>1, <1>2, <1>3, WriteStartTailInv, WriteEndTailInv, LookTailInv, ReadTailInv,
     AdoptTailInv DEF TailNext

(* However long the log, however the thread's looks and reads fall between *)
(* the pieces of a line and wherever the log is started anew: a key from   *)
(* before the thread ran is adopted never, and one from after it once and  *)
(* in its order, but for the two cases the property names.                 *)
THEOREM KeysAreAdoptedOnce == TailSpec => []EachActivationOnce
<1>1. TailInv => EachActivationOnce
  <2> SUFFICES ASSUME TailInv PROVE EachActivationOnce
    OBVIOUS
  <2>1. /\ adopted \in Seq(Key) /\ todo \in Seq(Key)
        /\ Len(adopted) \in Nat /\ Len(todo) \in Nat /\ DOMAIN adopted = 1 .. Len(adopted)
    BY LenProperties DEF TailInv, TailTypeOK
  <2>2. /\ DOMAIN Taken = 1 .. Len(adopted) + Len(todo)
        /\ \A i \in 1 .. Len(adopted) : Taken[i] = adopted[i]
    BY <2>1, ConcatProperties, LenProperties DEF Taken
  <2>3. \A i \in DOMAIN adopted : i \in DOMAIN Taken /\ Taken[i] = adopted[i]
    BY <2>1, <2>2
  <2>4. History \in Nat /\ \A i \in DOMAIN adopted : adopted[i][1] \in Int
    BY <2>1, ElementOfSeq, TailAssumption DEF Key
  <2> QED
    BY <2>3, <2>4 DEF TailInv, EachActivationOnce, InOrder
<1> QED
  BY InitTailInv, StepTailInv, <1>1, PTL DEF TailSpec

-----------------------------------------------------------------------------

(* The settings file under one writer.  The inductive invariant says what  *)
(* the writer holds in each phase of a change: the last settings asked for *)
(* with its own edit, first in memory, then in the inode under the         *)
(* temporary name, or about to be in the emptied file.                     *)
OneWriter == Threads = {"api"}

Pen == writer["api"]
Body == Edited(asked, Pen.key, Pen.val)

NamesInv ==
  /\ writer \in [{"api"} -> [pc : {"idle"}] \cup
       [pc : {"open", "fill", "rename", "trunc", "refill"}, key : Settings, val : Values,
        body : Texts, fd : Inodes \cup {NoFile}]]
  /\ cfg \in Inodes /\ tmp \in Inodes \cup {NoFile} /\ tmp # cfg
  /\ DOMAIN data = Inodes /\ asked \in Texts
  /\ Pen.pc \in {"fill", "rename"} => Pen.fd = tmp /\ tmp # NoFile
  /\ Pen.pc = "refill" => Pen.fd = cfg
  /\ Pen.pc \in {"trunc", "refill"} => Pen.key = Toggle

(* What is kept as long as no write was cut short.                         *)
TextsInv == ~torn =>
  /\ Pen.pc = "idle" => data[cfg] \in {asked, Broken}
  /\ Pen.pc \in {"open", "fill", "rename", "trunc"} => data[cfg] = asked
  /\ Pen.pc # "idle" => Pen.body = Body
  /\ Pen.pc = "rename" => data[tmp] = Pen.body

(* A reader of a torn file still edits a text, not a typo.                 *)
ContentsInv == \A i \in Inodes : data[i] \in Texts \cup {Broken}

PenInv == NamesInv /\ ContentsInv /\ TextsInv

LEMMA InitPenInv ==
  ASSUME OneWriter
  PROVE  SettingsInit => PenInv
<1> SUFFICES ASSUME SettingsInit PROVE PenInv
  OBVIOUS
<1>1. writer = [t \in {"api"} |-> Resting] /\ Pen = Resting /\ Pen.pc = "idle"
  BY DEF SettingsInit, Resting4, OneWriter, Pen, Resting
<1>2. Empty \in Texts
  BY DEF Empty, Texts
<1> QED
  BY <1>1, <1>2 DEF SettingsInit, PenInv, NamesInv, ContentsInv, TextsInv, Inodes, NoFile, Resting

LEMMA EditIsText ==
  ASSUME NEW text \in Texts, NEW k \in Settings, NEW v \in Values
  PROVE  Edited(text, k, v) \in Texts
BY DEF Edited, Texts

LEMMA FreshIsFree ==
  ASSUME OneWriter, NamesInv, Pen.pc = "open", tmp = NoFile
  PROVE  Fresh \in Inodes /\ Fresh # cfg
<1> DEFINE S == Inodes \ ({cfg, tmp} \cup Held)
<1>1. Held = {}
  BY DEF Held, OneWriter, Pen
<1>2. S = (1 .. 4) \ {cfg} /\ cfg \in 1 .. 4
  BY <1>1 DEF NamesInv, Inodes, NoFile
<1>3. \E x \in S : \A y \in S : x <= y
  <2>1. CASE cfg = 1
    <3>1. 2 \in S /\ \A y \in S : 2 <= y
      BY <1>2, <2>1
    <3> QED
      BY <3>1
  <2>2. CASE cfg # 1
    <3>1. 1 \in S /\ \A y \in S : 1 <= y
      BY <1>2, <2>2
    <3> QED
      BY <3>1
  <2> QED
    BY <2>1, <2>2
<1> HIDE DEF S
<1>4. Min(S) \in S
  BY <1>3 DEF Min
<1>5. Fresh = Min(S)
  BY DEF Fresh, S
<1> QED
  BY <1>2, <1>4, <1>5 DEF Inodes

(* WriteConfigKey's steps.                                                 *)
LEMMA KeyWritten ==
  ASSUME OneWriter, PenInv, NEW t \in Threads,
         \/ \E k \in Keys(t), v \in Values : ReadConfig(t, k, v)
         \/ OpenTemp(t) \/ FillTemp(t) \/ Rename(t) \/ RenameFails(t)
  PROVE  PenInv'
<1>0. t = "api" /\ writer[t] = Pen
  BY DEF OneWriter, Pen
<1>1. ASSUME NEW k \in Keys(t), NEW v \in Values, ReadConfig(t, k, v) PROVE PenInv'
  <2>1. k \in Settings
    BY <1>0 DEF Keys
  <2>2. data[cfg] \in Texts /\ Edited(data[cfg], k, v) \in Texts
    BY <1>1, <2>1, EditIsText DEF PenInv, ContentsInv, NamesInv, ReadConfig
  <2> DEFINE body == Edited(data[cfg], k, v)
  <2>3. /\ Pen.pc = "idle" /\ UNCHANGED <<data, cfg, tmp, asked, torn>> /\ data[cfg] # Broken
        /\ Pen' = [pc |-> "open", key |-> k, val |-> v, body |-> body, fd |-> NoFile]
        /\ writer' \in [{"api"} -> {Pen'}]
    BY <1>0, <1>1 DEF ReadConfig, Idle, Pen, PenInv, NamesInv
  <2>4. NamesInv'
    BY <2>1, <2>2, <2>3 DEF PenInv, NamesInv
  <2>5. TextsInv'
    BY <2>3 DEF PenInv, TextsInv, Body
  <2> QED
    BY <2>3, <2>4, <2>5 DEF PenInv, ContentsInv
<1>2. CASE OpenTemp(t)
  <2> DEFINE i == IF tmp = NoFile THEN Fresh ELSE tmp
  <2>1. Pen.pc = "open"
    BY <1>0, <1>2 DEF OpenTemp
  <2>2. i \in Inodes /\ i # cfg /\ i # NoFile
    BY <2>1, FreshIsFree DEF PenInv, NamesInv, Inodes, NoFile
  <2>3. /\ tmp' = i /\ data' = [data EXCEPT ![i] = Empty] /\ UNCHANGED <<cfg, asked, torn>>
        /\ Pen' = [pc |-> "fill", key |-> Pen.key, val |-> Pen.val, body |-> Pen.body, fd |-> i]
        /\ writer' \in [{"api"} -> {Pen'}]
    BY <1>0, <1>2 DEF OpenTemp, GoWith, Pen, PenInv, NamesInv
  <2> HIDE DEF i
  <2>4. Empty \in Texts
    BY DEF Empty, Texts
  <2>5. NamesInv'
    <3>1. Pen.key \in Settings /\ Pen.val \in Values /\ Pen.body \in Texts
      BY <2>1 DEF PenInv, NamesInv, Pen
    <3>2. Pen' \in [pc : {"fill"}, key : Settings, val : Values, body : Texts, fd : {i}]
      BY <2>3, <3>1
    <3> QED
      BY <2>2, <2>3, <3>2 DEF PenInv, NamesInv
  <2>6. ContentsInv'
    BY <2>2, <2>3, <2>4 DEF PenInv, NamesInv, ContentsInv
  <2>7. TextsInv'
    BY <2>1, <2>2, <2>3 DEF PenInv, NamesInv, TextsInv, Body
  <2> QED
    BY <2>5, <2>6, <2>7 DEF PenInv
<1>3. CASE FillTemp(t)
  <2>1. Pen.pc = "fill" /\ Pen.fd = tmp /\ tmp \in Inodes /\ tmp # cfg /\ Pen.body \in Texts
    BY <1>0, <1>3 DEF FillTemp, PenInv, NamesInv, Pen
  <2>2. /\ \/ data' = [data EXCEPT ![tmp] = Pen.body] /\ torn' = torn
           \/ torn' /\ data' = data
        /\ UNCHANGED <<cfg, tmp, asked>>
        /\ Pen' = [Pen EXCEPT !.pc = "rename"] /\ writer' \in [{"api"} -> {Pen'}]
    BY <1>0, <1>3, <2>1 DEF FillTemp, Go, Pen, PenInv, NamesInv
  <2>3. /\ Pen'.pc = "rename" /\ Pen'.fd = Pen.fd /\ Pen'.key = Pen.key /\ Pen'.val = Pen.val
        /\ Pen'.body = Pen.body
        /\ Pen' \in [pc : {"rename"}, key : Settings, val : Values, body : Texts,
                     fd : Inodes \cup {NoFile}]
    BY <2>1, <2>2 DEF PenInv, NamesInv, Pen
  <2>4. NamesInv'
    BY <2>1, <2>2, <2>3 DEF PenInv, NamesInv
  <2>5. ContentsInv'
    BY <2>1, <2>2 DEF PenInv, NamesInv, ContentsInv
  <2>6. TextsInv'
    BY <2>1, <2>2, <2>3 DEF PenInv, NamesInv, TextsInv, Body
  <2> QED
    BY <2>4, <2>5, <2>6 DEF PenInv
<1>4. CASE Rename(t) \/ RenameFails(t)
  <2>1. Pen.pc = "rename" /\ UNCHANGED <<data, torn>> /\ tmp' = NoFile
        /\ Pen' = Resting /\ writer' \in [{"api"} -> {Resting}]
        /\ \/ tmp # NoFile /\ cfg' = tmp /\ asked' = Body
           \/ UNCHANGED <<cfg, asked>>
    BY <1>0, <1>4 DEF Rename, RenameFails, Pen, Body, Edited, PenInv, NamesInv
  <2>2. Body \in Texts
    BY <2>1, EditIsText DEF PenInv, NamesInv, Body, Pen
  <2>3. NamesInv'
    BY <2>1, <2>2 DEF PenInv, NamesInv, Resting, Inodes, NoFile
  <2>4. TextsInv'
    BY <2>1 DEF PenInv, NamesInv, TextsInv, Resting
  <2> QED
    BY <2>1, <2>3, <2>4 DEF PenInv, ContentsInv
<1> QED
  BY <1>1, <1>2, <1>3, <1>4

(* The cloud switch's steps.                                               *)
LEMMA ToggleWritten ==
  ASSUME OneWriter, PenInv,
         (\E v \in Values : AppendToggle(v) \/ ReadToggle(v)) \/ Truncate \/ Refill
  PROVE  PenInv'
<1>0. Toggle \in Settings
  BY SettingsAssumption
<1>1. ASSUME NEW v \in Values, AppendToggle(v) PROVE PenInv'
  <2>1. /\ Pen.pc = "idle" /\ UNCHANGED <<cfg, tmp, writer, torn>> /\ data[cfg] # Broken
        /\ data' = [data EXCEPT ![cfg] = Edited(data[cfg], Toggle, v)]
        /\ asked' = Edited(asked, Toggle, v)
    BY <1>1 DEF AppendToggle, Idle, Pen, Edited
  <2>2. Edited(asked, Toggle, v) \in Texts /\ Edited(data[cfg], Toggle, v) \in Texts
    BY <1>0, <2>1, EditIsText DEF PenInv, NamesInv, ContentsInv
  <2>3. NamesInv' /\ ContentsInv'
    BY <2>1, <2>2 DEF PenInv, NamesInv, ContentsInv, Pen
  <2>4. TextsInv'
    BY <2>1 DEF PenInv, NamesInv, TextsInv, Pen
  <2> QED
    BY <2>3, <2>4 DEF PenInv
<1>2. ASSUME NEW v \in Values, ReadToggle(v) PROVE PenInv'
  <2> DEFINE body == Edited(data[cfg], Toggle, v)
  <2>1. /\ Pen.pc = "idle" /\ UNCHANGED <<data, cfg, tmp, asked, torn>> /\ data[cfg] # Broken
        /\ Pen' = [pc |-> "trunc", key |-> Toggle, val |-> v, body |-> body, fd |-> NoFile]
        /\ writer' \in [{"api"} -> {Pen'}]
    BY <1>2 DEF ReadToggle, Idle, Pen, PenInv, NamesInv
  <2>2. body \in Texts
    BY <1>0, <2>1, EditIsText DEF PenInv, NamesInv, ContentsInv
  <2>3. NamesInv'
    BY <1>0, <2>1, <2>2 DEF PenInv, NamesInv
  <2>4. TextsInv'
    BY <2>1 DEF PenInv, TextsInv, Body
  <2> QED
    BY <2>1, <2>3, <2>4 DEF PenInv, ContentsInv
<1>3. CASE Truncate
  <2>1. /\ Pen.pc = "trunc" /\ UNCHANGED <<cfg, tmp, asked, torn>>
        /\ data' = [data EXCEPT ![cfg] = Empty]
        /\ Pen' = [pc |-> "refill", key |-> Pen.key, val |-> Pen.val, body |-> Pen.body, fd |-> cfg]
        /\ writer' \in [{"api"} -> {Pen'}]
    BY <1>3 DEF Truncate, GoWith, Pen, PenInv, NamesInv
  <2>2. Empty \in Texts
    BY DEF Empty, Texts
  <2>3. NamesInv'
    <3>1. Pen.key = Toggle /\ Pen.key \in Settings /\ Pen.val \in Values /\ Pen.body \in Texts
      BY <2>1 DEF PenInv, NamesInv, Pen
    <3>2. Pen' \in [pc : {"refill"}, key : {Toggle}, val : Values, body : Texts, fd : {cfg}]
      BY <2>1, <3>1
    <3> QED
      BY <1>0, <2>1, <3>2 DEF PenInv, NamesInv
  <2>4. ContentsInv'
    BY <2>1, <2>2 DEF PenInv, NamesInv, ContentsInv
  <2>5. TextsInv'
    BY <2>1 DEF PenInv, NamesInv, TextsInv, Body
  <2> QED
    BY <2>3, <2>4, <2>5 DEF PenInv
<1>4. CASE Refill
  <2>1. /\ Pen.pc = "refill" /\ Pen.fd = cfg /\ Pen.key = Toggle /\ Pen.body \in Texts
        /\ Pen.val \in Values
    BY <1>4 DEF Refill, Pen, PenInv, NamesInv
  <2>2. /\ UNCHANGED <<cfg, tmp>> /\ asked' = Body
        /\ \/ data' = [data EXCEPT ![cfg] = Pen.body] /\ torn' = torn
           \/ torn' /\ data' = data
        /\ Pen' = Resting /\ writer' \in [{"api"} -> {Resting}]
    BY <1>4, <2>1 DEF Refill, Pen, PenInv, NamesInv, Body, Edited
  <2>3. Body \in Texts
    BY <1>0, <2>1, EditIsText DEF PenInv, NamesInv, Body
  <2>4. NamesInv'
    BY <2>1, <2>2, <2>3 DEF PenInv, NamesInv, Resting
  <2>5. ContentsInv'
    BY <2>1, <2>2 DEF PenInv, NamesInv, ContentsInv
  <2>6. TextsInv'
    BY <2>1, <2>2 DEF PenInv, NamesInv, TextsInv, Resting
  <2> QED
    BY <2>4, <2>5, <2>6 DEF PenInv
<1> QED
  BY <1>1, <1>2, <1>3, <1>4

LEMMA UserWrites ==
  ASSUME OneWriter, PenInv, UserEdits
  PROVE  PenInv'
<1>1. Pen.pc = "idle" /\ UNCHANGED <<cfg, tmp, writer, torn>> /\ asked \in Texts
  BY DEF UserEdits, Quiet, Idle, OneWriter, Pen, PenInv, NamesInv
<1>2. PICK text \in Texts \cup {Broken} :
        /\ data' = [data EXCEPT ![cfg] = text]
        /\ asked' \in Texts /\ text \in {asked', Broken}
  <2>1. CASE \E k \in Settings, v \in Values :
               data' = [data EXCEPT ![cfg] = Edited(asked, k, v)] /\ asked' = Edited(asked, k, v)
    BY <1>1, <2>1, EditIsText
  <2>2. CASE data' = [data EXCEPT ![cfg] = Broken] /\ UNCHANGED asked
    BY <1>1, <2>2
  <2>3. CASE data' = [data EXCEPT ![cfg] = asked] /\ UNCHANGED asked
    BY <1>1, <2>3
  <2> QED
    BY <2>1, <2>2, <2>3 DEF UserEdits
<1>3. NamesInv' /\ ContentsInv'
  BY <1>1, <1>2 DEF PenInv, NamesInv, ContentsInv, Pen
<1>4. TextsInv'
  BY <1>1, <1>2 DEF PenInv, NamesInv, TextsInv, Pen
<1> QED
  BY <1>3, <1>4 DEF PenInv

LEMMA NextPenInv ==
  ASSUME OneWriter
  PROVE  PenInv /\ [SettingsNext]_settings => PenInv'
<1> SUFFICES ASSUME PenInv, [SettingsNext]_settings PROVE PenInv'
  OBVIOUS
<1>1. CASE DrainEvents \/ ParseFile \/ ApplySnapshot \/ UNCHANGED settings
  <2>1. UNCHANGED <<data, cfg, tmp, writer, asked, torn>>
    BY <1>1 DEF DrainEvents, ParseFile, ApplySnapshot, settings
  <2> QED
    BY <2>1 DEF PenInv, NamesInv, ContentsInv, TextsInv, Pen, Body
<1>2. CASE Restart
  <2>1. /\ UNCHANGED <<data, cfg, tmp, asked>> /\ (torn \/ Pen.pc = "refill" => torn')
        /\ Pen' = Resting /\ writer' \in [{"api"} -> {Resting}]
    BY <1>2 DEF Restart, Resting4, OneWriter, Pen
  <2>2. NamesInv' /\ ContentsInv'
    BY <2>1 DEF PenInv, NamesInv, ContentsInv, Resting
  <2>3. Pen.pc \in {"idle", "open", "fill", "rename", "trunc", "refill"}
    BY DEF PenInv, NamesInv, Pen
  <2>4. TextsInv'
    BY <2>1, <2>3 DEF PenInv, TextsInv, Resting
  <2> QED
    BY <2>2, <2>4 DEF PenInv
<1> QED
  BY <1>1, <1>2, KeyWritten, ToggleWritten, UserWrites DEF SettingsNext

(* With the API as the only writer the file says, between two writes, what *)
(* was last asked for, for any settings and values, after any crash that   *)
(* cut no write short, and however the user edits between: it is the       *)
(* console-log watcher's writes, which take no lock, that lose a setting   *)
(* (WriteConfigKey, JsonCloudEnable, JsonCloudDisable).                    *)
THEOREM OneWriterKeepsSettings ==
  ASSUME OneWriter
  PROVE  SettingsSteps => []SettingsKept
<1>1. PenInv => SettingsKept
  BY DEF PenInv, TextsInv, SettingsKept, Quiet, Idle, OneWriter, Pen
<1> QED
  BY InitPenInv, NextPenInv, <1>1, PTL DEF SettingsSteps

-----------------------------------------------------------------------------

(* The browser's frames.  What has come and what is on its way make one    *)
(* stream; the inductive invariant says of every header in it that its     *)
(* frame follows whole, and after it the next frame's header or the end.   *)
CellSet == Nat \X Nat

FrameAt(s, i, sizes) ==
  LET f == s[i][1]
  IN  /\ f \in 1 .. Len(sizes) /\ i + sizes[f] <= Len(s)
      /\ \A k \in 0 .. sizes[f] : s[i + k] = <<f, k>>
      /\ i + sizes[f] = Len(s) => f = Len(sizes)
      /\ i + sizes[f] < Len(s) => s[i + sizes[f] + 1] = <<f + 1, 0>>

Stream(s, d, sizes) ==
  /\ s \in Seq(CellSet)
  /\ s = <<>> => d = Len(sizes)
  /\ s # <<>> => s[1] = <<d + 1, 0>>
  /\ \A i \in 1 .. Len(s) : s[i][2] = 0 => FrameAt(s, i, sizes)

FramesInv ==
  /\ sent \in Seq(Nat) /\ rest \in Seq(CellSet) /\ wire \in Seq(CellSet)
  /\ taken \in Seq(Seq(CellSet)) /\ Len(taken) <= Len(sent)
  /\ Stream(rest \o wire, Len(taken), sent)
  /\ FramesComeWhole

LEMMA CellsAreCells ==
  ASSUME NEW f \in Nat, NEW n \in Nat
  PROVE  /\ Cells(f, n) \in Seq(CellSet) /\ Len(Cells(f, n)) = n + 1
         /\ \A k \in 1 .. n + 1 : Cells(f, n)[k] = <<f, k - 1>>
BY DEF Cells, CellSet

LEMMA Joined ==
  ASSUME NEW a \in Seq(CellSet), NEW b \in Seq(CellSet)
  PROVE  /\ a \o b \in Seq(CellSet) /\ Len(a \o b) = Len(a) + Len(b)
         /\ \A k \in 1 .. Len(a) : (a \o b)[k] = a[k]
         /\ \A k \in 1 .. Len(b) : (a \o b)[Len(a) + k] = b[k]
<1>1. Len(a) \in Nat /\ Len(b) \in Nat
  OBVIOUS
<1>2. ASSUME NEW k \in 1 .. Len(b) PROVE (a \o b)[Len(a) + k] = b[k]
  <2>1. Len(a) + k \in 1 .. Len(a) + Len(b) /\ ~(Len(a) + k <= Len(a)) /\ (Len(a) + k) - Len(a) = k
    BY <1>1
  <2> QED
    BY <2>1, ConcatProperties
<1> QED
  BY <1>1, <1>2, ConcatProperties

LEMMA Regrouped ==
  ASSUME NEW a \in Seq(CellSet), NEW b \in Seq(CellSet), NEW c \in Seq(CellSet)
  PROVE  (a \o b) \o c = a \o (b \o c)
BY ConcatAssociative

LEMMA FrameSent ==
  ASSUME NEW sizes \in Seq(Nat), NEW n \in Nat, NEW d \in Nat, NEW s, Stream(s, d, sizes)
  PROVE  Stream(s \o Cells(Len(sizes) + 1, n), d, Append(sizes, n))
<1> DEFINE g == Len(sizes) + 1
           c == Cells(g, n)
           z == s \o c
           more == Append(sizes, n)
           l == Len(s)
<1>1. g \in Nat /\ l \in Nat /\ s \in Seq(CellSet) /\ Len(sizes) \in Nat /\ g = Len(sizes) + 1
  BY DEF Stream
<1>2. c \in Seq(CellSet) /\ Len(c) = n + 1 /\ \A k \in 1 .. n + 1 : c[k] = <<g, k - 1>>
  BY <1>1, CellsAreCells
<1>3. z \in Seq(CellSet) /\ Len(z) = l + n + 1 /\ Len(z) \in Nat
  <2>1. z \in Seq(CellSet) /\ Len(z) = l + Len(c)
    BY <1>1, <1>2, Joined
  <2> QED
    BY <1>1, <1>2, <2>1
<1>4. \A k \in 1 .. l : z[k] = s[k]
  BY <1>1, <1>2, Joined
<1>5. ASSUME NEW k \in 1 .. n + 1 PROVE z[l + k] = <<g, k - 1>>
  <2>1. z[l + k] = c[k]
    BY <1>1, <1>2, Joined
  <2> QED
    BY <1>2, <2>1
<1>6. /\ more \in Seq(Nat) /\ Len(more) = g /\ more[g] = n
      /\ \A f \in 1 .. Len(sizes) : more[f] = sizes[f] /\ sizes[f] \in Nat
  BY <1>1
<1>7. s # <<>> => l > 0
  BY <1>1
<1>8. s = <<>> => l = 0
  OBVIOUS
<1>9. /\ s = <<>> => d = Len(sizes)
      /\ s # <<>> => s[1] = <<d + 1, 0>>
      /\ \A i \in 1 .. l : s[i][2] = 0 => FrameAt(s, i, sizes)
  BY DEF Stream
<1>l. l = Len(s)
  OBVIOUS
<1> HIDE DEF c, z, more, l, g
<1>10. z # <<>> /\ z[1] = <<d + 1, 0>>
  <2>1. z # <<>>
    BY <1>1, <1>3
  <2>2. CASE s = <<>>
    <3>1. 1 \in 1 .. n + 1 /\ l + 1 = 1 /\ 1 - 1 = 0 /\ g = d + 1
      BY <1>1, <1>8, <1>9, <2>2
    <3>2. z[l + 1] = <<g, 1 - 1>>
      BY <1>5, <3>1
    <3> QED
      BY <2>1, <3>1, <3>2
  <2>3. CASE s # <<>>
    <3>1. 1 \in 1 .. l
      BY <1>1, <1>7, <2>3
    <3> QED
      BY <1>4, <1>9, <2>1, <2>3, <3>1
  <2> QED
    BY <2>2, <2>3
<1>11. ASSUME NEW i \in 1 .. Len(z), z[i][2] = 0
       PROVE  FrameAt(z, i, more)
  <2>1. CASE i <= l
    <3> DEFINE f == s[i][1]
               w == sizes[f]
    <3>1. i \in 1 .. l /\ i \in Nat
      BY <1>1, <1>3, <2>1
    <3>2. z[i] = s[i]
      BY <1>4, <3>1
    <3>3. FrameAt(s, i, sizes)
      BY <1>9, <1>11, <3>1, <3>2
    <3>4. /\ f \in 1 .. Len(sizes) /\ i + w <= l
          /\ \A k \in 0 .. w : s[i + k] = <<f, k>>
          /\ i + w = l => f = Len(sizes)
          /\ i + w < l => s[i + w + 1] = <<f + 1, 0>>
      BY <1>l, <3>3 DEF FrameAt
    <3>5. w \in Nat /\ more[f] = w /\ f = z[i][1]
      BY <1>6, <3>2, <3>4
    <3> HIDE DEF f, w
    <3>6. i + w <= l /\ f \in Nat /\ f \in 1 .. g /\ i + w < Len(z)
      <4>1. i + w <= l /\ f \in 1 .. Len(sizes)
        BY <3>4
      <4> QED
        BY <1>1, <1>3, <3>1, <3>5, <4>1
    <3>7. ASSUME NEW k \in 0 .. w PROVE z[i + k] = <<f, k>>
      <4>1. i + k \in 1 .. l
        BY <1>1, <3>1, <3>5, <3>6
      <4> QED
        BY <1>4, <3>4, <4>1
    <3>8. z[i + w + 1] = <<f + 1, 0>>
      <4>1. CASE i + w = l
        <5>1. f = Len(sizes)
          BY <3>4, <4>1
        <5>2. f + 1 = g /\ 1 \in 1 .. n + 1 /\ 1 - 1 = 0
          BY <1>1, <5>1
        <5>3. z[l + 1] = <<g, 1 - 1>>
          BY <1>5, <5>2
        <5> QED
          BY <4>1, <5>2, <5>3
      <4>2. CASE i + w < l
        <5>1. i + w + 1 \in 1 .. l
          BY <1>1, <3>1, <3>5, <4>2
        <5>2. s[i + w + 1] = <<f + 1, 0>>
          BY <3>4, <4>2
        <5> QED
          BY <1>4, <5>1, <5>2
      <4> QED
        BY <1>1, <3>1, <3>5, <3>6, <4>1, <4>2
    <3>9. i + w # Len(z)
      BY <1>3, <3>1, <3>5, <3>6
    <3>10. i + w <= Len(z) /\ f \in 1 .. Len(more)
      BY <1>3, <1>6, <3>1, <3>5, <3>6
    <3> QED
      BY <3>5, <3>7, <3>8, <3>9, <3>10 DEF FrameAt
  <2>2. CASE i > l
    <3>1. i - l \in 1 .. n + 1 /\ i = l + (i - l) /\ i \in Nat
      BY <1>1, <1>3, <2>2
    <3>2. z[l + (i - l)] = <<g, (i - l) - 1>>
      BY <1>5, <3>1
    <3>3. (i - l) - 1 = 0 /\ z[i][1] = g
      BY <1>11, <3>1, <3>2
    <3>4. i = l + 1 /\ i + n = Len(z)
      BY <1>1, <1>3, <3>1, <3>3
    <3>5. ASSUME NEW k \in 0 .. n PROVE z[i + k] = <<g, k>>
      <4>1. k + 1 \in 1 .. n + 1 /\ i + k = l + (k + 1) /\ (k + 1) - 1 = k
        BY <1>1, <3>4
      <4>2. z[l + (k + 1)] = <<g, (k + 1) - 1>>
        BY <1>5, <4>1
      <4> QED
        BY <4>1, <4>2
    <3>6. g \in 1 .. Len(more) /\ more[g] = n /\ g = Len(more)
      BY <1>1, <1>6
    <3>7. i + n <= Len(z) /\ ~(i + n < Len(z))
      BY <1>3, <3>4
    <3> QED
      BY <3>3, <3>5, <3>6, <3>7 DEF FrameAt
  <2> QED
    BY <1>1, <1>3, <2>1, <2>2
<1> QED
  BY <1>3, <1>10, <1>11 DEF Stream, z, more, c, g

LEMMA FrameTaken ==
  ASSUME NEW sizes \in Seq(Nat), NEW d \in Nat, NEW s, Stream(s, d, sizes), s # <<>>
  PROVE  /\ d + 1 \in 1 .. Len(sizes) /\ sizes[d + 1] < Len(s)
         /\ SubSeq(s, 1, sizes[d + 1] + 1) = Cells(d + 1, sizes[d + 1])
         /\ Stream(SubSeq(s, sizes[d + 1] + 2, Len(s)), d + 1, sizes)
<1> DEFINE f == d + 1
           m == sizes[f]
           z == SubSeq(s, m + 2, Len(s))
<1>1. s \in Seq(CellSet) /\ Len(s) \in Nat /\ 1 \in 1 .. Len(s) /\ s[1] = <<f, 0>>
  BY DEF Stream
<1>2. FrameAt(s, 1, sizes)
  BY <1>1 DEF Stream
<1>3. /\ f \in 1 .. Len(sizes) /\ m \in Nat /\ 1 + m <= Len(s)
      /\ \A k \in 0 .. m : s[1 + k] = <<f, k>>
      /\ 1 + m = Len(s) => f = Len(sizes)
      /\ 1 + m < Len(s) => s[1 + m + 1] = <<f + 1, 0>>
  BY <1>1, <1>2, SMTT(30) DEF FrameAt
<1> HIDE DEF m
<1>4. SubSeq(s, 1, m + 1) = Cells(f, m)
  <2>1. /\ Cells(f, m) \in Seq(CellSet) /\ Len(Cells(f, m)) = m + 1
        /\ \A k \in 1 .. m + 1 : Cells(f, m)[k] = <<f, k - 1>>
    <3>1. f \in Nat /\ m \in Nat
      BY <1>3
    <3> HIDE DEF f
    <3> QED
      BY <3>1, CellsAreCells
  <2>2. /\ SubSeq(s, 1, m + 1) \in Seq(CellSet) /\ Len(SubSeq(s, 1, m + 1)) = m + 1
        /\ \A k \in 1 .. m + 1 : SubSeq(s, 1, m + 1)[k] = s[k]
    BY <1>1, <1>3
  <2>3. ASSUME NEW k \in 1 .. m + 1 PROVE s[k] = <<f, k - 1>>
    <3>1. k - 1 \in 0 .. m /\ 1 + (k - 1) = k
      BY <1>3
    <3> QED
      BY <1>3, <3>1
  <2> QED
    BY <2>1, <2>2, <2>3, SeqEqual, ZenonT(30)
<1>5. /\ z \in Seq(CellSet) /\ Len(z) = Len(s) - m - 1
      /\ \A k \in 1 .. Len(z) : z[k] = s[k + m + 1]
  BY <1>1, <1>3
<1> HIDE DEF z
<1>6. z = <<>> => f = Len(sizes)
  BY <1>1, <1>3, <1>5
<1>7. z # <<>> => z[1] = <<f + 1, 0>>
  <2> SUFFICES ASSUME z # <<>> PROVE z[1] = <<f + 1, 0>>
    OBVIOUS
  <2>1. Len(z) \in Nat \ {0}
    BY <1>5
  <2>2. 1 \in 1 .. Len(z) /\ 1 + m < Len(s) /\ 1 + m + 1 = m + 2
    <3>1. m \in Nat /\ Len(s) \in Nat /\ Len(z) = Len(s) - m - 1
      BY <1>1, <1>3, <1>5
    <3> QED
      BY <2>1, <3>1
  <2>3. z[1] = s[1 + m + 1]
    BY <1>5, <2>2
  <2> QED
    BY <1>3, <2>2, <2>3
<1>8. ASSUME NEW i \in 1 .. Len(z), z[i][2] = 0
      PROVE  FrameAt(z, i, sizes)
  <2> DEFINE h == z[i][1]
             j == i + m + 1
  <2>0. m \in Nat /\ Len(s) \in Nat /\ Len(z) \in Nat /\ Len(z) = Len(s) - m - 1 /\ i \in 1 .. Len(z)
    BY <1>1, <1>3, <1>5
  <2>1. j \in 1 .. Len(s) /\ s[j] = z[i]
    <3>1. j \in 1 .. Len(s)
      BY <2>0
    <3> QED
      BY <1>5, <3>1
  <2>2. FrameAt(s, j, sizes)
    BY <1>8, <2>1 DEF Stream
  <2>3. /\ h \in 1 .. Len(sizes) /\ j + sizes[h] <= Len(s)
        /\ \A k \in 0 .. sizes[h] : s[j + k] = <<h, k>>
        /\ j + sizes[h] = Len(s) => h = Len(sizes)
        /\ j + sizes[h] < Len(s) => s[j + sizes[h] + 1] = <<h + 1, 0>>
    <3>1. s[j][1] = h
      BY <2>1
    <3> HIDE DEF h, j
    <3> QED
      BY <2>2, <3>1 DEF FrameAt
  <2> DEFINE w == sizes[h]
  <2>4. /\ j \in Nat /\ j = i + m + 1 /\ w \in Nat /\ h \in Nat /\ j + w <= Len(s)
        /\ j + w = Len(s) => h = Len(sizes)
    <3>1. w \in Nat /\ h \in Nat
      BY <2>3
    <3>2. j \in Nat /\ j = i + m + 1
      BY <2>0
    <3>3. j + w <= Len(s) /\ (j + w = Len(s) => h = Len(sizes))
      BY <2>3
    <3> QED
      BY <3>1, <3>2, <3>3
  <2>h. h = z[i][1] /\ w = sizes[h]
    OBVIOUS
  <2> HIDE DEF h, j, w
  <2>5. i + w <= Len(z) /\ (i + w = Len(z) => h = Len(sizes))
    BY <2>0, <2>4
  <2>6. ASSUME NEW k \in 0 .. w PROVE z[i + k] = <<h, k>>
    <3>1. i + k \in 1 .. Len(z) /\ (i + k) + m + 1 = j + k
      BY <2>0, <2>4, <2>5
    <3>2. s[j + k] = <<h, k>>
      BY <2>3, <2>h
    <3>3. z[i + k] = s[(i + k) + m + 1]
      BY <1>5, <3>1
    <3> QED
      BY <3>1, <3>2, <3>3
  <2>7. ASSUME i + w < Len(z) PROVE z[i + w + 1] = <<h + 1, 0>>
    <3>1. /\ i + w + 1 \in 1 .. Len(z) /\ (i + w + 1) + m + 1 = j + w + 1
          /\ j + w < Len(s)
      BY <2>0, <2>4, <2>7
    <3>2. s[j + w + 1] = <<h + 1, 0>>
      BY <2>3, <2>h, <3>1
    <3>3. z[i + w + 1] = s[(i + w + 1) + m + 1]
      BY <1>5, <3>1
    <3> QED
      BY <3>1, <3>2, <3>3
  <2>8. h \in 1 .. Len(sizes)
    BY <2>3
  <2> QED
    BY <2>h, <2>5, <2>6, <2>7, <2>8 DEF FrameAt
<1>9. Stream(z, f, sizes)
  BY <1>5, <1>6, <1>7, <1>8 DEF Stream
<1> QED
  BY <1>3, <1>4, <1>9 DEF m, z

(* Cutting the stream into what has come and what has not changes nothing. *)
LEMMA StreamRead ==
  ASSUME NEW a \in Seq(CellSet), NEW b \in Seq(CellSet), NEW n \in 1 .. Len(b)
  PROVE  /\ a \o SubSeq(b, 1, n) \in Seq(CellSet) /\ SubSeq(b, n + 1, Len(b)) \in Seq(CellSet)
         /\ (a \o SubSeq(b, 1, n)) \o SubSeq(b, n + 1, Len(b)) = a \o b
<1> DEFINE u == SubSeq(b, 1, n)
           v == SubSeq(b, n + 1, Len(b))
<1>1. u \in Seq(CellSet) /\ v \in Seq(CellSet)
  OBVIOUS
<1>2. u \o v = b
  <2>1. 1 \in 1 .. Len(b) + 1 /\ n \in 1 - 1 .. Len(b) /\ Len(b) \in n .. Len(b)
    OBVIOUS
  <2>2. u \o v = SubSeq(b, 1, Len(b))
    BY <2>1, ConcatAdjacentSubSeq
  <2> QED
    BY <2>2, SubSeqFull
<1> HIDE DEF u, v
<1>3. (a \o u) \o v = a \o (u \o v)
  BY <1>1, ConcatAssociative, SMTT(30)
<1>4. a \o u \in Seq(CellSet)
  BY <1>1, Joined
<1> QED
  BY <1>1, <1>2, <1>3, <1>4 DEF u, v

LEMMA RestOfConcat ==
  ASSUME NEW a \in Seq(CellSet), NEW b \in Seq(CellSet)
  PROVE  SubSeq(a \o b, Len(a) + 1, Len(a \o b)) = b
<1>1. Len(a) \in Nat /\ Len(b) \in Nat /\ Len(a \o b) = Len(a) + Len(b)
  OBVIOUS
<1>2. CASE Len(b) = 0
  <2>1. b = <<>> /\ Len(a \o b) < Len(a) + 1
    BY <1>1, <1>2
  <2> QED
    BY <1>1, <2>1, SubSeqEmpty
<1>3. CASE Len(b) # 0
  <2>1. /\ Len(a) + 1 \in Len(a) + 1 .. Len(a) + Len(b)
        /\ Len(a) + Len(b) \in Len(a) + 1 .. Len(a) + Len(b)
        /\ (Len(a) + 1) - Len(a) = 1 /\ (Len(a) + Len(b)) - Len(a) = Len(b)
    BY <1>1, <1>3
  <2>2. SubSeq(a \o b, Len(a) + 1, Len(a) + Len(b)) = SubSeq(b, 1, Len(b))
    BY <2>1, SubSeqOfConcat2
  <2> QED
    BY <1>1, <2>2, SubSeqFull
<1> QED
  BY <1>2, <1>3

LEMMA StreamSplit ==
  ASSUME NEW a \in Seq(CellSet), NEW b \in Seq(CellSet), NEW m \in 1 .. Len(a)
  PROVE  /\ SubSeq(a \o b, 1, m) = SubSeq(a, 1, m)
         /\ SubSeq(a \o b, m + 1, Len(a \o b)) = SubSeq(a, m + 1, Len(a)) \o b
<1> DEFINE u == SubSeq(a, 1, m)
           v == SubSeq(a, m + 1, Len(a))
<1>1. u \in Seq(CellSet) /\ v \in Seq(CellSet) /\ Len(u) = m
  OBVIOUS
<1>2. u \o v = a
  <2>1. 1 \in 1 .. Len(a) + 1 /\ m \in 1 - 1 .. Len(a) /\ Len(a) \in m .. Len(a)
    OBVIOUS
  <2>2. u \o v = SubSeq(a, 1, Len(a))
    BY <2>1, ConcatAdjacentSubSeq
  <2> QED
    BY <2>2, SubSeqFull
<1>3. SubSeq(a \o b, 1, m) = u
  <2>1. 1 \in 1 .. Len(a)
    OBVIOUS
  <2> QED
    BY <2>1, SubSeqOfConcat1
<1> HIDE DEF u, v
<1>4. a \o b = u \o (v \o b) /\ v \o b \in Seq(CellSet)
  <2>1. (u \o v) \o b = u \o (v \o b)
    <3>1. u \in Seq(CellSet) /\ v \in Seq(CellSet) /\ b \in Seq(CellSet)
      BY <1>1
    <3> QED
      BY <3>1, Regrouped, Zenon
  <2>2. v \o b \in Seq(CellSet)
    BY <1>1, Joined
  <2> QED
    BY <1>2, <2>1, <2>2
<1>5. SubSeq(a \o b, m + 1, Len(a \o b)) = v \o b
  BY <1>1, <1>4, RestOfConcat, ZenonT(30)
<1> QED
  BY <1>3, <1>5 DEF u, v

LEMMA InitFramesInv == CdpInit => FramesInv
<1> SUFFICES ASSUME CdpInit PROVE FramesInv
  OBVIOUS
<1>1. /\ sent = <<>> /\ wire = <<>> /\ rest = <<>> /\ taken = <<>> /\ <<>> \o <<>> = <<>>
      /\ Len(<<>>) = 0 /\ <<>> \in Seq(CellSet) /\ <<>> \in Seq(Nat) /\ <<>> \in Seq(Seq(CellSet))
  BY DEF CdpInit
<1> QED
  BY <1>1 DEF FramesInv, Stream, FramesComeWhole

LEMMA NextFramesInv == FramesInv /\ [CdpNext]_cdp => FramesInv'
<1> SUFFICES ASSUME FramesInv, [CdpNext]_cdp PROVE FramesInv'
  OBVIOUS
<1>0. /\ sent \in Seq(Nat) /\ rest \in Seq(CellSet) /\ wire \in Seq(CellSet)
      /\ taken \in Seq(Seq(CellSet)) /\ Len(taken) <= Len(sent)
      /\ Len(taken) \in Nat /\ Len(sent) \in Nat /\ DOMAIN taken = 1 .. Len(taken)
      /\ Stream(rest \o wire, Len(taken), sent)
      /\ \A f \in 1 .. Len(taken) : taken[f] = Cells(f, sent[f])
  BY DEF FramesInv, FramesComeWhole
<1>1. ASSUME NEW n \in Sizes, PeerSends(n) PROVE FramesInv'
  <2> DEFINE c == Cells(Len(sent) + 1, n)
  <2>0. n \in Nat /\ Len(sent) + 1 \in Nat
    BY <1>0, CdpAssumption
  <2>1. n \in Nat /\ c \in Seq(CellSet)
    BY <2>0, CellsAreCells
  <2>2. sent' = Append(sent, n) /\ wire' = wire \o c /\ UNCHANGED <<rest, taken>>
    BY <1>1 DEF PeerSends
  <2>3. Stream((rest \o wire) \o c, Len(taken), Append(sent, n))
    BY <1>0, <2>1, FrameSent
  <2> HIDE DEF c
  <2>4. (rest \o wire) \o c = rest \o (wire \o c) /\ wire \o c \in Seq(CellSet)
    BY <1>0, <2>1, ConcatAssociative, SMTT(30)
  <2>5. /\ Append(sent, n) \in Seq(Nat) /\ Len(taken) <= Len(Append(sent, n))
        /\ \A f \in 1 .. Len(taken) : Append(sent, n)[f] = sent[f]
    BY <1>0, <2>1
  <2> QED
    BY <1>0, <2>2, <2>3, <2>4, <2>5 DEF FramesInv, FramesComeWhole
<1>2. CASE PeerCloses \/ UNCHANGED cdp
  BY <1>2 DEF PeerCloses, cdp, FramesInv, FramesComeWhole
<1>3. CASE Recv
  <2>1. PICK n \in 1 .. Len(wire) : /\ rest' = rest \o SubSeq(wire, 1, n)
                                    /\ wire' = SubSeq(wire, n + 1, Len(wire))
                                    /\ UNCHANGED <<sent, taken>>
    BY <1>3 DEF Recv
  <2>2. rest' \in Seq(CellSet) /\ wire' \in Seq(CellSet) /\ rest' \o wire' = rest \o wire
    BY <1>0, <2>1, StreamRead
  <2> QED
    BY <1>0, <2>1, <2>2 DEF FramesInv, FramesComeWhole
<1>4. CASE Take
  <2> DEFINE d == Len(taken)
             m == sent[d + 1]
             s == rest \o wire
  <2>1. rest # <<>> /\ Len(rest) \in Nat \ {0} /\ s # <<>> /\ s[1] = rest[1]
    <3>1. rest # <<>>
      BY <1>4 DEF Take, Whole
    <3>2. Len(rest) \in Nat \ {0} /\ 1 \in 1 .. Len(rest)
      BY <1>0, <3>1
    <3>3. s[1] = rest[1] /\ s \in Seq(CellSet) /\ Len(s) = Len(rest) + Len(wire)
      BY <1>0, <3>2, Joined
    <3>4. Len(s) # 0
      BY <1>0, <3>2, <3>3
    <3> QED
      BY <3>1, <3>2, <3>3, <3>4
  <2>2. Head(rest)[1] = d + 1
    BY <1>0, <2>1 DEF Stream
  <2>3. /\ Len(rest) > m /\ taken' = Append(taken, SubSeq(rest, 1, m + 1))
        /\ rest' = SubSeq(rest, m + 2, Len(rest)) /\ UNCHANGED <<sent, wire>>
    BY <1>4, <2>2 DEF Take, Whole
  <2>4. /\ d + 1 \in 1 .. Len(sent) /\ SubSeq(s, 1, m + 1) = Cells(d + 1, m)
        /\ Stream(SubSeq(s, m + 2, Len(s)), d + 1, sent)
    BY <1>0, <2>1, FrameTaken
  <2>5. m \in Nat /\ m + 1 \in 1 .. Len(rest) /\ m + 2 = (m + 1) + 1
    <3>1. m \in Nat
      BY <1>0, <2>4
    <3>2. Len(rest) > m
      BY <2>3
    <3> HIDE DEF m
    <3> QED
      BY <2>1, <3>1, <3>2
  <2> HIDE DEF m
  <2>6. /\ SubSeq(s, 1, m + 1) = SubSeq(rest, 1, m + 1)
        /\ SubSeq(s, m + 2, Len(s)) = SubSeq(rest, m + 2, Len(rest)) \o wire
    BY <1>0, <2>5, StreamSplit, ZenonT(30)
  <2>7. rest' \in Seq(CellSet) /\ SubSeq(rest, 1, m + 1) \in Seq(CellSet)
    BY <1>0, <2>3, <2>5
  <2>8. Stream(rest' \o wire', d + 1, sent)
    BY <2>3, <2>4, <2>6
  <2>9. /\ taken' \in Seq(Seq(CellSet)) /\ Len(taken') = d + 1
        /\ taken'[d + 1] = Cells(d + 1, m)
        /\ \A f \in 1 .. d : taken'[f] = taken[f]
    <3>1. SubSeq(rest, 1, m + 1) = Cells(d + 1, m)
      BY <2>4, <2>6
    <3> DEFINE e == SubSeq(rest, 1, m + 1)
    <3>2. e \in Seq(CellSet) /\ taken' = Append(taken, e) /\ e = Cells(d + 1, m)
      BY <2>3, <2>7, <3>1
    <3> HIDE DEF e
    <3>3. taken' \in Seq(Seq(CellSet)) /\ Len(taken') = d + 1 /\ taken'[d + 1] = e
      BY <1>0, <3>2, AppendProperties
    <3>4. \A f \in 1 .. d : taken'[f] = taken[f]
      BY <1>0, <3>2, AppendProperties
    <3> QED
      BY <3>2, <3>3, <3>4
  <2>10. ASSUME NEW f \in DOMAIN taken' PROVE taken'[f] = Cells(f, sent[f])
    <3>1. f \in 1 .. d \/ f = d + 1
      BY <1>0, <2>9
    <3> QED
      BY <1>0, <2>9, <3>1 DEF m
  <2>11. /\ sent' = sent /\ wire' = wire /\ d + 1 <= Len(sent)
        /\ Stream(rest' \o wire', Len(taken'), sent')
    BY <1>0, <2>3, <2>4, <2>8, <2>9
  <2> QED
    BY <1>0, <2>7, <2>9, <2>10, <2>11 DEF FramesInv, FramesComeWhole
<1> QED
  BY <1>1, <1>2, <1>3, <1>4 DEF CdpNext

(* Frames come out whole and in order, for any sizes and however the       *)
(* stream is cut between timeouts (Recv, LuaFlipperUI.cpp).                *)
THEOREM FramesStayWhole == CdpSpec => []FramesComeWhole
<1>1. FramesInv => FramesComeWhole
  BY DEF FramesInv
<1> QED
  BY InitFramesInv, NextFramesInv, <1>1, PTL DEF CdpSpec

(* The number of a header, as it is built up.                              *)
ReadsAs(h, number) ==
  /\ number \in [1 .. Len(h) -> Nat]
  /\ number[1] = 0
  /\ \A i \in 2 .. Len(h) : number[i] = 256 * number[i - 1] + h[i]
  /\ LengthRead(h) = IF h[1] < 126 THEN h[1] ELSE number[Len(h)]

(* A header gives a number digit by digit.                                 *)
LEMMA NumberRead ==
  ASSUME NEW head \in Seq(Nat), head # <<>>
  PROVE  \E number : ReadsAs(head, number)
<1> DEFINE last == Len(head) - 1
           step == [p \in (1 .. last) \X Nat |-> 256 * p[2] + head[p[1] + 1]]
           Is(f) == f = [i \in 1 .. Len(head) |-> IF i = 1 THEN 0 ELSE 256 * f[i - 1] + head[i]]
           number == CHOOSE f : Is(f)
<1>1. last \in Nat /\ Len(head) = last + 1
  OBVIOUS
<1>2. step \in [(1 .. last) \X Nat -> Nat]
  <2>1. ASSUME NEW p \in (1 .. last) \X Nat
        PROVE  256 * p[2] + head[p[1] + 1] \in Nat
    <3>1. p[2] \in Nat /\ p[1] \in 1 .. last
      OBVIOUS
    <3>2. p[1] + 1 \in 1 .. Len(head)
      BY <1>1, <3>1
    <3>3. head[p[1] + 1] \in Nat
      BY <3>2
    <3> QED
      BY <3>1, <3>3, SMTT(30)
  <2> QED
    BY <2>1
<1>3. \A i \in 1 .. last, v \in Nat : step[<<i, v>>] = 256 * v + head[i + 1]
  OBVIOUS
<1> HIDE DEF step, last
<1>4. PICK run : /\ run \in [0 .. last -> Nat] /\ run[0] = 0
                 /\ \A i \in 1 .. last : run[i] = step[<<i, run[i - 1]>>]
  <2>1. PICK run : IsRun(run, Nat, 0, last, step)
    BY <1>1, <1>2, RunExists
  <2> QED
    BY <2>1 DEF IsRun
<1>5. \A i \in 1 .. last : run[i] = 256 * run[i - 1] + head[i + 1]
  <2> TAKE i \in 1 .. last
  <2>1. i - 1 \in 0 .. last /\ run[i - 1] \in Nat
    BY <1>1, <1>4
  <2> QED
    BY <1>3, <1>4, <2>1, ZenonT(30)
<1> DEFINE f0 == [i \in 1 .. Len(head) |-> run[i - 1]]
<1>6. f0 \in [1 .. Len(head) -> Nat]
  BY <1>1, <1>4
<1>7. Is(f0)
  <2>1. ASSUME NEW i \in 1 .. Len(head)
        PROVE  f0[i] = IF i = 1 THEN 0 ELSE 256 * f0[i - 1] + head[i]
    <3>1. CASE i = 1
      BY <1>1, <1>4, <3>1
    <3>2. CASE i # 1
      <4>1. i - 1 \in 1 .. last /\ i - 1 \in 1 .. Len(head) /\ (i - 1) + 1 = i
        BY <1>1, <3>2
      <4> QED
        BY <1>5, <3>2, <4>1
    <3> QED
      BY <3>1, <3>2
  <2>2. f0 = [i \in 1 .. Len(head) |-> f0[i]]
    OBVIOUS
  <2> HIDE DEF f0
  <2> QED
    BY <2>1, <2>2, ZenonT(60)
<1>8. Is(number)
  <2> HIDE DEF Is, f0
  <2> QED
    BY <1>7
<1>9. /\ number = [i \in 1 .. Len(head) |-> IF i = 1 THEN 0 ELSE 256 * number[i - 1] + head[i]]
      /\ LengthRead(head) = IF head[1] < 126 THEN head[1] ELSE number[Len(head)]
  BY <1>8 DEF LengthRead
<1> HIDE DEF number, Is
<1>10. \A i \in 1 .. Len(head) : number[i] = IF i = 1 THEN 0 ELSE 256 * number[i - 1] + head[i]
  BY <1>9
<1>11. \A i \in 0 .. last : i \in {j \in 0 .. last : number[j + 1] \in Nat}
  <2> DEFINE S == {j \in 0 .. last : number[j + 1] \in Nat}
  <2>1. 0 \in S
    BY <1>1, <1>10
  <2>2. ASSUME NEW i \in 0 .. last - 1, i \in S PROVE i + 1 \in S
    <3>1. i + 1 \in 0 .. last /\ i + 2 \in 1 .. Len(head) /\ i + 2 # 1 /\ (i + 2) - 1 = i + 1 /\ (i + 1) + 1 = i + 2
      BY <1>1
    <3>2. number[i + 2] = 256 * number[i + 1] + head[i + 2] /\ head[i + 2] \in Nat /\ number[i + 1] \in Nat
      BY <1>10, <2>2, <3>1
    <3> QED
      BY <3>1, <3>2
  <2> HIDE DEF S
  <2>3. \A i \in 0 .. last : i \in S
    BY <1>1, <2>1, <2>2, Upward
  <2> QED
    BY <2>3 DEF S
<1>12. number \in [1 .. Len(head) -> Nat]
  <2>1. ASSUME NEW i \in 1 .. Len(head) PROVE number[i] \in Nat
    <3>1. i - 1 \in 0 .. last /\ (i - 1) + 1 = i
      BY <1>1
    <3> QED
      BY <1>11, <3>1
  <2> QED
    BY <1>9, <2>1
<1>13. number[1] = 0 /\ \A i \in 2 .. Len(head) : number[i] = 256 * number[i - 1] + head[i]
  BY <1>1, <1>10
<1> QED
  BY <1>9, <1>12, <1>13 DEF ReadsAs

(* The bytes of a number of 32 bits are its digits to the base 256.        *)
LEMMA BytesOfNumber ==
  ASSUME NEW m \in Nat
  PROVE  /\ \A i \in 0 .. 3 : Byte(m, i) \in Nat
         /\ m < 65536 => 256 * Byte(m, 1) + Byte(m, 0) = m
         /\ m \div 16777216 < 256 =>
              256 * (256 * (256 * Byte(m, 3) + Byte(m, 2)) + Byte(m, 1)) + Byte(m, 0) = m
<1>1. /\ Byte(m, 0) = (m % 256)
      /\ Byte(m, 1) = ((m \div 256) % 256)
      /\ Byte(m, 2) = ((m \div 65536) % 256)
      /\ Byte(m, 3) = ((m \div 16777216) % 256)
  BY DEF Byte, SMT
<1>2. \A i \in 0 .. 3 : Byte(m, i) \in Nat
  BY <1>1, SMT
<1>3. m < 65536 => 256 * Byte(m, 1) + Byte(m, 0) = m
  BY <1>1, SMT
<1>4. m \div 16777216 < 256 =>
              256 * (256 * (256 * Byte(m, 3) + Byte(m, 2)) + Byte(m, 1)) + Byte(m, 0) = m
  <2> DEFINE a == m \div 256
             b == m \div 65536
             c == m \div 16777216
  <2>1. m = 256 * a + (m % 256) /\ a \in Nat
    BY SMT
  <2>2. a = 256 * b + (a % 256) /\ b \in Nat
    BY SMT
  <2>3. b = 256 * c + (b % 256) /\ c \in Nat
    BY SMT
  <2>4. m \div 16777216 < 256 => (c % 256) = c
    BY SMT
  <2> HIDE DEF a, b, c
  <2> QED
    BY <1>1, <2>1, <2>2, <2>3, <2>4, SMT DEF a, b, c
<1> QED
  BY <1>2, <1>3, <1>4, SMT

(* What stands after a mark.                                               *)
LEMMA Marked ==
  ASSUME NEW S, NEW mark \in S, NEW rst \in Seq(S), Len(rst) = 8
  PROVE  /\ <<mark>> \o rst \in Seq(S) /\ Len(<<mark>> \o rst) = 9
         /\ (<<mark>> \o rst)[1] = mark /\ <<mark>> \o rst # <<>>
         /\ \A i \in 2 .. 9 : (<<mark>> \o rst)[i] = rst[i - 1]
<1> DEFINE m == <<mark>> w == m \o rst
<1>1. m \in Seq(S) /\ Len(m) = 1 /\ m[1] = mark
  OBVIOUS
<1>2. m \o rst = w
  OBVIOUS
<1> HIDE DEF m
<1>3. w \in Seq(S) /\ Len(w) = Len(m) + Len(rst)
  BY <1>1, TwoParts
<1>4. \A i \in 1 .. Len(m) : w[i] = m[i]
  BY <1>1, TwoParts, ZenonT(30)
<1>5. \A i \in 1 .. Len(rst) : w[Len(m) + i] = rst[i]
  <2>1. \A i \in 1 .. Len(m) + Len(rst) : w[i] = IF i <= Len(m) THEN m[i] ELSE rst[i - Len(m)]
    BY <1>1, ConcatProperties
  <2> TAKE i \in 1 .. Len(rst)
  <2>2. /\ Len(m) + i \in 1 .. Len(m) + Len(rst) /\ ~ (Len(m) + i <= Len(m))
        /\ (Len(m) + i) - Len(m) = i
    BY <1>1
  <2> HIDE DEF w
  <2> QED
    BY <2>1, <2>2
<1> HIDE DEF w
<1>6. Len(w) = 9 /\ w[1] = mark
  BY <1>1, <1>3, <1>4
<1>7. ASSUME NEW i \in 2 .. 9 PROVE w[i] = rst[i - 1]
  <2>1. i - 1 \in 1 .. Len(rst) /\ Len(m) + (i - 1) = i
    BY <1>1
  <2> QED
    BY <1>5, <2>1
<1> QED
  BY <1>3, <1>6, <1>7 DEF w, m

(* Any length of 32 bits is read as the number it was made from.           *)
THEOREM LengthComesBack ==
  ASSUME NEW n \in Nat, n \div 16777216 < 256
  PROVE  LengthRead(Length(n)) = n
<1>1. /\ Byte(n, 0) \in Nat /\ Byte(n, 1) \in Nat /\ Byte(n, 2) \in Nat /\ Byte(n, 3) \in Nat
      /\ n < 65536 => 256 * Byte(n, 1) + Byte(n, 0) = n
      /\ 256 * (256 * (256 * Byte(n, 3) + Byte(n, 2)) + Byte(n, 1)) + Byte(n, 0) = n
  BY BytesOfNumber, SMT
<1>2. CASE n < 126
  <2>1. Length(n) = <<n>> /\ <<n>> \in Seq(Nat) /\ <<n>> # <<>> /\ <<n>>[1] = n
    BY <1>2, SMT DEF Length
  <2> QED
    <3> DEFINE h == <<n>>
    <3>1. Length(n) = h /\ h \in Seq(Nat) /\ h # <<>> /\ h[1] = n
      BY <2>1, SMT
    <3> HIDE DEF h
    <3>2. \E number : ReadsAs(h, number)
      BY <3>1, NumberRead, SMT
    <3> QED
      BY <1>2, <3>1, <3>2, SMT DEF ReadsAs
<1>3. CASE ~ (n < 126) /\ n < 65536
  <2> DEFINE h == <<126, Byte(n, 1), Byte(n, 0)>>
  <2>1. Length(n) = h
    BY <1>3, SMT DEF Length
  <2>2. h \in Seq(Nat) /\ Len(h) = 3 /\ h[1] = 126 /\ h[2] = Byte(n, 1) /\ h[3] = Byte(n, 0) /\ h # <<>>
    BY <1>1, SMT
  <2> HIDE DEF h
  <2>3. PICK number : ReadsAs(h, number)
    BY <2>2, NumberRead, SMT
  <2>4. number[2] = 256 * number[1] + h[2] /\ number[3] = 256 * number[2] + h[3]
    BY <2>2, <2>3, SMT DEF ReadsAs
  <2>5. number[1] = 0 /\ number[2] = Byte(n, 1)
    BY <1>1, <2>2, <2>3, <2>4, SMT DEF ReadsAs
  <2>6. LengthRead(h) = number[3]
    BY <2>2, <2>3, SMT DEF ReadsAs
  <2> QED
    BY <1>1, <1>3, <2>1, <2>2, <2>4, <2>5, <2>6, SMTT(30)
<1>4. CASE ~ (n < 126) /\ ~ (n < 65536)
  <2> DEFINE bytes == [i \in 1 .. 8 |-> IF i < 5 THEN 0 ELSE Byte(n, 8 - i)]
             h == <<127>> \o bytes
  <2>1. Length(n) = h
    BY <1>4, SMT DEF Length
  <2>2. bytes \in Seq(Nat) /\ Len(bytes) = 8
        /\ bytes[1] = 0 /\ bytes[2] = 0 /\ bytes[3] = 0 /\ bytes[4] = 0
        /\ bytes[5] = Byte(n, 3) /\ bytes[6] = Byte(n, 2)
        /\ bytes[7] = Byte(n, 1) /\ bytes[8] = Byte(n, 0)
    <3>1. bytes \in [1 .. 8 -> Nat]
      BY <1>1, SMT
    <3>2. bytes \in Seq(Nat) /\ Len(bytes) = 8
      BY <3>1, SMT
    <3> QED
      BY <3>2, SMT
  <2> HIDE DEF bytes
  <2>3. /\ h \in Seq(Nat) /\ Len(h) = 9 /\ h[1] = 127 /\ h # <<>>
        /\ \A i \in 2 .. 9 : h[i] = bytes[i - 1]
    <3> DEFINE N == Nat
    <3>1. 127 \in N /\ bytes \in Seq(N) /\ Len(bytes) = 8
      BY <2>2, SMT
    <3> HIDE DEF N
    <3>2. /\ h \in Seq(N) /\ Len(h) = 9 /\ h[1] = 127 /\ h # <<>>
          /\ \A i \in 2 .. 9 : h[i] = bytes[i - 1]
      BY <3>1, Marked, SMT
    <3>3. h \in Seq(Nat)
      BY <2>2, SMT
    <3> HIDE DEF h
    <3> QED
      BY <3>2, <3>3, SMT
  <2> HIDE DEF h
  <2>4. PICK number : ReadsAs(h, number)
    BY <2>3, NumberRead, SMT
  <2>5. \A i \in 2 .. 9 : number[i] = 256 * number[i - 1] + bytes[i - 1]
    <3>1. \A i \in 2 .. 9 : number[i] = 256 * number[i - 1] + h[i]
      <4>1. Len(h) = 9
        BY <2>3, SMT
      <4> QED
        BY <2>4, <4>1, SMT DEF ReadsAs
    <3> QED
      BY <2>3, <3>1, SMT
  <2>6. number[2] = 0 /\ number[3] = 0 /\ number[4] = 0 /\ number[5] = 0
    BY <2>2, <2>4, <2>5, SMT DEF ReadsAs
  <2>7. number[6] = Byte(n, 3) /\ Byte(n, 3) \in Nat
    <3>1. number[6] = 256 * number[5] + bytes[5]
      BY <2>5, SMT
    <3> QED
      BY <1>1, <2>2, <2>6, <3>1, SMT
  <2>8. number[7] = 256 * number[6] + Byte(n, 2) /\ number[8] = 256 * number[7] + Byte(n, 1)
        /\ number[9] = 256 * number[8] + Byte(n, 0)
    BY <2>2, <2>5, SMT
  <2>9. LengthRead(h) = number[9]
    BY <2>3, <2>4, SMT DEF ReadsAs
  <2> QED
    BY <2>1, <2>7, <2>8, <2>9, <1>1, SMT
<1> QED
  BY <1>2, <1>3, <1>4, SMT

(* And so do the lengths the model lists.                                  *)
LEMMA LengthsHold == LengthsSurvive
<1> SUFFICES ASSUME NEW n \in {0, 125, 126, 127, 255, 256, 65535, 65536, 65537, 16777216}
             PROVE  LengthRead(Length(n)) = n
  BY SMT DEF LengthsSurvive
<1>1. n \in Nat /\ n \div 16777216 < 256
  BY SMT
<1> QED
  BY <1>1, LengthComesBack, SMT

(* What one side of the browser's connection sends the other reads, of any *)
(* length and in any pieces (Send and Recv of LuaFlipperUI.cpp).           *)
THEOREM FramesArriveWhole == CdpSpec => []FramesArrive
<1>1. LengthsSurvive /\ FramesComeWhole => FramesArrive
  BY DEF FramesArrive
<1> QED
  BY <1>1, LengthsHold, FramesStayWhole, PTL

-----------------------------------------------------------------------------

(* A line of the file, with any value; and what there is of one.           *)
TomlLine == {Header(s) : s \in Sections}
            \cup {KeyLine(k, v) : k \in SettingKeys, v \in TomlValues}
            \cup {Prose({}), Prose({Enabled}), Rest} \cup {Mention(s) : s \in Sections}

(* The line of a section's header, 0 if it has none.                       *)
HeaderLine(text, s) ==
  LET Hit(l) == l = Header(s) IN FirstAt(text, 1, Hit)

(* A line is a header, a setting or a piece of one, or a comment.          *)
LEMMA LineShapes ==
  ASSUME NEW l \in TomlLine
  PROVE  /\ l.kind = "header" => l.sec \in Sections /\ l = Header(l.sec)
         /\ l.kind = "key" => /\ l.key \in SettingKeys /\ l.val \in TomlValues
                              /\ l = KeyLine(l.key, l.val)
         /\ l.kind \in {"header", "key", "prose", "mention", "rest"}
         /\ l.kind = "prose" /\ Enabled \in l.words => l = Prose({Enabled})
<1>1. CASE l \in {Header(s) : s \in Sections}
  BY <1>1 DEF Header
<1>2. CASE \E k \in SettingKeys, v \in TomlValues : l = KeyLine(k, v)
  BY <1>2 DEF KeyLine
<1>3. CASE l \in {Prose({}), Prose({Enabled})}
  BY <1>3 DEF Prose
<1>4. CASE l = Rest \/ \E s \in Sections : l = Mention(s)
  BY <1>4 DEF Rest, Mention
<1> QED
  BY <1>1, <1>2, <1>3, <1>4 DEF TomlLine

(* What the lines are that an edit writes.                                 *)
LEMMA NewLines ==
  ASSUME NEW s \in Sections, NEW k \in SettingKeys, NEW v \in TomlValues
  PROVE  /\ Header(s) \in TomlLine /\ Header(s).kind = "header" /\ Header(s).sec = s
         /\ KeyLine(k, v) \in TomlLine /\ KeyLine(k, v).kind = "key"
         /\ KeyLine(k, v).key = k /\ KeyLine(k, v).val = v
  BY DEF TomlLine, Header, KeyLine

(* What the searches find.                                                 *)
LEMMA SmallestChosen ==
  ASSUME NEW S \in SUBSET Nat, S # {}
  PROVE  LET m == CHOOSE i \in S : \A j \in S : i <= j
         IN m \in S /\ \A j \in S : m <= j
  BY SmallestExists

(* HeaderLine finds a header that is there.                                *)
LEMMA HeaderFound ==
  ASSUME NEW text \in Seq(TomlLine), NEW s \in Sections
  PROVE  \/ HeaderLine(text, s) = 0 /\ \A i \in 1 .. Len(text) : text[i] # Header(s)
         \/ /\ HeaderLine(text, s) \in 1 .. Len(text)
            /\ text[HeaderLine(text, s)] = Header(s)
<1> DEFINE hits == {i \in 1 .. Len(text) : text[i] = Header(s)}
<1>1. HeaderLine(text, s) = IF hits = {} THEN 0 ELSE CHOOSE i \in hits : \A j \in hits : i <= j
  BY DEF HeaderLine, FirstAt
<1>2. hits \in SUBSET Nat
  OBVIOUS
<1>3. hits # {} => HeaderLine(text, s) \in hits
  <2> HIDE DEF hits
  <2> QED
    BY <1>1, <1>2, SmallestChosen
<1>4. CASE hits = {}
  BY <1>1, <1>4
<1>5. CASE hits # {}
  BY <1>3, <1>5
<1> QED
  BY <1>4, <1>5

(* SectionEnd finds the last line of a section.                            *)
LEMMA EndFound ==
  ASSUME NEW text \in Seq(TomlLine), NEW ln \in 1 .. Len(text)
  PROVE  /\ SectionEnd(text, ln) \in ln .. Len(text)
         /\ \A i \in ln + 1 .. SectionEnd(text, ln) : ~IsHeader(text[i])
         /\ SectionEnd(text, ln) < Len(text) => IsHeader(text[SectionEnd(text, ln) + 1])
<1> DEFINE hits == {i \in ln + 1 .. Len(text) : IsHeader(text[i])}
           next == IF hits = {} THEN 0 ELSE CHOOSE i \in hits : \A j \in hits : i <= j
<1>1. SectionEnd(text, ln) = IF next = 0 THEN Len(text) ELSE next - 1
  BY DEF SectionEnd, FirstAt
<1>2. hits \in SUBSET Nat
  OBVIOUS
<1>3. hits # {} => next \in hits /\ \A j \in hits : next <= j
  <2> HIDE DEF hits
  <2> QED
    BY <1>2, SmallestChosen
<1>4. CASE hits = {}
  BY <1>1, <1>4
<1>5. CASE hits # {}
  <2> HIDE DEF next
  <2>1. next \in ln + 1 .. Len(text) /\ IsHeader(text[next])
        /\ \A i \in ln + 1 .. Len(text) : i < next => ~IsHeader(text[i])
    BY <1>3, <1>5
  <2>2. SectionEnd(text, ln) = next - 1
    BY <1>1, <2>1
  <2> QED
    BY <2>1, <2>2
<1> QED
  BY <1>4, <1>5

(* The section of a line is that of the last header up to it.              *)
LEMMA SectionFound ==
  ASSUME NEW text \in Seq(TomlLine), NEW i \in 1 .. Len(text)
  PROVE  /\ (\A h \in 1 .. i : ~IsHeader(text[h])) => SectionOf(text, i) = Unset
         /\ \A h \in 1 .. i : IsHeader(text[h]) /\ (\A j \in h + 1 .. i : ~IsHeader(text[j]))
              => SectionOf(text, i) = text[h].sec
         /\ \/ \A h \in 1 .. i : ~IsHeader(text[h])
            \/ \E h \in 1 .. i : IsHeader(text[h]) /\ \A j \in h + 1 .. i : ~IsHeader(text[j])
<1> DEFINE hs == {h \in 1 .. i : IsHeader(text[h])}
           last == CHOOSE h \in hs : \A j \in hs : j <= h
<1>1. SectionOf(text, i) = IF hs = {} THEN Unset ELSE text[last].sec
  BY DEF SectionOf
<1>2. hs \in SUBSET (0 .. i) /\ i \in Nat
  OBVIOUS
<1>3. hs # {} => last \in hs /\ \A j \in hs : j <= last
  <2> HIDE DEF hs
  <2> QED
    BY <1>2, LargestExists
<1> HIDE DEF last
<1>4. hs # {} => /\ last \in 1 .. i /\ IsHeader(text[last])
                 /\ \A j \in last + 1 .. i : ~IsHeader(text[j])
                 /\ \A h \in 1 .. i : IsHeader(text[h]) /\ (\A j \in h + 1 .. i : ~IsHeader(text[j]))
                      => h = last
  BY <1>3
<1> QED
  BY <1>1, <1>4

(* Each section is one piece of the text, if its header is there once.     *)
OneHeader(text) ==
  \A i, j \in 1 .. Len(text) :
    IsHeader(text[i]) /\ IsHeader(text[j]) /\ text[i] = text[j] => i = j

(* In a file that parses each section is one run of lines.                 *)
LEMMA SectionsAreIntervals ==
  ASSUME NEW text \in Seq(TomlLine), OneHeader(text), NEW s \in Sections, NEW i \in 1 .. Len(text)
  PROVE  /\ SectionOf(text, i) \in Sections \cup {Unset}
         /\ SectionOf(text, i) = s <=>
              /\ HeaderLine(text, s) # 0
              /\ i \in HeaderLine(text, s) .. SectionEnd(text, HeaderLine(text, s))
<1> DEFINE ln == HeaderLine(text, s)
           end == SectionEnd(text, ln)
<1>1. ASSUME NEW h \in 1 .. i, IsHeader(text[h]), \A j \in h + 1 .. i : ~IsHeader(text[j])
      PROVE  /\ SectionOf(text, i) = text[h].sec /\ text[h].sec \in Sections
             /\ text[h] = Header(text[h].sec)
  <2>1. text[h] \in TomlLine
    OBVIOUS
  <2> QED
    BY <1>1, <2>1, SectionFound, LineShapes DEF IsHeader
<1>2. \/ ln = 0 /\ (\A j \in 1 .. Len(text) : text[j] # Header(s))
      \/ ln \in 1 .. Len(text) /\ text[ln] = Header(s) /\ IsHeader(text[ln])
  BY HeaderFound DEF IsHeader, Header
<1>3. ln # 0 => /\ end \in ln .. Len(text) /\ \A j \in ln + 1 .. end : ~IsHeader(text[j])
                /\ end < Len(text) => IsHeader(text[end + 1])
  BY <1>2, EndFound
<1> HIDE DEF ln, end
<1>4. ASSUME ln # 0, i \in ln .. end PROVE SectionOf(text, i) = s
  <2>1. \A j \in ln + 1 .. i : ~IsHeader(text[j])
    BY <1>2, <1>3, <1>4
  <2>2. ln \in 1 .. i /\ text[ln].sec = s
    BY <1>2, <1>4 DEF Header
  <2> QED
    BY <1>1, <1>2, <1>4, <2>1, <2>2
<1>5. ASSUME SectionOf(text, i) = s PROVE ln # 0 /\ i \in ln .. end
  <2>1. PICK h \in 1 .. i : IsHeader(text[h]) /\ \A j \in h + 1 .. i : ~IsHeader(text[j])
    BY <1>5, SectionFound, TomlAssumption
  <2>2. text[h] = Header(s)
    BY <1>1, <1>5, <2>1
  <2>3. ln # 0
    BY <1>2, <2>2
  <2>4. h = ln
    BY <1>2, <2>1, <2>2, <2>3 DEF OneHeader
  <2>5. ~ (end < i)
    BY <1>2, <1>3, <2>1, <2>3, <2>4
  <2> QED
    BY <1>2, <1>3, <2>3, <2>4, <2>5
<1>6. SectionOf(text, i) \in Sections \cup {Unset}
  BY <1>1, SectionFound
<1> QED
  BY <1>4, <1>5, <1>6 DEF ln, end

(* What a setting is read from: the one line that says it.                 *)
LEMMA LoadReads ==
  ASSUME NEW text \in Seq(TomlLine), Once(text), NEW s \in Sections, NEW k \in SettingKeys
  PROVE  /\ KeysOf(text, s, k) = {} => Load(text)[s][k] = Unset
         /\ \A i \in KeysOf(text, s, k) : /\ KeysOf(text, s, k) = {i}
                                          /\ Load(text)[s][k] = text[i].val
<1> DEFINE its == KeysOf(text, s, k)
<1>1. Load(text)[s][k] = IF its = {} THEN Unset ELSE text[CHOOSE i \in its : TRUE].val
  BY DEF Load
<1>2. \A i, j \in its : i = j
  BY DEF Once
<1> HIDE DEF its
<1>3. \A i \in its : its = {i} /\ (CHOOSE j \in its : TRUE) = i
  BY <1>2
<1> QED
  BY <1>1, <1>3 DEF its

(* An edit of one text into another: where its lines are afterwards, and   *)
(* the line that now says the setting k of section s.                      *)
Amends(old, upd, place, said, s, k) ==
  /\ place \in [1 .. Len(old) -> 1 .. Len(upd)]
  /\ \A i, j \in 1 .. Len(old) : place[i] = place[j] => i = j
  /\ \A i \in 1 .. Len(old) :
       /\ SectionOf(upd, place[i]) = SectionOf(old, i)
       /\ upd[place[i]].kind = old[i].kind
       /\ old[i].kind = "header" => upd[place[i]] = old[i]
       /\ old[i].kind = "key" => upd[place[i]].key = old[i].key
       /\ old[i].kind = "key" /\ place[i] # said => upd[place[i]].val = old[i].val
  /\ said \in 1 .. Len(upd) /\ upd[said].kind = "key" /\ upd[said].key = k /\ SectionOf(upd, said) = s
  /\ \A i \in KeysOf(old, s, k) : place[i] = said
  /\ \A j \in 1 .. Len(upd) :
       \/ j = said
       \/ \E i \in 1 .. Len(old) : place[i] = j
       \/ /\ upd[j].kind = "header"
          /\ \A h \in 1 .. Len(upd) : upd[h].kind = "header" /\ upd[h] = upd[j] => h = j

(* After an edit a key is found where it was, or on the line of the edit.  *)
LEMMA EditedKeys ==
  ASSUME NEW old \in Seq(TomlLine), NEW upd \in Seq(TomlLine), NEW place, NEW said, NEW s, NEW k,
         Amends(old, upd, place, said, s, k)
  PROVE  /\ KeysOf(upd, s, k) = {said}
         /\ \A s2, k2 : <<s2, k2>> # <<s, k>> =>
              KeysOf(upd, s2, k2) = {place[i] : i \in KeysOf(old, s2, k2)}
<1>1. ASSUME NEW s2, NEW k2, NEW j \in KeysOf(upd, s2, k2), j # said
      PROVE  \E i \in KeysOf(old, s2, k2) : place[i] = j
  <2>1. j \in 1 .. Len(upd) /\ upd[j].kind = "key" /\ upd[j].key = k2 /\ SectionOf(upd, j) = s2
    BY <1>1 DEF KeysOf
  <2>2. PICK i \in 1 .. Len(old) : place[i] = j
    BY <1>1, <2>1 DEF Amends
  <2>3. old[i].kind = "key" /\ old[i].key = k2 /\ SectionOf(old, i) = s2
    BY <2>1, <2>2 DEF Amends
  <2> QED
    BY <2>2, <2>3 DEF KeysOf
<1>2. ASSUME NEW s2, NEW k2, NEW i \in KeysOf(old, s2, k2) PROVE place[i] \in KeysOf(upd, s2, k2)
  <2>1. i \in 1 .. Len(old) /\ old[i].kind = "key" /\ old[i].key = k2 /\ SectionOf(old, i) = s2
    BY <1>2 DEF KeysOf
  <2>2. place[i] \in 1 .. Len(upd) /\ upd[place[i]].kind = "key" /\ upd[place[i]].key = k2 /\ SectionOf(upd, place[i]) = s2
    BY <2>1 DEF Amends
  <2> QED
    BY <2>2 DEF KeysOf
<1>3. said \in KeysOf(upd, s, k) /\ \A s2, k2 : said \in KeysOf(upd, s2, k2) => s2 = s /\ k2 = k
  BY DEF Amends, KeysOf
<1>4. KeysOf(upd, s, k) = {said}
  <2>1. ASSUME NEW j \in KeysOf(upd, s, k), j # said PROVE FALSE
    <3>1. PICK i \in KeysOf(old, s, k) : place[i] = j
      BY <1>1, <2>1
    <3> QED
      BY <2>1, <3>1 DEF Amends
  <2> QED
    BY <1>3, <2>1
<1>5. ASSUME NEW s2, NEW k2, <<s2, k2>> # <<s, k>>
      PROVE  KeysOf(upd, s2, k2) = {place[i] : i \in KeysOf(old, s2, k2)}
  <2>1. said \notin KeysOf(upd, s2, k2)
    BY <1>3, <1>5
  <2> QED
    BY <1>1, <1>2, <2>1
<1> QED
  BY <1>4, <1>5

(* A file that parsed still does.                                          *)
LEMMA EditedParses ==
  ASSUME NEW old \in Seq(TomlLine), NEW upd \in Seq(TomlLine), NEW place, NEW said, NEW s, NEW k,
         Amends(old, upd, place, said, s, k), Once(old)
  PROVE  Once(upd)
<1>1. ASSUME NEW i \in 1 .. Len(upd), NEW j \in 1 .. Len(upd),
             IsHeader(upd[i]), IsHeader(upd[j]), upd[i] = upd[j]
      PROVE  i = j
  <2>1. i # said /\ j # said
    BY <1>1 DEF IsHeader, Amends
  <2>2. CASE \E g, h \in 1 .. Len(old) : place[g] = i /\ place[h] = j
    <3>1. PICK g \in 1 .. Len(old), h \in 1 .. Len(old) : place[g] = i /\ place[h] = j
      BY <2>2
    <3>2. old[g].kind = "header" /\ old[h].kind = "header" /\ old[g] = old[h]
      BY <1>1, <3>1 DEF Amends, IsHeader
    <3> QED
      BY <3>1, <3>2 DEF Once, IsHeader
  <2>3. CASE ~ \E g, h \in 1 .. Len(old) : place[g] = i /\ place[h] = j
    BY <1>1, <2>1, <2>3 DEF Amends, IsHeader
  <2> QED
    BY <2>2, <2>3
<1>2. ASSUME NEW s2 \in Sections \cup {Unset}, NEW k2 \in SettingKeys,
             NEW i \in KeysOf(upd, s2, k2), NEW j \in KeysOf(upd, s2, k2)
      PROVE  i = j
  <2>1. CASE s2 = s /\ k2 = k
    BY <1>2, <2>1, EditedKeys
  <2>2. CASE <<s2, k2>> # <<s, k>>
    <3>1. KeysOf(upd, s2, k2) = {place[m] : m \in KeysOf(old, s2, k2)}
      BY <2>2, EditedKeys
    <3>2. \A m, n \in KeysOf(old, s2, k2) : m = n
      BY DEF Once
    <3> QED
      BY <1>2, <3>1, <3>2
  <2> QED
    BY <2>1, <2>2
<1> QED
  BY <1>1, <1>2 DEF Once

(* What is read, with one setting changed.                                 *)
With(config, s, k, v) == [config EXCEPT ![s][k] = v]

(* And what is read of the other settings is what it was.                  *)
LEMMA LoadedElsewhere ==
  ASSUME NEW old \in Seq(TomlLine), NEW upd \in Seq(TomlLine), NEW place, NEW said, NEW s, NEW k,
         Amends(old, upd, place, said, s, k), Once(old),
         NEW s2 \in Sections, NEW k2 \in SettingKeys, <<s2, k2>> # <<s, k>>
  PROVE  Load(upd)[s2][k2] = Load(old)[s2][k2]
<1>1. Once(upd)
  BY EditedParses
<1>2. KeysOf(upd, s2, k2) = {place[i] : i \in KeysOf(old, s2, k2)}
  BY EditedKeys
<1>3. CASE KeysOf(old, s2, k2) = {}
  BY <1>1, <1>2, <1>3, LoadReads
<1>4. CASE KeysOf(old, s2, k2) # {}
  <2>1. PICK i \in KeysOf(old, s2, k2) : TRUE
    BY <1>4
  <2>2. Load(old)[s2][k2] = old[i].val
    BY LoadReads
  <2>3. Load(upd)[s2][k2] = upd[place[i]].val
    BY <1>1, <1>2, <2>1, LoadReads
  <2>4. i \in 1 .. Len(old) /\ old[i].kind = "key" /\ old[i].key = k2 /\ SectionOf(old, i) = s2
    BY <2>1 DEF KeysOf
  <2>5. place[i] # said
    BY <2>4 DEF Amends
  <2> QED
    BY <2>2, <2>3, <2>4, <2>5 DEF Amends
<1> QED
  BY <1>3, <1>4

(* A file is read as before but for the setting written.                   *)
LEMMA EditedLoads ==
  ASSUME NEW old \in Seq(TomlLine), NEW upd \in Seq(TomlLine), NEW place, NEW said,
         NEW s \in Sections, NEW k \in SettingKeys,
         Amends(old, upd, place, said, s, k), Once(old)
  PROVE  Load(upd) = With(Load(old), s, k, upd[said].val)
<1>1. Once(upd)
  BY EditedParses
<1>2. Load(upd)[s][k] = upd[said].val
  BY <1>1, EditedKeys, LoadReads
<1>3. ASSUME NEW s2 \in Sections, NEW k2 \in SettingKeys, <<s2, k2>> # <<s, k>>
      PROVE  Load(upd)[s2][k2] = Load(old)[s2][k2]
  BY <1>3, LoadedElsewhere
<1>4. /\ Load(old) = [s2 \in Sections |-> [k2 \in SettingKeys |-> Load(old)[s2][k2]]]
      /\ Load(upd) = [s2 \in Sections |-> [k2 \in SettingKeys |-> Load(upd)[s2][k2]]]
  BY DEF Load
<1> QED
  <2> DEFINE A == Load(old) B == Load(upd) v == upd[said].val
  <2> HIDE DEF A, B, v
  <2>1. /\ A = [s2 \in Sections |-> [k2 \in SettingKeys |-> A[s2][k2]]]
        /\ B = [s2 \in Sections |-> [k2 \in SettingKeys |-> B[s2][k2]]]
    BY <1>4 DEF A, B
  <2>2. B[s][k] = v /\ \A s2 \in Sections, k2 \in SettingKeys : <<s2, k2>> # <<s, k>> => B[s2][k2] = A[s2][k2]
    BY <1>2, <1>3 DEF A, B, v
  <2>3. ASSUME NEW s2 \in Sections PROVE B[s2] = [A EXCEPT ![s][k] = v][s2]
    <3>1. CASE s2 = s
      <4>1. [A EXCEPT ![s][k] = v][s2] = [A[s] EXCEPT ![k] = v]
        BY <2>1, <3>1
      <4>2. B[s] = [k2 \in SettingKeys |-> B[s][k2]] /\ A[s] = [k2 \in SettingKeys |-> A[s][k2]]
        BY <2>1
      <4>3. \A k2 \in SettingKeys : B[s][k2] = [A[s] EXCEPT ![k] = v][k2]
        BY <2>2, <4>2
      <4>4. [A[s] EXCEPT ![k] = v] = [k2 \in SettingKeys |-> [A[s] EXCEPT ![k] = v][k2]]
        BY <4>2
      <4> QED
        BY <3>1, <4>1, <4>2, <4>3, <4>4
    <3>2. CASE s2 # s
      <4>1. [A EXCEPT ![s][k] = v][s2] = A[s2]
        BY <2>1, <3>2
      <4>2. B[s2] = [k2 \in SettingKeys |-> B[s2][k2]] /\ A[s2] = [k2 \in SettingKeys |-> A[s2][k2]]
        BY <2>1
      <4> QED
        BY <2>2, <3>2, <4>1, <4>2
    <3> QED
      BY <3>1, <3>2
  <2>4. B = [A EXCEPT ![s][k] = v]
    BY <2>1, <2>3
  <2> QED
    BY <2>4 DEF A, B, v, With

(* A line's section is that of the same line in a text with the same       *)
(* headers up to it.                                                       *)
LEMMA SameSection ==
  ASSUME NEW t \in Seq(TomlLine), NEW u \in Seq(TomlLine),
         NEW i \in 1 .. Len(t), i \in 1 .. Len(u),
         \A h \in 1 .. i : (IsHeader(u[h]) <=> IsHeader(t[h])) /\ (IsHeader(t[h]) => u[h] = t[h])
  PROVE  SectionOf(u, i) = SectionOf(t, i)
<1>1. CASE \A h \in 1 .. i : ~IsHeader(t[h])
  <2>1. SectionOf(t, i) = Unset
    BY <1>1, SectionFound
  <2>2. SectionOf(u, i) = Unset
    BY <1>1, SectionFound
  <2> QED
    BY <2>1, <2>2
<1>2. CASE \E h \in 1 .. i : IsHeader(t[h]) /\ \A j \in h + 1 .. i : ~IsHeader(t[j])
  <2>1. PICK h \in 1 .. i : IsHeader(t[h]) /\ \A j \in h + 1 .. i : ~IsHeader(t[j])
    BY <1>2
  <2>2. IsHeader(u[h]) /\ u[h] = t[h] /\ \A j \in h + 1 .. i : ~IsHeader(u[j])
    BY <2>1
  <2>3. SectionOf(t, i) = t[h].sec
    BY <2>1, SectionFound
  <2>4. SectionOf(u, i) = u[h].sec
    BY <2>2, SectionFound
  <2> QED
    BY <2>2, <2>3, <2>4
<1> QED
  BY <1>1, <1>2, SectionFound

(* A line replaced is an edit.                                             *)
LEMMA EditReplaces ==
  ASSUME NEW text \in Seq(TomlLine), NEW x \in 1 .. Len(text), text[x].kind = "key",
         NEW v \in TomlValues, Once(text)
  PROVE  LET u == [text EXCEPT ![x] = KeyLine(text[x].key, v)]
         IN /\ u \in Seq(TomlLine)
            /\ u[x].val = v
            /\ Amends(text, u, [i \in 1 .. Len(text) |-> i], x, SectionOf(text, x), text[x].key)
<1> DEFINE k == text[x].key
           l == KeyLine(k, v)
           u == [text EXCEPT ![x] = l]
           ln == [i \in 1 .. Len(text) |-> i]
<1>1. text[x] \in TomlLine
  OBVIOUS
<1>2. k \in SettingKeys
  BY <1>1, LineShapes
<1>3. l \in TomlLine /\ l.kind = "key" /\ l.key = k /\ l.val = v
  BY <1>2 DEF TomlLine, KeyLine
<1> HIDE DEF l
<1>4. u \in Seq(TomlLine) /\ Len(u) = Len(text) /\ u[x] = l
      /\ \A i \in 1 .. Len(text) : i # x => u[i] = text[i]
  BY <1>3
<1> HIDE DEF u
<1>5. \A h \in 1 .. Len(text) : (IsHeader(u[h]) <=> IsHeader(text[h])) /\ (IsHeader(text[h]) => u[h] = text[h])
  BY <1>3, <1>4 DEF IsHeader
<1>6. \A i \in 1 .. Len(text) : SectionOf(u, i) = SectionOf(text, i)
  BY <1>4, <1>5, SameSection
<1>7. \A i \in 1 .. Len(text) : /\ u[i].kind = text[i].kind
                                /\ text[i].kind = "header" => u[i] = text[i]
                                /\ text[i].kind = "key" => u[i].key = text[i].key
                                /\ text[i].kind = "key" /\ i # x => u[i].val = text[i].val
  BY <1>3, <1>4
<1>8. \A i \in KeysOf(text, SectionOf(text, x), k) : i = x
  <2>1. text[x].key \in SettingKeys /\ SectionOf(text, x) \in Sections \cup {Unset}
    <3>1. PICK s \in Sections : TRUE
      BY TomlAssumption
    <3> QED
      BY <1>2, SectionsAreIntervals DEF Once, OneHeader
  <2>2. x \in KeysOf(text, SectionOf(text, x), k)
    BY DEF KeysOf
  <2> QED
    BY <2>1, <2>2 DEF Once
<1>9. Amends(text, u, ln, x, SectionOf(text, x), k)
  BY <1>3, <1>4, <1>6, <1>7, <1>8 DEF Amends
<1> QED
  BY <1>3, <1>4, <1>9 DEF u, l

(* So is a section put at the end of the file.                             *)
LEMMA EditAppends ==
  ASSUME NEW text \in Seq(TomlLine), NEW s \in Sections, NEW k \in SettingKeys,
         NEW v \in TomlValues, Once(text), HeaderLine(text, s) = 0
  PROVE  LET u == text \o <<Header(s), KeyLine(k, v)>>
         IN /\ u \in Seq(TomlLine)
            /\ u[Len(text) + 2].val = v
            /\ Amends(text, u, [i \in 1 .. Len(text) |-> i], Len(text) + 2, s, k)
<1> DEFINE n == Len(text)
           hd == Header(s)
           l == KeyLine(k, v)
           u == text \o <<hd, l>>
           ln == [i \in 1 .. n |-> i]
<1>1. /\ hd \in TomlLine /\ hd.kind = "header" /\ hd.sec = s
      /\ l \in TomlLine /\ l.kind = "key" /\ l.key = k /\ l.val = v
  BY NewLines
<1>2. \A i \in 1 .. n : text[i] # hd
  BY HeaderFound
<1> HIDE DEF hd, l
<1>3. u \in Seq(TomlLine) /\ n \in Nat /\ Len(u) = n + 2 /\ u[n + 1] = hd /\ u[n + 2] = l
      /\ \A i \in 1 .. n : u[i] = text[i]
  BY <1>1
<1> HIDE DEF u
<1>4. \A i \in 1 .. n : SectionOf(u, i) = SectionOf(text, i)
  BY <1>3, SameSection
<1>5. SectionOf(u, n + 2) = s
  <2>1. /\ IsHeader(u[n + 1]) /\ n + 1 \in 1 .. n + 2 /\ n + 2 \in 1 .. Len(u)
        /\ \A j \in n + 1 + 1 .. n + 2 : ~IsHeader(u[j])
    BY <1>1, <1>3 DEF IsHeader
  <2> QED
    BY <1>1, <1>3, <2>1, SectionFound, SMTT(30)
<1>6. KeysOf(text, s, k) = {}
  BY SectionsAreIntervals DEF KeysOf, Once, OneHeader
<1>7. \A j \in 1 .. Len(u) :
       \/ j = n + 2
       \/ \E i \in 1 .. n : ln[i] = j
       \/ /\ u[j].kind = "header"
          /\ \A h \in 1 .. Len(u) : u[h].kind = "header" /\ u[h] = u[j] => h = j
  <2>1. u[n + 1].kind = "header"
        /\ \A h \in 1 .. Len(u) : u[h].kind = "header" /\ u[h] = u[n + 1] => h = n + 1
    BY <1>1, <1>2, <1>3
  <2> QED
    BY <1>3, <2>1
<1>8. Amends(text, u, ln, n + 2, s, k)
  BY <1>1, <1>3, <1>4, <1>5, <1>6, <1>7 DEF Amends
<1> QED
  BY <1>1, <1>3, <1>8 DEF u, hd, l

(* A sequence with an element put in.                                      *)
LEMMA Inserted ==
  ASSUME NEW S, NEW seq \in Seq(S), NEW m \in 0 .. Len(seq), NEW new \in S
  PROVE  /\ LineAfter(seq, m, new) \in Seq(S)
         /\ Len(seq) \in Nat /\ Len(LineAfter(seq, m, new)) = Len(seq) + 1
         /\ LineAfter(seq, m, new)[m + 1] = new
         /\ \A i \in 1 .. m : LineAfter(seq, m, new)[i] = seq[i]
         /\ \A i \in m + 1 .. Len(seq) : LineAfter(seq, m, new)[i + 1] = seq[i]
<1> DEFINE a == SubSeq(seq, 1, m)
           b == SubSeq(seq, m + 1, Len(seq))
           c == a \o <<new>>
           u == c \o b
<1>1. /\ a \in Seq(S) /\ Len(a) = m /\ \A i \in 1 .. m : a[i] = seq[i]
      /\ b \in Seq(S) /\ Len(b) = Len(seq) - m /\ \A i \in 1 .. Len(seq) - m : b[i] = seq[m + i]
  OBVIOUS
<1>2. <<new>> \in Seq(S) /\ Len(<<new>>) = 1 /\ <<new>>[1] = new
  OBVIOUS
<1>3. LineAfter(seq, m, new) = u
  BY DEF LineAfter
<1> HIDE DEF a, b
<1>4. /\ c \in Seq(S) /\ Len(c) = Len(a) + 1 /\ \A i \in 1 .. Len(a) : c[i] = a[i]
      /\ c[Len(a) + 1] = <<new>>[1]
  <2>1. /\ c \in Seq(S) /\ Len(c) = Len(a) + Len(<<new>>) /\ \A i \in 1 .. Len(a) : c[i] = a[i]
        /\ \A i \in 1 .. Len(<<new>>) : c[Len(a) + i] = <<new>>[i]
    BY <1>1, <1>2, TwoParts
  <2>2. 1 \in 1 .. Len(<<new>>)
    BY <1>2
  <2> HIDE DEF c
  <2> QED
    BY <1>2, <2>1, <2>2
<1> HIDE DEF c
<1>5. /\ u \in Seq(S) /\ Len(u) = Len(c) + Len(b) /\ \A i \in 1 .. Len(c) : u[i] = c[i]
      /\ \A i \in 1 .. Len(b) : u[Len(c) + i] = b[i]
  <2>1. c \in Seq(S) /\ b \in Seq(S)
    BY <1>1, <1>4
  <2> QED
    BY <2>1, TwoParts
<1> HIDE DEF u
<1>6. Len(seq) \in Nat /\ m \in Nat /\ m <= Len(seq) /\ Len(c) = m + 1
  BY <1>1, <1>4
<1>7. \A i \in 1 .. m : u[i] = seq[i]
  <2> TAKE i \in 1 .. m
  <2>1. i \in 1 .. Len(a) /\ i \in 1 .. Len(c)
    BY <1>1, <1>6
  <2> QED
    BY <1>1, <1>4, <1>5, <2>1
<1>8. u[m + 1] = new
  <2>1. m + 1 \in 1 .. Len(c)
    BY <1>6
  <2> QED
    BY <1>1, <1>2, <1>4, <1>5, <2>1
<1>9. \A i \in m + 1 .. Len(seq) : u[i + 1] = seq[i]
  <2> TAKE i \in m + 1 .. Len(seq)
  <2>1. i - m \in 1 .. Len(seq) - m /\ (m + 1) + (i - m) = i + 1 /\ m + (i - m) = i
    BY <1>6
  <2>2. i - m \in 1 .. Len(b)
    BY <1>1, <2>1
  <2>3. u[Len(c) + (i - m)] = b[i - m]
    BY <1>5, <2>2
  <2>4. b[i - m] = seq[m + (i - m)]
    BY <1>1, <2>1
  <2> QED
    BY <1>6, <2>1, <2>3, <2>4
<1>10. Len(u) = Len(seq) + 1
  BY <1>1, <1>5, <1>6
<1> QED
  BY <1>3, <1>5, <1>6, <1>7, <1>8, <1>9, <1>10

(* The new line goes at the end of a section.                              *)
LEMMA EditInserts ==
  ASSUME NEW text \in Seq(TomlLine), NEW s \in Sections, NEW k \in SettingKeys,
         NEW v \in TomlValues, Once(text), HeaderLine(text, s) # 0, KeysOf(text, s, k) = {}
  PROVE  LET e == SectionEnd(text, HeaderLine(text, s))
             u == LineAfter(text, e, KeyLine(k, v))
         IN /\ u \in Seq(TomlLine)
            /\ u[e + 1].val = v
            /\ Amends(text, u, [i \in 1 .. Len(text) |-> IF i <= e THEN i ELSE i + 1], e + 1, s, k)
<1> DEFINE n == Len(text)
           h0 == HeaderLine(text, s)
           e == SectionEnd(text, h0)
           l == KeyLine(k, v)
           u == LineAfter(text, e, l)
           ln == [i \in 1 .. n |-> IF i <= e THEN i ELSE i + 1]
<1>1. l \in TomlLine /\ l.kind = "key" /\ l.key = k /\ l.val = v
  BY NewLines
<1>2. h0 \in 1 .. n /\ text[h0] = Header(s) /\ IsHeader(text[h0]) /\ text[h0].sec = s
  <2>1. h0 \in 1 .. n /\ text[h0] = Header(s)
    BY HeaderFound
  <2> QED
    BY <2>1, NewLines DEF IsHeader
<1>3. /\ e \in h0 .. n /\ \A i \in h0 + 1 .. e : ~IsHeader(text[i])
      /\ e < n => IsHeader(text[e + 1])
  BY <1>2, EndFound
<1> HIDE DEF l, e, h0
<1>4. /\ u \in Seq(TomlLine) /\ n \in Nat /\ Len(u) = n + 1 /\ u[e + 1] = l
      /\ \A i \in 1 .. e : u[i] = text[i]
      /\ \A i \in e + 1 .. n : u[i + 1] = text[i]
  <2>1. e \in 0 .. Len(text)
    BY <1>2, <1>3
  <2>2. /\ u \in Seq(TomlLine)
        /\ Len(text) \in Nat /\ Len(u) = Len(text) + 1
        /\ u[e + 1] = l
        /\ \A i \in 1 .. e : u[i] = text[i]
        /\ \A i \in e + 1 .. Len(text) : u[i + 1] = text[i]
    <3>1. l \in TomlLine
      BY <1>1
    <3>2. LineAfter(text, e, l) \in Seq(TomlLine)
      BY <3>1, <2>1, Inserted
    <3>3. LineAfter(text, e, l)[e + 1] = l
      BY <3>1, <2>1, Inserted
    <3>4. \A i \in 1 .. e : u[i] = text[i]
      BY <3>1, <2>1, Inserted
    <3>5. \A i \in e + 1 .. Len(text) : u[i + 1] = text[i]
      BY <3>1, <2>1, Inserted
    <3>6. Len(text) \in Nat /\ Len(u) = Len(text) + 1
      BY <3>1, <2>1, Inserted
    <3> QED
      BY <3>2, <3>3, <3>4, <3>5, <3>6
  <2> QED
    BY <2>2
<1> HIDE DEF u
<1>5. ASSUME NEW i \in 1 .. e PROVE SectionOf(u, i) = SectionOf(text, i)
  BY <1>2, <1>3, <1>4, SameSection, SMTT(30)
<1>6. SectionOf(u, e + 1) = s
  <2>1. /\ e + 1 \in 1 .. Len(u) /\ h0 \in 1 .. e + 1 /\ IsHeader(u[h0]) /\ u[h0].sec = s
        /\ \A j \in h0 + 1 .. e + 1 : ~IsHeader(u[j])
    <3>1. e \in Nat /\ h0 \in Nat /\ h0 <= e /\ e <= n
      BY <1>2, <1>3
    <3>2. e + 1 \in 1 .. Len(u) /\ h0 \in 1 .. e + 1
      BY <1>2, <1>4, <3>1
    <3>3. u[h0] = text[h0]
      BY <1>2, <1>4, <3>1
    <3>4. ASSUME NEW j \in h0 + 1 .. e + 1 PROVE ~IsHeader(u[j])
      <4>1. CASE j = e + 1
        BY <1>1, <1>4, <4>1 DEF IsHeader
      <4>2. CASE j # e + 1
        <5>1. j \in 1 .. e /\ j \in h0 + 1 .. e
          BY <3>1, <4>2
        <5>2. u[j] = text[j] /\ ~IsHeader(text[j])
          BY <1>3, <1>4, <5>1
        <5> QED
          BY <5>2 DEF IsHeader
      <4> QED
        BY <4>1, <4>2
    <3> QED
      BY <1>2, <3>2, <3>3, <3>4
  <2> QED
    BY <1>4, <2>1, SectionFound
<1>7. ASSUME NEW i \in e + 1 .. n PROVE SectionOf(u, i + 1) = SectionOf(text, i)
  <2>1. e + 1 \in 1 .. i /\ IsHeader(text[e + 1]) /\ i \in 1 .. n /\ i + 1 \in 1 .. Len(u)
    BY <1>2, <1>3, <1>4
  <2>2. PICK h \in 1 .. i : IsHeader(text[h]) /\ \A j \in h + 1 .. i : ~IsHeader(text[j])
    BY <2>1, SectionFound
  <2>3. h \in e + 1 .. n
    BY <1>2, <1>3, <2>1, <2>2
  <2>4. h + 1 \in 1 .. i + 1 /\ IsHeader(u[h + 1]) /\ u[h + 1] = text[h]
    BY <1>2, <1>3, <1>4, <2>1, <2>2, <2>3
  <2>5. ASSUME NEW j \in h + 1 + 1 .. i + 1 PROVE ~IsHeader(u[j])
    <3>1. j - 1 \in h + 1 .. i /\ j - 1 \in e + 1 .. n /\ (j - 1) + 1 = j
      BY <1>2, <1>3, <2>3, <2>5
    <3> QED
      BY <1>4, <2>2, <3>1
  <2>6. SectionOf(u, i + 1) = u[h + 1].sec
    BY <1>4, <2>1, <2>4, <2>5, SectionFound, ZenonT(30)
  <2>7. SectionOf(text, i) = text[h].sec
    BY <2>1, <2>2, SectionFound
  <2> QED
    BY <2>4, <2>6, <2>7
<1>8. ln \in [1 .. n -> 1 .. Len(u)] /\ \A i, j \in 1 .. n : ln[i] = ln[j] => i = j
  BY <1>2, <1>3, <1>4
<1>9. \A i \in 1 .. n : SectionOf(u, ln[i]) = SectionOf(text, i) /\ u[ln[i]] = text[i]
  BY <1>2, <1>3, <1>4, <1>5, <1>7
<1>10. \A j \in 1 .. Len(u) : j = e + 1 \/ \E i \in 1 .. n : ln[i] = j
  <2>1. ASSUME NEW j \in 1 .. Len(u), j # e + 1 PROVE \E i \in 1 .. n : ln[i] = j
    <3>1. CASE j <= e
      <4>1. j \in 1 .. n /\ ln[j] = j
        BY <1>2, <1>3, <3>1
      <4> QED
        BY <4>1
    <3>2. CASE e + 1 < j
      <4>1. j - 1 \in 1 .. n /\ ln[j - 1] = j
        BY <1>2, <1>3, <1>4, <3>2
      <4> QED
        BY <4>1
    <3> QED
      BY <1>2, <1>3, <2>1, <3>1, <3>2
  <2> QED
    BY <2>1
<1>11. e + 1 \in 1 .. Len(u)
  BY <1>2, <1>3, <1>4
<1> HIDE DEF ln
<1>12. Amends(text, u, ln, e + 1, s, k)
  BY <1>1, <1>4, <1>6, <1>8, <1>9, <1>10, <1>11 DEF Amends
<1> QED
  BY <1>1, <1>4, <1>12 DEF ln, u, l, e, h0

(* Where "[section]" is in no comment before, the search finds the header, *)
(* and where it is nowhere there is none.                                  *)
LEMMA HeaderIsFound ==
  ASSUME NEW text \in Seq(TomlLine), NEW s \in Sections
  PROVE  /\ HeaderOf(text, s) \in 0 .. Len(text)
         /\ HeaderOf(text, s) = 0 => HeaderLine(text, s) = 0
         /\ HeaderOf(text, s) # 0 /\ Found(text, s) => HeaderLine(text, s) = HeaderOf(text, s)
<1> DEFINE hits == {i \in 1 .. Len(text) : text[i] \in {Header(s), Mention(s)}}
           its  == {i \in 1 .. Len(text) : text[i] = Header(s)}
           ho == HeaderOf(text, s)
           hl == HeaderLine(text, s)
<1>1. ho = IF hits = {} THEN 0 ELSE CHOOSE i \in hits : \A j \in hits : i <= j
  BY DEF HeaderOf, FirstAt
<1>2. hl = IF its = {} THEN 0 ELSE CHOOSE i \in its : \A j \in its : i <= j
  BY DEF HeaderLine, FirstAt
<1>3. hits \in SUBSET Nat /\ its \in SUBSET Nat /\ its \subseteq hits /\ hits \subseteq 1 .. Len(text)
  OBVIOUS
<1>4. hits # {} => ho \in hits /\ \A j \in hits : ho <= j
  <2> HIDE DEF hits
  <2> QED
    BY <1>1, <1>3, SmallestChosen
<1>5. its # {} => hl \in its /\ \A j \in its : hl <= j
  <2> HIDE DEF its
  <2> QED
    BY <1>2, <1>3, SmallestChosen
<1>6. ho # 0 /\ Found(text, s) => ho \in its
  <2>1. ho # 0 => ho \in hits
    <3> HIDE DEF hits
    <3> QED
      BY <1>1, <1>4
  <2>2. ho \in hits /\ text[ho] = Header(s) => ho \in its
    OBVIOUS
  <2> HIDE DEF hits, its
  <2> QED
    BY <2>1, <2>2 DEF Found
<1> HIDE DEF hits, its
<1>7. ho \in 0 .. Len(text)
  <2> HIDE DEF ho
  <2>1. CASE hits = {}
    BY <1>1, <2>1
  <2>2. CASE hits # {}
    <3>1. ho \in 1 .. Len(text)
      BY <1>3, <1>4, <2>2
    <3> QED
      BY <3>1
  <2> QED
    BY <2>1, <2>2
<1>8. ho = 0 => hl = 0
  <2>1. 0 \notin hits
    BY <1>3
  <2> QED
    BY <1>1, <1>2, <1>3, <1>4, <2>1
<1>9. ho \in its => hl = ho
  <2> SUFFICES ASSUME ho \in its PROVE hl = ho
    OBVIOUS
  <2>1. hl \in Nat /\ ho \in Nat /\ hl <= ho /\ ho <= hl
    BY <1>3, <1>4, <1>5
  <2> HIDE DEF ho, hl
  <2> QED
    BY <2>1
<1> QED
  BY <1>6, <1>7, <1>8, <1>9

(* The values of a file stay whole: where a line of one is replaced, where *)
(* a section is put at the end, and where a setting ends one.              *)
LEMMA WholeReplaced ==
  ASSUME NEW text \in Seq(TomlLine), Intact(text), NEW x \in 1 .. Len(text),
         text[x].kind = "key", ~GoesOn(text[x]), NEW l \in TomlLine, l.kind = "key", ~GoesOn(l)
  PROVE  Intact([text EXCEPT ![x] = l])
<1> DEFINE u == [text EXCEPT ![x] = l]
<1>1. /\ u \in Seq(TomlLine) /\ Len(u) = Len(text) /\ u[x] = l
      /\ \A i \in 1 .. Len(text) : i # x => u[i] = text[i]
  OBVIOUS
<1> HIDE DEF u
<1>2. ASSUME NEW i \in 1 .. Len(u)
      PROVE  /\ u[i].kind # "junk"
             /\ u[i].kind = "rest" => i > 1 /\ (GoesOn(u[i - 1]) \/ u[i - 1].kind = "rest")
             /\ GoesOn(u[i]) => i < Len(u) /\ u[i + 1].kind = "rest"
  <2>1. CASE i = x
    BY <1>1, <2>1
  <2>2. CASE i # x
    <3>1. /\ u[i] = text[i] /\ text[i].kind # "junk"
          /\ text[i].kind = "rest" => i > 1 /\ (GoesOn(text[i - 1]) \/ text[i - 1].kind = "rest")
          /\ GoesOn(text[i]) => i < Len(text) /\ text[i + 1].kind = "rest"
      BY <1>1, <2>2 DEF Intact
    <3>2. i > 1 => i - 1 \in 1 .. Len(text)
      BY <1>1
    <3>3. u[i].kind = "rest" => i > 1 /\ i - 1 # x /\ u[i - 1] = text[i - 1]
      BY <1>1, <3>1, <3>2
    <3>4. GoesOn(u[i]) => i + 1 \in 1 .. Len(text) /\ i + 1 # x /\ u[i + 1] = text[i + 1]
      BY <1>1, <3>1
    <3> QED
      BY <1>1, <3>1, <3>3, <3>4
  <2> QED
    BY <2>1, <2>2
<1> QED
  BY <1>2 DEF Intact, u

LEMMA WholeAppended ==
  ASSUME NEW text \in Seq(TomlLine), Intact(text), NEW hd \in TomlLine, NEW l \in TomlLine,
         hd.kind = "header", l.kind = "key", ~GoesOn(l)
  PROVE  Intact(text \o <<hd, l>>)
<1> DEFINE u == text \o <<hd, l>>
           n == Len(text)
<1>1. /\ n \in Nat /\ Len(u) = n + 2 /\ u[n + 1] = hd /\ u[n + 2] = l
      /\ \A i \in 1 .. n : u[i] = text[i]
  OBVIOUS
<1> HIDE DEF u
<1>2. ASSUME NEW i \in 1 .. n + 2
      PROVE  /\ u[i].kind # "junk"
             /\ u[i].kind = "rest" => i > 1 /\ (GoesOn(u[i - 1]) \/ u[i - 1].kind = "rest")
             /\ GoesOn(u[i]) => i < n + 2 /\ u[i + 1].kind = "rest"
  <2>1. CASE i \in {n + 1, n + 2}
    BY <1>1, <2>1 DEF GoesOn
  <2>2. CASE i \notin {n + 1, n + 2}
    <3>1. i \in 1 .. n
      BY <1>1, <2>2
    <3>2. /\ u[i] = text[i] /\ text[i].kind # "junk"
          /\ text[i].kind = "rest" => i > 1 /\ (GoesOn(text[i - 1]) \/ text[i - 1].kind = "rest")
          /\ GoesOn(text[i]) => i < n /\ text[i + 1].kind = "rest"
      BY <1>1, <3>1 DEF Intact
    <3>3. (i > 1 => i - 1 \in 1 .. n) /\ (i < n => i + 1 \in 1 .. n)
      BY <1>1, <3>1
    <3>4. (i > 1 => u[i - 1] = text[i - 1]) /\ (i < n => u[i + 1] = text[i + 1])
      BY <1>1, <3>3
    <3> QED
      BY <1>1, <3>1, <3>2, <3>4
  <2> QED
    BY <2>1, <2>2
<1> QED
  BY <1>1, <1>2 DEF Intact, u

LEMMA WholeInserted ==
  ASSUME NEW text \in Seq(TomlLine), Intact(text), NEW e \in 1 .. Len(text),
         e < Len(text) => IsHeader(text[e + 1]), NEW l \in TomlLine, l.kind = "key", ~GoesOn(l)
  PROVE  Intact(LineAfter(text, e, l))
<1> DEFINE u == LineAfter(text, e, l)
           n == Len(text)
<1>1. e \in 0 .. n
  OBVIOUS
<1>2. Len(u) = n + 1 /\ n \in Nat
  BY <1>1, Inserted
<1>3. u[e + 1] = l
  BY <1>1, Inserted
<1>4. \A i \in 1 .. e : u[i] = text[i]
  BY <1>1, Inserted
<1>5. \A i \in e + 1 .. n : u[i + 1] = text[i]
  BY <1>1, Inserted
<1> HIDE DEF u
<1>6. \A i \in 1 .. n : /\ text[i].kind # "junk"
                        /\ text[i].kind = "rest" => i > 1 /\ (GoesOn(text[i - 1]) \/ text[i - 1].kind = "rest")
                        /\ GoesOn(text[i]) => i < n /\ text[i + 1].kind = "rest"
  BY DEF Intact
<1>7. ~GoesOn(text[e]) /\ (e < n => text[e + 1].kind # "rest")
  BY <1>6 DEF IsHeader
<1>8. ASSUME NEW i \in 1 .. n + 1
      PROVE  /\ u[i].kind # "junk"
             /\ u[i].kind = "rest" => i > 1 /\ (GoesOn(u[i - 1]) \/ u[i - 1].kind = "rest")
             /\ GoesOn(u[i]) => i < n + 1 /\ u[i + 1].kind = "rest"
  <2>1. CASE i = e + 1
    BY <1>3, <2>1
  <2>2. CASE i <= e
    <3>1. i \in 1 .. n /\ (i > 1 => i - 1 \in 1 .. e) /\ (i # e => i + 1 \in 1 .. e)
      BY <2>2
    <3>2. u[i] = text[i] /\ (i > 1 => u[i - 1] = text[i - 1]) /\ (i # e => u[i + 1] = text[i + 1])
      BY <1>4, <2>2, <3>1
    <3>3. i = e => ~GoesOn(text[i])
      BY <1>7
    <3> QED
      BY <1>2, <1>6, <3>1, <3>2, <3>3
  <2>3. CASE e + 1 < i
    <3>1. i - 1 \in e + 1 .. n /\ (i - 1) + 1 = i
      BY <1>2, <2>3
    <3>2. u[i] = text[i - 1]
      BY <1>5, <3>1
    <3>3. ASSUME u[i].kind = "rest"
          PROVE  i > 1 /\ (GoesOn(u[i - 1]) \/ u[i - 1].kind = "rest")
      <4>1. i - 1 # e + 1
        BY <1>7, <3>1, <3>2, <3>3
      <4>2. i - 2 \in e + 1 .. n /\ (i - 2) + 1 = i - 1 /\ (i - 1) - 1 = i - 2
        BY <3>1, <4>1
      <4>3. u[i - 1] = text[i - 2]
        BY <1>5, <4>2
      <4>4. GoesOn(text[i - 2]) \/ text[i - 2].kind = "rest"
        <5>1. i - 1 \in 1 .. n
          BY <3>1
        <5> QED
          BY <1>6, <3>2, <3>3, <4>2, <5>1
      <4> QED
        BY <3>1, <4>3, <4>4
    <3>4. ASSUME GoesOn(u[i]) PROVE i < n + 1 /\ u[i + 1].kind = "rest"
      <4>1. i - 1 \in 1 .. n
        BY <3>1
      <4>2. i - 1 < n /\ text[i].kind = "rest"
        BY <1>6, <3>1, <3>2, <3>4, <4>1
      <4>3. i \in e + 1 .. n
        BY <1>2, <2>3, <4>2
      <4> QED
        BY <1>5, <4>2, <4>3
    <3>5. i - 1 \in 1 .. n
      BY <3>1
    <3> QED
      BY <1>6, <3>2, <3>3, <3>4, <3>5
  <2> QED
    BY <1>2, <2>1, <2>2, <2>3
<1> QED
  BY <1>2, <1>8 DEF Intact, u

(* Saving a setting where an edit of a line at a time can do so.           *)
LEMMA SetKeyEdits ==
  ASSUME NEW text \in Seq(TomlLine), NEW s \in Sections, NEW k \in SettingKeys,
         NEW v \in TomlValues \ {"open"}, Parses(text), Editable(text, s, k)
  PROVE  Parses(SetKey(text, s, k, v))
         /\ Load(SetKey(text, s, k, v)) = With(Load(text), s, k, v)
<1> DEFINE ln == HeaderOf(text, s)
           end == SectionEnd(text, ln)
           its == {i \in ln + 1 .. end : text[i].kind = "key" /\ text[i].key = k}
           x == CHOOSE i \in its : \A j \in its : i <= j
           l == KeyLine(k, v)
           u == SetKey(text, s, k, v)
<1>1. u = IF ln = 0 THEN text \o <<Header(s), l>>
          ELSE IF its = {} THEN InsertedAfter(text, end, l)
          ELSE [text EXCEPT ![x] = l]
  BY DEF SetKey
<1>2. Once(text) /\ Intact(text)
  BY DEF Parses
<1>3. l \in TomlLine /\ l.kind = "key" /\ ~GoesOn(l) /\ Header(s) \in TomlLine /\ Header(s).kind = "header"
  BY NewLines DEF GoesOn
<1>4. ASSUME NEW w \in Seq(TomlLine), NEW f, NEW p, Amends(text, w, f, p, s, k), w[p].val = v, Intact(w)
      PROVE  Parses(w) /\ Load(w) = With(Load(text), s, k, v)
  <2> HIDE DEF u
  <2>1. Parses(w)
    BY <1>2, <1>4, EditedParses DEF Parses
  <2>2. Load(w) = With(Load(text), s, k, w[p].val)
    BY <1>2, <1>4, EditedLoads
  <2> QED
    BY <1>4, <2>1, <2>2
<1>5. CASE ln = 0
  <2> DEFINE w == text \o <<Header(s), l>>
  <2>1. HeaderLine(text, s) = 0
    BY <1>5, HeaderIsFound
  <2>2. w \in Seq(TomlLine) /\ w[Len(text) + 2].val = v
        /\ Amends(text, w, [i \in 1 .. Len(text) |-> i], Len(text) + 2, s, k)
    BY <1>2, <2>1, EditAppends
  <2>3. Intact(w)
    <3> HIDE DEF l
    <3> QED
      BY <1>2, <1>3, WholeAppended
  <2>4. Parses(w) /\ Load(w) = With(Load(text), s, k, v)
    <3> HIDE DEF w
    <3> QED
      BY <1>4, <2>2, <2>3
  <2> QED
    BY <1>1, <1>5, <2>4
<1>6. ASSUME ln # 0
      PROVE  /\ HeaderLine(text, s) = ln /\ ln \in 1 .. Len(text) /\ text[ln] = Header(s)
             /\ end \in ln .. Len(text) /\ (end < Len(text) => IsHeader(text[end + 1]))
             /\ its = KeysOf(text, s, k)
  <2>1. HeaderLine(text, s) = ln /\ ln \in 1 .. Len(text) /\ text[ln] = Header(s)
    BY <1>6, HeaderIsFound DEF Editable, Found
  <2>2. end \in ln .. Len(text) /\ (end < Len(text) => IsHeader(text[end + 1]))
    BY <2>1, EndFound
  <2>3. text[ln].kind # "key"
    BY <2>1, NewLines
  <2>4. \A i \in 1 .. Len(text) : SectionOf(text, i) = s <=> i \in ln .. end
    BY <1>2, <1>6, <2>1, SectionsAreIntervals DEF Once, OneHeader
  <2> HIDE DEF ln, end
  <2>5. ASSUME NEW i \in its PROVE i \in KeysOf(text, s, k)
    BY <2>1, <2>2, <2>4, <2>5 DEF KeysOf
  <2>6. ASSUME NEW i \in KeysOf(text, s, k) PROVE i \in its
    <3>1. i \in 1 .. Len(text) /\ text[i].kind = "key" /\ text[i].key = k /\ SectionOf(text, i) = s
      BY <2>6 DEF KeysOf
    <3>2. i \in ln .. end /\ i # ln
      BY <2>3, <2>4, <3>1
    <3> QED
      BY <2>1, <2>2, <3>1, <3>2
  <2> HIDE DEF its
  <2> QED
    BY <2>1, <2>2, <2>5, <2>6
<1>7. CASE ln # 0 /\ its = {}
  <2> DEFINE w == LineAfter(text, end, l)
  <2>1. its = KeysOf(text, s, k) /\ HeaderLine(text, s) = ln /\ end \in 1 .. Len(text)
    BY <1>6, <1>7
  <2>2. OwnLine(text, end)
    BY <1>7, <2>1 DEF Editable
  <2>3. u = w
    BY <1>1, <1>7, <2>2 DEF InsertedAfter
  <2>4. w \in Seq(TomlLine) /\ w[end + 1].val = v
        /\ Amends(text, w, [i \in 1 .. Len(text) |-> IF i <= end THEN i ELSE i + 1], end + 1, s, k)
    <3>1. KeysOf(text, s, k) = {} /\ HeaderLine(text, s) # 0
      BY <1>7, <2>1
    <3>2. end = SectionEnd(text, HeaderLine(text, s))
      BY <2>1
    <3>3. v \in TomlValues
      OBVIOUS
    <3>4. LET e == SectionEnd(text, HeaderLine(text, s))
              a == LineAfter(text, e, KeyLine(k, v))
          IN /\ a \in Seq(TomlLine) /\ a[e + 1].val = v
             /\ Amends(text, a, [i \in 1 .. Len(text) |-> IF i <= e THEN i ELSE i + 1], e + 1, s, k)
      BY <1>2, <3>1, <3>3, EditInserts
    <3> HIDE DEF end, its, ln
    <3> QED
      BY <3>2, <3>4
  <2>5. Intact(w)
    <3>1. end < Len(text) => IsHeader(text[end + 1])
      BY <1>6, <1>7
    <3> HIDE DEF end, l, its
    <3> QED
      BY <1>2, <1>3, <2>1, <3>1, WholeInserted
  <2>6. Parses(w) /\ Load(w) = With(Load(text), s, k, v)
    <3> HIDE DEF w
    <3> QED
      BY <1>4, <2>4, <2>5
  <2> HIDE DEF its
  <2> QED
    BY <2>3, <2>6
<1>8. CASE ln # 0 /\ its # {}
  <2>1. x \in KeysOf(text, s, k)
    <3>1. its \in SUBSET Nat
      <4>1. ln \in Nat
        BY <1>6, <1>8
      <4> QED
        BY <4>1
    <3>2. its = KeysOf(text, s, k)
      BY <1>6, <1>8
    <3> HIDE DEF its
    <3> QED
      BY <1>8, <3>1, <3>2, SmallestChosen
  <2> HIDE DEF x
  <2>2. x \in 1 .. Len(text) /\ text[x].kind = "key" /\ text[x].key = k /\ SectionOf(text, x) = s
    BY <2>1 DEF KeysOf
  <2>3. ~GoesOn(text[x])
    <3>1. Load(text)[s][k] = text[x].val
      BY <1>2, <2>1, LoadReads
    <3> QED
      BY <3>1 DEF Editable, GoesOn
  <2> DEFINE w == [text EXCEPT ![x] = l]
  <2>4. w \in Seq(TomlLine) /\ w[x].val = v
        /\ Amends(text, w, [i \in 1 .. Len(text) |-> i], x, s, k)
    BY <1>2, <2>2, EditReplaces
  <2>5. Intact(w)
    <3> HIDE DEF l
    <3> QED
      BY <1>2, <1>3, <2>2, <2>3, WholeReplaced
  <2>6. Parses(w) /\ Load(w) = With(Load(text), s, k, v)
    <3> HIDE DEF w
    <3> QED
      BY <1>4, <2>4, <2>5
  <2> HIDE DEF its
  <2> QED
    BY <1>1, <1>8, <2>6
<1> HIDE DEF its
<1> QED
  BY <1>5, <1>7, <1>8

(* A setting before the first header is none that is read.                 *)
LEMMA EditedUnread ==
  ASSUME NEW old \in Seq(TomlLine), NEW upd \in Seq(TomlLine), NEW place, NEW said, NEW k,
         Amends(old, upd, place, said, Unset, k), Once(old)
  PROVE  Load(upd) = Load(old)
<1>1. \A s2 \in Sections, k2 \in SettingKeys : Load(upd)[s2][k2] = Load(old)[s2][k2]
  <2> TAKE s2 \in Sections, k2 \in SettingKeys
  <2>1. <<s2, k2>> # <<Unset, k>>
    BY TomlAssumption
  <2> QED
    BY <2>1, LoadedElsewhere
<1> DEFINE A == Load(old) B == Load(upd)
<1>2. /\ A = [s2 \in Sections |-> [k2 \in SettingKeys |-> A[s2][k2]]]
      /\ B = [s2 \in Sections |-> [k2 \in SettingKeys |-> B[s2][k2]]]
  BY DEF Load
<1> HIDE DEF A, B
<1>3. \A s2 \in Sections : [k2 \in SettingKeys |-> A[s2][k2]] = [k2 \in SettingKeys |-> B[s2][k2]]
  BY <1>1 DEF A, B
<1>4. A = B
  BY <1>2, <1>3
<1> QED
  BY <1>4 DEF A, B

(* Turning a switch: the file is read as it was, or one flag that was off  *)
(* is on, and that of the cloud where its line comes first.                *)
LEMMA FlipEdits ==
  ASSUME NEW text \in Seq(TomlLine), Parses(text), HeaderOf(text, Cloud) # 0
  PROVE  /\ Parses(FlipCloud(text, "false", "true"))
         /\ \/ Load(FlipCloud(text, "false", "true")) = Load(text)
            \/ \E s \in Sections, k \in SettingKeys :
                 /\ Load(text)[s][k] = "false"
                 /\ Load(FlipCloud(text, "false", "true")) = With(Load(text), s, k, "true")
         /\ \A x \in KeysOf(text, Cloud, Enabled) :
              Found(text, Cloud)
              /\ text[x].val = "false" /\ (\A i \in 1 .. Len(text) : text[i] # Prose({Enabled}))
                => Load(FlipCloud(text, "false", "true")) =
                     With(Load(text), Cloud, Enabled, "true")
<1> DEFINE ln == HeaderOf(text, Cloud)
           end == SectionEnd(text, ln)
           Says(l) == \/ l.kind = "key" /\ l.key = Enabled
                      \/ l.kind = "prose" /\ Enabled \in l.words
           words == {i \in ln + 1 .. Len(text) : Says(text[i])}
           word == IF words = {} THEN 0 ELSE CHOOSE i \in words : \A j \in words : i <= j
           hit == {i \in Within(text, word) : text[i].kind = "key" /\ text[i].val = "false"}
           y == CHOOSE i \in hit : \A j \in hit : i <= j
           u == FlipCloud(text, "false", "true")
<1>1. u = IF word = 0 \/ hit = {} THEN text ELSE [text EXCEPT ![y].val = "true"]
  BY DEF FlipCloud, FirstAt
<1>2. ln \in 1 .. Len(text)
  BY HeaderIsFound, TomlAssumption
<1>3. words # {} => word \in words /\ \A j \in words : word <= j
  <2>1. words \in SUBSET Nat
    BY <1>2
  <2> HIDE DEF words
  <2> QED
    BY <2>1, SmallestChosen
<1>4. words # {} => word \in 1 .. Len(text)
  <2>1. words \subseteq 1 .. Len(text)
    BY <1>2
  <2> HIDE DEF words, word
  <2> QED
    BY <1>3, <2>1
<1>5. word # 0 => words # {}
  <2> HIDE DEF words
  <2> QED
    OBVIOUS
<1> HIDE DEF word
<1>6. ASSUME word # 0
      PROVE  Within(text, word) \subseteq word .. Len(text) /\ word \in Within(text, word)
             /\ Within(text, word) \in SUBSET Nat
  <2> HIDE DEF words
  <2> QED
    BY <1>4, <1>5, <1>6 DEF Within
<1>7. ASSUME word # 0, hit # {}
      PROVE  /\ y \in hit /\ \A j \in hit : y <= j
             /\ y \in 1 .. Len(text) /\ text[y].kind = "key" /\ text[y].key \in SettingKeys
             /\ text[y].val = "false"
             /\ u = [text EXCEPT ![y] = KeyLine(text[y].key, "true")]
  <2>1. hit \in SUBSET Nat
    BY <1>6, <1>7
  <2>2. y \in hit /\ \A j \in hit : y <= j
    <3> HIDE DEF hit
    <3> QED
      BY <1>7, <2>1, SmallestChosen
  <2> HIDE DEF y, words
  <2>3. y \in 1 .. Len(text) /\ text[y].kind = "key" /\ text[y].val = "false" /\ text[y] \in TomlLine
    BY <1>4, <1>5, <1>6, <1>7, <2>2
  <2>4. text[y].key \in SettingKeys /\ text[y] = KeyLine(text[y].key, text[y].val)
    BY <2>3, LineShapes
  <2>5. [text[y] EXCEPT !.val = "true"] = KeyLine(text[y].key, "true")
    BY <2>4 DEF KeyLine
  <2>6. u = [text EXCEPT ![y].val = "true"]
    <3> HIDE DEF hit
    <3> QED
      BY <1>1, <1>7
  <2>7. [text EXCEPT ![y].val = "true"] = [text EXCEPT ![y] = [text[y] EXCEPT !.val = "true"]]
    OBVIOUS
  <2> QED
    BY <2>2, <2>3, <2>4, <2>5, <2>6, <2>7
<1>8. Once(text) /\ Intact(text)
  BY DEF Parses
<1>9. /\ Parses(u)
      /\ \/ Load(u) = Load(text)
         \/ \E s \in Sections, k \in SettingKeys :
              Load(text)[s][k] = "false" /\ Load(u) = With(Load(text), s, k, "true")
  <2> HIDE DEF hit, y
  <2>1. CASE word = 0 \/ hit = {}
    <3>1. u = text
      BY <1>1, <2>1
    <3> HIDE DEF u
    <3> QED
      BY <3>1
  <2>2. CASE word # 0 /\ hit # {}
    <3> HIDE DEF u
    <3> DEFINE s == SectionOf(text, y) k == text[y].key
               l == KeyLine(k, "true")
               w == [text EXCEPT ![y] = l]
               f == [i \in 1 .. Len(text) |-> i]
    <3>1. /\ "true" \in TomlValues /\ y \in 1 .. Len(text) /\ text[y].kind = "key" /\ u = w
          /\ k \in SettingKeys /\ text[y].val = "false"
      BY <1>7, <2>2 DEF TomlValues
    <3>2. w \in Seq(TomlLine) /\ w[y].val = "true" /\ Amends(text, w, f, y, s, k)
      BY <1>8, <3>1, EditReplaces
    <3>3. Intact(w)
      <4>1. l \in TomlLine /\ l.kind = "key" /\ ~GoesOn(l) /\ ~GoesOn(text[y])
        BY <3>1, NewLines, TomlAssumption DEF GoesOn, TomlLine, KeyLine
      <4> HIDE DEF l
      <4> QED
        BY <1>8, <3>1, <4>1, WholeReplaced
    <3>4. s \in Sections \cup {Unset}
      BY <1>8, <3>1, SectionsAreIntervals, TomlAssumption DEF Once, OneHeader
    <3>5. y \in KeysOf(text, s, k)
      BY <3>1 DEF KeysOf
    <3> HIDE DEF w, f, s, k
    <3>6. Parses(w)
      BY <1>8, <3>2, <3>3, EditedParses DEF Parses
    <3>7. CASE s = Unset
      BY <1>8, <3>1, <3>2, <3>6, <3>7, EditedUnread
    <3>8. CASE s \in Sections
      <4>1. Load(w) = With(Load(text), s, k, "true")
        BY <1>8, <3>1, <3>2, <3>8, EditedLoads
      <4>2. Load(text)[s][k] = "false"
        BY <1>8, <3>1, <3>5, <3>8, LoadReads
      <4> QED
        BY <3>1, <3>6, <3>8, <4>1, <4>2
    <3> QED
      BY <3>4, <3>7, <3>8
  <2> QED
    BY <2>1, <2>2
<1>10. ASSUME NEW x \in KeysOf(text, Cloud, Enabled), text[x].val = "false", Found(text, Cloud),
              \A i \in 1 .. Len(text) : text[i] # Prose({Enabled})
       PROVE  Load(u) = With(Load(text), Cloud, Enabled, "true")
  <2>1. x \in 1 .. Len(text) /\ text[x].kind = "key" /\ text[x].key = Enabled
        /\ SectionOf(text, x) = Cloud
    BY <1>10 DEF KeysOf
  <2>2. end \in ln .. Len(text) /\ text[ln] = Header(Cloud) /\ HeaderLine(text, Cloud) = ln
    BY <1>2, <1>10, HeaderIsFound, EndFound, TomlAssumption DEF Found
  <2>3. \A i \in 1 .. Len(text) : SectionOf(text, i) = Cloud <=> i \in ln .. end
    BY <1>8, <2>2, SectionsAreIntervals, TomlAssumption DEF Once, OneHeader
  <2>4. text[ln].kind # "key"
    BY <2>2 DEF Header
  <2> HIDE DEF ln, end
  <2>5. x \in ln + 1 .. end
    BY <1>2, <2>1, <2>2, <2>3, <2>4
  <2>6. ASSUME NEW i \in words PROVE text[i].kind = "key" /\ text[i].key = Enabled
    <3>1. i \in 1 .. Len(text) /\ text[i] \in TomlLine
      BY <1>2
    <3>2. text[i].kind = "prose" => Enabled \notin text[i].words
      BY <1>10, <3>1, LineShapes
    <3> QED
      BY <3>2
  <2>7. x \in words
    BY <1>2, <2>1, <2>2, <2>5
  <2>8. ASSUME NEW i \in words, i <= x PROVE i = x
    <3>1. i \in ln .. end /\ i \in 1 .. Len(text)
      BY <1>2, <2>2, <2>5, <2>8
    <3>2. i \in KeysOf(text, Cloud, Enabled)
      BY <2>3, <2>6, <2>8, <3>1 DEF KeysOf
    <3> QED
      BY <1>8, <1>10, <3>2, TomlAssumption DEF Once
  <2> HIDE DEF words
  <2>9. word = x
    BY <1>3, <2>7, <2>8
  <2>10. word # 0
    BY <2>1, <2>9
  <2>11. x \in hit
    BY <1>6, <1>10, <2>1, <2>9, <2>10
  <2>12. \A j \in hit : x <= j
    BY <1>6, <2>1, <2>9, <2>10
  <2>13. hit \subseteq Nat
    BY <1>6, <2>10
  <2> HIDE DEF hit, y, u
  <2>14. y = x
    BY <1>7, <2>10, <2>11, <2>12, <2>13
  <2> DEFINE w == [text EXCEPT ![x] = KeyLine(text[x].key, "true")]
             f == [i \in 1 .. Len(text) |-> i]
  <2>15. "true" \in TomlValues /\ u = w
    BY <1>7, <2>10, <2>11, <2>14 DEF TomlValues
  <2>16. w \in Seq(TomlLine) /\ w[x].val = "true" /\ Amends(text, w, f, x, Cloud, Enabled)
    BY <1>8, <2>1, <2>15, EditReplaces
  <2> HIDE DEF w, f
  <2>17. Load(w) = With(Load(text), Cloud, Enabled, w[x].val)
    BY <1>8, <2>16, EditedLoads, TomlAssumption
  <2> QED
    BY <2>15, <2>16, <2>17
<1> HIDE DEF u
<1> QED
  BY <1>9, <1>10 DEF u

(* What the switch for the cloud writes, wherever its line is.             *)
LEMMA EnableEdits ==
  ASSUME NEW text \in Seq(TomlLine), Parses(text)
  PROVE  LET before == Load(text)
             after == JsonCloudEnable(text)
         IN /\ Parses(after)
            /\ HeaderOf(text, Cloud) = 0 => Load(after) = With(before, Cloud, Enabled, "true")
            /\ HeaderOf(text, Cloud) # 0 =>
                 \/ Load(after) = before
                 \/ \E s \in Sections, k \in SettingKeys :
                      before[s][k] = "false" /\ Load(after) = With(before, s, k, "true")
            /\ ( /\ Found(text, Cloud) /\ before[Cloud][Enabled] = "false"
                 /\ \A i \in 1 .. Len(text) : text[i] # Prose({Enabled}))
                 => Load(after) = With(before, Cloud, Enabled, "true")
<1>1. Cloud \in Sections /\ Enabled \in SettingKeys /\ "true" \in TomlValues /\ Once(text) /\ Intact(text)
  BY TomlAssumption DEF TomlValues, Parses
<1>2. CASE HeaderOf(text, Cloud) = 0
  <2> DEFINE hd == Header(Cloud) l == KeyLine(Enabled, "true")
             w == text \o <<hd, l>>
             f == [i \in 1 .. Len(text) |-> i]
  <2>1. JsonCloudEnable(text) = w
    BY <1>2 DEF JsonCloudEnable
  <2>2. HeaderLine(text, Cloud) = 0
    BY <1>1, <1>2, HeaderIsFound
  <2>3. w \in Seq(TomlLine) /\ w[Len(text) + 2].val = "true"
        /\ Amends(text, w, f, Len(text) + 2, Cloud, Enabled)
    BY <1>1, <2>2, EditAppends
  <2>4. Intact(w)
    <3>1. hd \in TomlLine /\ hd.kind = "header" /\ l \in TomlLine /\ l.kind = "key" /\ ~GoesOn(l)
      BY <1>1, NewLines DEF GoesOn
    <3> HIDE DEF hd, l
    <3> QED
      BY <1>1, <3>1, WholeAppended
  <2> HIDE DEF w, f
  <2>5. Parses(w) /\ Load(w) = With(Load(text), Cloud, Enabled, "true")
    <3>1. Parses(w)
      BY <1>1, <2>3, <2>4, EditedParses DEF Parses
    <3>2. Load(w) = With(Load(text), Cloud, Enabled, w[Len(text) + 2].val)
      BY <1>1, <2>3, EditedLoads
    <3> QED
      BY <2>3, <3>1, <3>2
  <2> QED
    BY <1>2, <2>1, <2>5
<1>3. CASE HeaderOf(text, Cloud) # 0
  <2>1. JsonCloudEnable(text) = FlipCloud(text, "false", "true")
    BY <1>3 DEF JsonCloudEnable
  <2>2. \A x \in KeysOf(text, Cloud, Enabled) : Load(text)[Cloud][Enabled] = text[x].val
    BY <1>1, LoadReads
  <2>3. Load(text)[Cloud][Enabled] = "false" => KeysOf(text, Cloud, Enabled) # {}
    BY <1>1, LoadReads DEF Unset
  <2> QED
    BY <1>3, <2>1, <2>2, <2>3, FlipEdits
<1> QED
  BY <1>2, <1>3

(* The file holds lines.                                                   *)
LEMMA TomlTyped == TomlInit /\ [][TomlNext]_tomlFile => [](toml \in Seq(TomlLine))
<1>1. TomlInit => toml \in Seq(TomlLine)
  BY DEF TomlInit
<1>2. toml \in Seq(TomlLine) /\ [TomlNext]_tomlFile => (toml \in Seq(TomlLine))'
  <2>1. Lines \subseteq TomlLine
    <3>1. Mention(Cloud) \in TomlLine
      BY TomlAssumption DEF TomlLine
    <3> QED
      BY <3>1 DEF Lines, TomlLine, TomlValues
  <2> QED
    BY <2>1 DEF TomlNext, TypeLine, tomlFile
<1> QED
  BY <1>1, <1>2, PTL

(* For any sections, keys and length of the file, and whatever else is in  *)
(* it: where an edit of a line can, saving a setting changes that setting  *)
(* and no other; and the switch for the cloud leaves a file that parses    *)
(* with at most one more setting on, the cloud's where it finds it.        *)
THEOREM EditsStay == TomlInit /\ [][TomlNext]_tomlFile => []EditsStayInPlace
<1>1. toml \in Seq(TomlLine) => EditsStayInPlace
  <2> SUFFICES ASSUME toml \in Seq(TomlLine), Parses(toml) PROVE EditsStayInPlace
    BY DEF EditsStayInPlace, OneSettingChanges, CloudSwitchFlips
  <2>1. OneSettingChanges
    BY SetKeyEdits DEF OneSettingChanges, TomlValues, With
  <2>2. CloudSwitchFlips
    BY EnableEdits DEF CloudSwitchFlips, With
  <2> QED
    BY <2>1, <2>2 DEF EditsStayInPlace
<1> QED
  BY <1>1, TomlTyped, PTL

-----------------------------------------------------------------------------

(* What a text, an escape or a code is made of.                            *)
TextChar == Characters \cup {"hex", "code"}

(* What JsonString reads from a character on, given what it reads later.   *)
StringAt(doc, i, read) ==
  IF i > Len(doc) \/ doc[i] = "q" THEN <<>>
  ELSE IF doc[i] = "b" /\ i < Len(doc)
    THEN Unescaped(doc[i + 1]) \o (IF i + 2 > Len(doc) THEN <<>> ELSE read[i + 2])
  ELSE <<doc[i]>> \o read[i + 1]

(* JsonString reads as StringAt says, up to the end of the document.       *)
LEMMA StringRead ==
  ASSUME NEW doc \in Seq(TextChar)
  PROVE  \E read : /\ JsonString(doc) = read[1]
                   /\ \A i \in 1 .. Len(doc) + 1 : read[i] = StringAt(doc, i, read)
<1> DEFINE last == Len(doc) + 1
           Out == Seq(TextChar)
           Maps == [1 .. last -> Out]
           step == [p \in (1 .. last) \X Maps |-> StringAt(doc, p[1], p[2])]
           Is(g) == g = [i \in 1 .. last |-> StringAt(doc, i, g)]
           read == CHOOSE g : Is(g)
<1>1. last \in Nat /\ Len(doc) \in Nat /\ last = Len(doc) + 1 /\ Out # {}
  OBVIOUS
<1>2. ASSUME NEW i \in 1 .. last, NEW g \in Maps PROVE StringAt(doc, i, g) \in Out
  <2>1. CASE i > Len(doc) \/ doc[i] = "q"
    BY <2>1 DEF StringAt
  <2>2. CASE ~ (i > Len(doc) \/ doc[i] = "q") /\ doc[i] = "b" /\ i < Len(doc)
    <3>1. Unescaped(doc[i + 1]) \in Out
      <4>1. doc[i + 1] \in TextChar
        BY <1>1, <2>2
      <4>2. "l" \in TextChar
        BY DEF TextChar, Characters
      <4> QED
        BY <4>1, <4>2 DEF Unescaped
    <3>2. (IF i + 2 > Len(doc) THEN <<>> ELSE g[i + 2]) \in Out
      <4>1. CASE i + 2 > Len(doc)
        BY <4>1
      <4>2. CASE ~ (i + 2 > Len(doc))
        <5>1. i + 2 \in 1 .. last
          BY <1>1, <4>2
        <5>2. g[i + 2] \in Out
          BY <5>1
        <5> QED
          BY <4>2, <5>2
      <4> QED
        BY <4>1, <4>2
    <3> QED
      BY <2>2, <3>1, <3>2 DEF StringAt
  <2>3. CASE ~ (i > Len(doc) \/ doc[i] = "q") /\ ~ (doc[i] = "b" /\ i < Len(doc))
    <3>1. i \in 1 .. Len(doc) /\ i + 1 \in 1 .. last
      BY <1>1, <2>3
    <3>2. <<doc[i]>> \in Out /\ g[i + 1] \in Out
      BY <3>1
    <3> QED
      BY <2>3, <3>2 DEF StringAt
  <2> QED
    BY <2>1, <2>2, <2>3
<1>3. ASSUME NEW i \in 1 .. last, NEW g, NEW h, \A j \in i + 1 .. last : g[j] = h[j]
      PROVE  StringAt(doc, i, g) = StringAt(doc, i, h)
  <2>1. i <= Len(doc) => g[i + 1] = h[i + 1]
    BY <1>1, <1>3
  <2>2. i + 2 <= Len(doc) => g[i + 2] = h[i + 2]
    BY <1>1, <1>3
  <2> QED
    BY <1>1, <2>1, <2>2 DEF StringAt
<1> HIDE DEF last, Out
<1>4. step \in [(1 .. last) \X Maps -> Out]
  <2>1. ASSUME NEW p \in (1 .. last) \X Maps PROVE StringAt(doc, p[1], p[2]) \in Out
    <3>1. p[1] \in 1 .. last /\ p[2] \in Maps
      OBVIOUS
    <3> QED
      BY <1>2, <3>1
  <2> QED
    BY <2>1
<1>5. \A i \in 1 .. last, g \in Maps : step[<<i, g>>] = StringAt(doc, i, g)
  OBVIOUS
<1> HIDE DEF step
<1>6. PICK f \in Maps : \A i \in 1 .. last : f[i] = step[<<i, f>>]
  <2>1. ASSUME NEW i \in 1 .. last, NEW g \in Maps, NEW h \in Maps,
               \A j \in i + 1 .. last : g[j] = h[j]
        PROVE  step[<<i, g>>] = step[<<i, h>>]
    <3>1. StringAt(doc, i, g) = StringAt(doc, i, h)
      BY <1>3, <2>1
    <3>2. step[<<i, g>>] = StringAt(doc, i, g) /\ step[<<i, h>>] = StringAt(doc, i, h)
      BY <1>5
    <3> QED
      BY <3>1, <3>2
  <2>2. PICK f : IsTail(f, Out, last, step)
    BY <1>1, <1>4, <2>1, TailExists
  <2> QED
    BY <2>2 DEF IsTail
<1>7. Is(f)
  <2>1. f = [i \in 1 .. last |-> f[i]]
    BY <1>6
  <2> QED
    BY <1>5, <1>6, <2>1
<1>8. Is(read)
  <2> HIDE DEF Is
  <2> QED
    BY <1>7
<1>9. JsonString(doc) = read[1]
  BY DEF JsonString, StringAt, last
<1>10. \A i \in 1 .. last : read[i] = StringAt(doc, i, read)
  <2> HIDE DEF read
  <2> QED
    BY <1>8
<1> HIDE DEF read
<1> QED
  BY <1>1, <1>9, <1>10

(* What a character of a JSON string is read back as.                      *)
ReadBack(ch) == IF ch = "c" THEN "hex" ELSE ch

(* A character is escaped as one or two.                                   *)
LEMMA EscapeOne ==
  ASSUME NEW ch \in Characters
  PROVE  /\ JsonEscape1(ch) \in Seq(TextChar)
         /\ \/ /\ Len(JsonEscape1(ch)) = 1 /\ JsonEscape1(ch)[1] = ReadBack(ch)
               /\ ReadBack(ch) \notin {"q", "b"}
            \/ /\ Len(JsonEscape1(ch)) = 2 /\ JsonEscape1(ch)[1] = "b"
               /\ Unescaped(JsonEscape1(ch)[2]) = <<ReadBack(ch)>>
<1>1. "q" \in TextChar /\ "b" \in TextChar /\ "n" \in TextChar /\ "hex" \in TextChar /\ ch \in TextChar
  BY DEF TextChar, Characters
<1>2. ASSUME NEW x \in TextChar
      PROVE  /\ <<"b", x>> \in Seq(TextChar)
             /\ Len(<<"b", x>>) = 2 /\ <<"b", x>>[1] = "b" /\ <<"b", x>>[2] = x
  BY <1>1
<1>3. CASE ch = "q"
  <2>1. JsonEscape1(ch) = <<"b", "q">>
    BY <1>3 DEF JsonEscape1
  <2> QED
    <3>1. Unescaped("q") = <<ReadBack(ch)>>
      BY <1>3 DEF Unescaped, ReadBack
    <3>2. /\ <<"b", "q">> \in Seq(TextChar)
          /\ Len(<<"b", "q">>) = 2 /\ <<"b", "q">>[1] = "b" /\ <<"b", "q">>[2] = "q"
      BY <1>2, <1>1
    <3> QED
      BY <2>1, <3>1, <3>2
<1>4. CASE ch = "b"
  <2>1. JsonEscape1(ch) = <<"b", "b">>
    BY <1>4 DEF JsonEscape1
  <2> QED
    <3>1. Unescaped("b") = <<ReadBack(ch)>>
      BY <1>4 DEF Unescaped, ReadBack
    <3>2. /\ <<"b", "b">> \in Seq(TextChar)
          /\ Len(<<"b", "b">>) = 2 /\ <<"b", "b">>[1] = "b" /\ <<"b", "b">>[2] = "b"
      BY <1>2, <1>1
    <3> QED
      BY <2>1, <3>1, <3>2
<1>5. CASE ch = "l"
  <2>1. JsonEscape1(ch) = <<"b", "n">>
    BY <1>5 DEF JsonEscape1
  <2> QED
    <3>1. Unescaped("n") = <<ReadBack(ch)>>
      BY <1>5 DEF Unescaped, ReadBack
    <3>2. /\ <<"b", "n">> \in Seq(TextChar)
          /\ Len(<<"b", "n">>) = 2 /\ <<"b", "n">>[1] = "b" /\ <<"b", "n">>[2] = "n"
      BY <1>2, <1>1
    <3> QED
      BY <2>1, <3>1, <3>2
<1>6. CASE ch = "c"
  <2>1. JsonEscape1(ch) = <<"b", "hex">>
    BY <1>6 DEF JsonEscape1
  <2> QED
    <3>1. Unescaped("hex") = <<ReadBack(ch)>>
      BY <1>6 DEF Unescaped, ReadBack
    <3>2. /\ <<"b", "hex">> \in Seq(TextChar)
          /\ Len(<<"b", "hex">>) = 2 /\ <<"b", "hex">>[1] = "b" /\ <<"b", "hex">>[2] = "hex"
      BY <1>2, <1>1
    <3> QED
      BY <2>1, <3>1, <3>2
<1>7. CASE ch \notin {"q", "b", "l", "c"}
  <2>1. JsonEscape1(ch) = <<ch>>
    BY <1>7 DEF JsonEscape1
  <2> QED
    BY <1>1, <1>7, <2>1 DEF ReadBack
<1> QED
  BY <1>3, <1>4, <1>5, <1>6, <1>7

(* Whatever was escaped is read back, up to the quote that closes it.      *)
LEMMA EscapedReads ==
  ASSUME NEW text \in Seq(Characters), NEW post \in Seq(TextChar), post # <<>>, post[1] = "q"
  PROVE  JsonString(JsonEscape(text) \o post) = [i \in 1 .. Len(text) |-> ReadBack(text[i])]
<1> DEFINE size == Len(text)
           pieces == [i \in 1 .. size |-> JsonEscape1(text[i])]
           esc == FlattenSeq(pieces)
           whole == esc \o post
           back == [i \in 1 .. size |-> ReadBack(text[i])]
<1>1. size \in Nat /\ JsonEscape(text) = esc /\ \A i \in 1 .. size : text[i] \in Characters
  BY DEF JsonEscape
<1>2. pieces \in Seq(Seq(TextChar)) /\ Len(pieces) = size
      /\ \A i \in 1 .. size : pieces[i] = JsonEscape1(text[i])
  BY <1>1, EscapeOne
<1>3. back \in Seq(TextChar) /\ Len(back) = size /\ \A i \in 1 .. size : back[i] = ReadBack(text[i])
  <2>1. \A ch \in Characters : ReadBack(ch) \in TextChar
    BY DEF ReadBack, TextChar, Characters
  <2> QED
    BY <1>1, <2>1
<1> HIDE DEF pieces, back, size
<1>4. esc \in Seq(TextChar) /\ \E starts : Follow(pieces, esc, starts)
  BY <1>2, FlattenJoins
<1> HIDE DEF esc
<1>5. PICK starts : Follow(pieces, esc, starts)
  BY <1>4
<1>6. /\ whole \in Seq(TextChar) /\ Len(whole) = Len(esc) + Len(post)
      /\ \A i \in 1 .. Len(esc) : whole[i] = esc[i]
  BY <1>4, TwoParts
<1>7. Len(post) \in Nat /\ Len(post) >= 1 /\ Len(esc) \in Nat
  BY <1>4
<1>8. whole[Len(esc) + 1] = "q"
  <2>1. \A i \in 1 .. Len(post) : whole[Len(esc) + i] = post[i]
    BY <1>4, TwoParts
  <2>2. 1 \in 1 .. Len(post)
    BY <1>7
  <2> QED
    BY <2>1, <2>2
<1> HIDE DEF whole
<1>9. PICK read : /\ JsonString(whole) = read[1]
                  /\ \A i \in 1 .. Len(whole) + 1 : read[i] = StringAt(whole, i, read)
  BY <1>6, StringRead
<1> DEFINE Reads == {i \in 1 .. size + 1 : read[starts[i - 1] + 1] = SubSeq(back, i, size)}
<1>10. size + 1 \in Reads
  <2>1. starts[(size + 1) - 1] = Len(esc) /\ size + 1 \in 1 .. size + 1
    BY <1>1, <1>2, <1>5 DEF Follow
  <2>2. Len(esc) + 1 \in 1 .. Len(whole) + 1 /\ ~ (Len(esc) + 1 > Len(whole))
    BY <1>6, <1>7
  <2>3. read[Len(esc) + 1] = <<>>
    BY <1>8, <1>9, <2>2 DEF StringAt
  <2>4. SubSeq(back, size + 1, size) = <<>>
    BY <1>1, SubSeqEmpty
  <2> QED
    BY <2>1, <2>3, <2>4
<1>11. ASSUME NEW i \in 1 .. size, i + 1 \in Reads PROVE i \in Reads
  <2> DEFINE from == starts[i - 1] piece == pieces[i]
  <2>1. /\ from \in Nat /\ starts[i] = from + Len(piece) /\ starts[i] <= Len(esc)
        /\ \A j \in 1 .. Len(piece) : esc[from + j] = piece[j]
    <3>1. /\ from \in Nat /\ starts[i] = from + Len(piece) /\ starts[i] <= Len(esc)
      BY <1>1, <1>2, <1>5 DEF Follow
    <3>2. \A j \in 1 .. Len(piece) : esc[from + j] = piece[j]
      BY <1>1, <1>2, <1>5 DEF Follow
    <3> QED
      BY <3>1, <3>2
  <2>2. /\ piece \in Seq(TextChar)
        /\ \/ Len(piece) = 1 /\ piece[1] = back[i] /\ back[i] \notin {"q", "b"}
           \/ Len(piece) = 2 /\ piece[1] = "b" /\ Unescaped(piece[2]) = <<back[i]>>
    BY <1>1, <1>2, <1>3, EscapeOne
  <2>3. read[starts[i] + 1] = SubSeq(back, i + 1, size)
    <3>1. (i + 1) - 1 = i
      OBVIOUS
    <3> QED
      BY <1>11, <3>1
  <2>4. SubSeq(back, i, size) = <<back[i]>> \o SubSeq(back, i + 1, size)
    <3>1. i \in 1 .. Len(back) /\ size \in i .. Len(back)
      BY <1>1, <1>3
    <3> QED
      BY <1>3, <3>1, SubSeqRecursiveFirst
  <2> HIDE DEF from, piece
  <2>5. read[from + 1] = <<back[i]>> \o read[starts[i] + 1]
    <3>1. CASE Len(piece) = 1 /\ piece[1] = back[i] /\ back[i] \notin {"q", "b"}
      <4>1. /\ from + 1 \in 1 .. Len(esc) /\ from + 1 \in 1 .. Len(whole) + 1
            /\ ~ (from + 1 > Len(whole)) /\ starts[i] + 1 = (from + 1) + 1 /\ 1 \in 1 .. Len(piece)
        BY <1>6, <1>7, <2>1, <3>1
      <4>2. whole[from + 1] = back[i]
        BY <1>6, <2>1, <3>1, <4>1
      <4>3. read[from + 1] = <<whole[from + 1]>> \o read[(from + 1) + 1]
        BY <1>9, <3>1, <4>1, <4>2 DEF StringAt
      <4> QED
        BY <4>1, <4>2, <4>3
    <3>2. CASE Len(piece) = 2 /\ piece[1] = "b" /\ Unescaped(piece[2]) = <<back[i]>>
      <4>1. /\ from + 1 \in 1 .. Len(esc) /\ from + 2 \in 1 .. Len(esc)
            /\ from + 1 \in 1 .. Len(whole) + 1
            /\ ~ (from + 1 > Len(whole)) /\ from + 1 < Len(whole) /\ ~ ((from + 1) + 2 > Len(whole))
            /\ starts[i] + 1 = (from + 1) + 2 /\ (from + 1) + 1 = from + 2
            /\ 1 \in 1 .. Len(piece) /\ 2 \in 1 .. Len(piece)
        BY <1>6, <1>7, <2>1, <3>2
      <4>2. whole[from + 1] = "b" /\ whole[from + 2] = piece[2]
        BY <1>6, <2>1, <3>2, <4>1
      <4>3. read[from + 1] = Unescaped(whole[(from + 1) + 1]) \o read[(from + 1) + 2]
        BY <1>9, <4>1, <4>2 DEF StringAt
      <4> QED
        BY <3>2, <4>1, <4>2, <4>3
    <3> QED
      BY <2>2, <3>1, <3>2
  <2>6. i \in 1 .. size + 1
    BY <1>1
  <2> QED
    BY <2>3, <2>4, <2>5, <2>6 DEF from
<1>12. 1 \in Reads
  <2>1. ASSUME NEW i \in 1 .. size + 1, \A j \in i + 1 .. size + 1 : j \in Reads PROVE i \in Reads
    <3>1. CASE i = size + 1
      BY <1>10, <3>1
    <3>2. CASE i \in 1 .. size
      <4>1. i + 1 \in i + 1 .. size + 1
        BY <1>1, <3>2
      <4> HIDE DEF Reads
      <4> QED
        BY <1>11, <2>1, <3>2, <4>1
    <3> QED
      BY <1>1, <3>1, <3>2
  <2> HIDE DEF Reads
  <2>2. size + 1 \in Nat /\ 1 \in 1 .. size + 1
    BY <1>1
  <2> QED
    BY <2>1, <2>2, Downward
<1>13. read[1] = back
  <2>1. starts[1 - 1] + 1 = 1
    BY <1>5 DEF Follow
  <2>2. SubSeq(back, 1, size) = back
    BY <1>3, SubSeqFull
  <2> QED
    BY <1>12, <2>1, <2>2
<1>14. JsonEscape(text) \o post = whole
  BY <1>1 DEF whole
<1> QED
  BY <1>9, <1>13, <1>14 DEF back, size

(* What QueryParam reads from a character on, given what it reads later.   *)
ValueAt(raw, i, read) ==
  IF i > Len(raw) THEN <<>>
  ELSE IF raw[i] = "u" THEN <<"s">> \o read[i + 1]
  ELSE IF raw[i] = "p" /\ i + 2 <= Len(raw) THEN <<raw[i + 1]>> \o read[i + 3]
  ELSE <<raw[i]>> \o read[i + 1]

(* Where a value may end, and what of the query is the value.              *)
ValueEnds(query) ==
  {i \in DOMAIN query : query[i] = "m" /\ (i = 1 \/ query[i - 1] # "p")}

RawValue(query) ==
  IF ValueEnds(query) = {} THEN query
  ELSE SubSeq(query, 1,
              (CHOOSE i \in ValueEnds(query) : \A j \in ValueEnds(query) : i <= j) - 1)

(* QueryParam reads as ValueAt says.                                       *)
LEMMA ValueRead ==
  ASSUME NEW query, NEW raw \in Seq(TextChar), raw = RawValue(query)
  PROVE  \E read : /\ QueryParam(query) = read[1]
                   /\ \A i \in 1 .. Len(raw) + 3 : read[i] = ValueAt(raw, i, read)
<1> DEFINE last == Len(raw) + 3
           Out == Seq(TextChar)
           Maps == [1 .. last -> Out]
           step == [p \in (1 .. last) \X Maps |->
                      IF p[1] > Len(raw) THEN <<>> ELSE ValueAt(raw, p[1], p[2])]
           Is(g) == g = [i \in 1 .. last |-> ValueAt(raw, i, g)]
           read == CHOOSE g : Is(g)
<1>1. last \in Nat /\ Len(raw) \in Nat /\ last = Len(raw) + 3 /\ Out # {} /\ <<>> \in Out
  OBVIOUS
<1>2. ASSUME NEW i \in 1 .. last, NEW g \in Maps PROVE ValueAt(raw, i, g) \in Out
  <2>1. CASE i > Len(raw)
    BY <1>1, <2>1 DEF ValueAt
  <2>2. CASE ~ (i > Len(raw))
    <3>1. /\ i \in 1 .. Len(raw) /\ i + 1 \in 1 .. last /\ i + 3 \in 1 .. last
          /\ i + 2 <= Len(raw) => i + 1 \in 1 .. Len(raw)
      BY <1>1, <2>2
    <3>2. g[i + 1] \in Out /\ g[i + 3] \in Out
      BY <3>1
    <3>3. "s" \in TextChar
      BY DEF TextChar, Characters
    <3>4. <<"s">> \in Out /\ <<raw[i]>> \in Out /\ (i + 2 <= Len(raw) => <<raw[i + 1]>> \in Out)
      BY <3>1, <3>3
    <3>5. \A v, w \in Out : v \o w \in Out
      OBVIOUS
    <3> HIDE DEF Out
    <3>6. /\ <<"s">> \o g[i + 1] \in Out /\ <<raw[i]>> \o g[i + 1] \in Out
          /\ i + 2 <= Len(raw) => <<raw[i + 1]>> \o g[i + 3] \in Out
      BY <3>2, <3>4, <3>5
    <3> QED
      BY <2>2, <3>6 DEF ValueAt
  <2> QED
    BY <2>1, <2>2
<1>3. ASSUME NEW i \in 1 .. last, NEW g, NEW h, \A j \in i + 1 .. last : g[j] = h[j]
      PROVE  ValueAt(raw, i, g) = ValueAt(raw, i, h)
  <2>1. i <= Len(raw) => g[i + 1] = h[i + 1] /\ g[i + 3] = h[i + 3]
    BY <1>1, <1>3
  <2> QED
    BY <1>1, <2>1 DEF ValueAt
<1> HIDE DEF last, Out
<1>4. \A i \in 1 .. last, g \in Maps : step[<<i, g>>] = ValueAt(raw, i, g)
  BY DEF ValueAt
<1>5. step \in [(1 .. last) \X Maps -> Out]
  <2>1. ASSUME NEW p \in (1 .. last) \X Maps
        PROVE  (IF p[1] > Len(raw) THEN <<>> ELSE ValueAt(raw, p[1], p[2])) \in Out
    <3>1. p[1] \in 1 .. last /\ p[2] \in Maps
      OBVIOUS
    <3> QED
      BY <1>1, <1>2, <3>1
  <2> QED
    BY <2>1
<1> HIDE DEF step
<1>6. PICK f \in Maps : \A i \in 1 .. last : f[i] = step[<<i, f>>]
  <2>1. ASSUME NEW i \in 1 .. last, NEW g \in Maps, NEW h \in Maps,
               \A j \in i + 1 .. last : g[j] = h[j]
        PROVE  step[<<i, g>>] = step[<<i, h>>]
    <3>1. ValueAt(raw, i, g) = ValueAt(raw, i, h)
      BY <1>3, <2>1
    <3>2. step[<<i, g>>] = ValueAt(raw, i, g) /\ step[<<i, h>>] = ValueAt(raw, i, h)
      BY <1>4
    <3> QED
      BY <3>1, <3>2
  <2>2. PICK f : IsTail(f, Out, last, step)
    BY <1>1, <1>5, <2>1, TailExists, ZenonT(30)
  <2> QED
    BY <2>2 DEF IsTail
<1>7. Is(f)
  <2>1. f = [i \in 1 .. last |-> f[i]]
    BY <1>6
  <2> QED
    BY <1>4, <1>6, <2>1
<1>8. Is(read)
  <2> HIDE DEF Is
  <2> QED
    BY <1>7
<1>9. QueryParam(query) = read[1]
  BY DEF QueryParam, ValueAt, RawValue, ValueEnds, last
<1>10. \A i \in 1 .. last : read[i] = ValueAt(raw, i, read)
  <2> HIDE DEF read
  <2> QED
    BY <1>8
<1> HIDE DEF read
<1> QED
  BY <1>1, <1>9, <1>10

(* What is sent for a character of a value.                                *)
Coded(ch) == IF ch \in {"a", "n"} THEN <<ch>> ELSE <<"p", ch, "code">>

(* A character is coded as one or three.                                   *)
LEMMA CodeOne ==
  ASSUME NEW ch \in Characters
  PROVE  /\ Coded(ch) \in Seq(TextChar)
         /\ \/ Len(Coded(ch)) = 1 /\ Coded(ch)[1] = ch /\ ch \in {"a", "n"}
            \/ /\ Len(Coded(ch)) = 3 /\ Coded(ch)[1] = "p" /\ Coded(ch)[2] = ch
               /\ Coded(ch)[3] = "code"
<1>1. "p" \in TextChar /\ "code" \in TextChar /\ ch \in TextChar
  BY DEF TextChar, Characters
<1>2. /\ <<ch>> \in Seq(TextChar) /\ Len(<<ch>>) = 1 /\ <<ch>>[1] = ch
  BY <1>1
<1>3. /\ <<"p", ch, "code">> \in Seq(TextChar) /\ Len(<<"p", ch, "code">>) = 3
      /\ <<"p", ch, "code">>[1] = "p" /\ <<"p", ch, "code">>[2] = ch
      /\ <<"p", ch, "code">>[3] = "code"
  BY <1>1
<1> QED
  BY <1>2, <1>3 DEF Coded

(* A coded value is read back, and what follows it is not.                 *)
LEMMA QueryReads ==
  ASSUME NEW text \in Seq(Characters)
  PROVE  QueryParam(UrlEncode(text) \o <<"m", "a">>) = text
<1> DEFINE size == Len(text)
           pieces == [i \in 1 .. size |-> Coded(text[i])]
           enc == FlattenSeq(pieces)
           more == <<"m", "a">>
           query == enc \o more
<1>1. size \in Nat /\ UrlEncode(text) = enc /\ \A i \in 1 .. size : text[i] \in Characters
  <2>1. UrlEncode(text) = FlattenSeq([i \in DOMAIN text |-> Coded(text[i])])
    BY DEF UrlEncode, Coded
  <2>2. DOMAIN text = 1 .. size
    OBVIOUS
  <2>3. UrlEncode(text) = enc
    BY <2>1, <2>2
  <2> QED
    BY <2>3
<1>2. pieces \in Seq(Seq(TextChar)) /\ Len(pieces) = size
      /\ \A i \in 1 .. size : pieces[i] = Coded(text[i])
  BY <1>1, CodeOne
<1>3. text \in Seq(TextChar)
  BY DEF TextChar
<1> HIDE DEF pieces, size
<1>4. enc \in Seq(TextChar) /\ \E starts : Follow(pieces, enc, starts)
  BY <1>2, FlattenJoins
<1> HIDE DEF enc
<1>5. PICK starts : Follow(pieces, enc, starts)
  BY <1>4
<1>6. more \in Seq(TextChar) /\ Len(more) = 2 /\ more[1] = "m"
  <2>1. "m" \in TextChar /\ "a" \in TextChar
    BY DEF TextChar, Characters
  <2> QED
    BY <2>1
<1> HIDE DEF more
<1>7. /\ query \in Seq(TextChar) /\ Len(query) = Len(enc) + 2 /\ Len(enc) \in Nat
      /\ \A i \in 1 .. Len(enc) : query[i] = enc[i]
  <2>1. query \in Seq(TextChar) /\ Len(query) = Len(enc) + Len(more)
    BY <1>4, <1>6, TwoParts
  <2>2. \A i \in 1 .. Len(enc) : query[i] = enc[i]
    BY <1>4, <1>6, TwoParts
  <2> QED
    BY <1>4, <1>6, <2>1, <2>2
<1>8. query[Len(enc) + 1] = "m"
  <2>1. \A i \in 1 .. Len(enc) + Len(more) :
          query[i] = IF i <= Len(enc) THEN enc[i] ELSE more[i - Len(enc)]
    BY <1>4, <1>6, ConcatProperties
  <2>2. /\ Len(enc) + 1 \in 1 .. Len(enc) + Len(more)
        /\ ~ (Len(enc) + 1 <= Len(enc)) /\ (Len(enc) + 1) - Len(enc) = 1
    BY <1>6, <1>7
  <2> HIDE DEF query
  <2> QED
    BY <1>6, <2>1, <2>2
<1>9. ASSUME NEW i \in 1 .. size
      PROVE  /\ starts[i - 1] \in Nat /\ starts[i] = starts[i - 1] + Len(pieces[i])
             /\ starts[i] <= Len(enc)
             /\ \A j \in 1 .. Len(pieces[i]) : enc[starts[i - 1] + j] = pieces[i][j]
             /\ \/ Len(pieces[i]) = 1 /\ pieces[i][1] = text[i] /\ text[i] \in {"a", "n"}
                \/ /\ Len(pieces[i]) = 3 /\ pieces[i][1] = "p" /\ pieces[i][2] = text[i]
                   /\ pieces[i][3] = "code"
  <2>1. /\ starts[i - 1] \in Nat /\ starts[i] = starts[i - 1] + Len(pieces[i])
        /\ starts[i] <= Len(enc)
        /\ \A j \in 1 .. Len(pieces[i]) : enc[starts[i - 1] + j] = pieces[i][j]
    <3>1. i \in 1 .. Len(pieces) /\ i - 1 \in 0 .. Len(pieces)
      BY <1>1, <1>2
    <3>2. starts[i - 1] \in Nat
      BY <1>5, <3>1 DEF Follow
    <3>3. starts[i] = starts[i - 1] + Len(pieces[i]) /\ starts[i] <= Len(enc)
      BY <1>5, <3>1 DEF Follow
    <3>4. \A j \in 1 .. Len(pieces[i]) : enc[starts[i - 1] + j] = pieces[i][j]
      BY <1>5, <3>1 DEF Follow
    <3> QED
      BY <3>2, <3>3, <3>4
  <2>2. \/ Len(pieces[i]) = 1 /\ pieces[i][1] = text[i] /\ text[i] \in {"a", "n"}
        \/ /\ Len(pieces[i]) = 3 /\ pieces[i][1] = "p" /\ pieces[i][2] = text[i]
           /\ pieces[i][3] = "code"
    BY <1>1, <1>2, CodeOne
  <2> QED
    BY <2>1, <2>2
(* An ampersand that was encoded follows a percent sign, and nothing that  *)
(* ends a character is one.                                                *)
<1>10. ASSUME NEW x \in 1 .. Len(enc), enc[x] = "m" PROVE x # 1 /\ enc[x - 1] = "p"
  <2>1. PICK i \in 1 .. size : \E j \in 1 .. Len(pieces[i]) : x = starts[i - 1] + j
    BY <1>2, <1>5 DEF Follow
  <2>2. PICK j \in 1 .. Len(pieces[i]) : x = starts[i - 1] + j
    BY <2>1
  <2>3. pieces[i][j] = "m"
    BY <1>9, <1>10, <2>2
  <2>4. Len(pieces[i]) = 3 /\ j = 2 /\ pieces[i][1] = "p"
    <3>1. CASE Len(pieces[i]) = 1 /\ pieces[i][1] = text[i] /\ text[i] \in {"a", "n"}
      <4>1. j = 1
        BY <3>1
      <4> QED
        BY <2>3, <3>1, <4>1
    <3>2. CASE /\ Len(pieces[i]) = 3 /\ pieces[i][1] = "p" /\ pieces[i][2] = text[i]
               /\ pieces[i][3] = "code"
      <4>1. j = 1 \/ j = 2 \/ j = 3
        BY <3>2
      <4> QED
        BY <2>3, <3>2, <4>1
    <3> QED
      BY <1>9, <3>1, <3>2
  <2>5. starts[i - 1] \in Nat /\ 1 \in 1 .. Len(pieces[i]) /\ x - 1 = starts[i - 1] + 1
    BY <1>9, <2>2, <2>4
  <2>6. enc[starts[i - 1] + 1] = "p"
    BY <1>9, <2>4, <2>5
  <2> QED
    BY <2>2, <2>4, <2>5, <2>6
<1>11. ASSUME Len(enc) # 0 PROVE enc[Len(enc)] # "p"
  <2>1. Len(enc) \in 1 .. Len(enc)
    BY <1>7, <1>11
  <2>2. PICK i \in 1 .. size : \E j \in 1 .. Len(pieces[i]) : Len(enc) = starts[i - 1] + j
    BY <1>2, <1>5, <2>1 DEF Follow
  <2>3. PICK j \in 1 .. Len(pieces[i]) : Len(enc) = starts[i - 1] + j
    BY <2>2
  <2>4. j = Len(pieces[i])
    BY <1>9, <2>3
  <2>5. enc[Len(enc)] = pieces[i][Len(pieces[i])]
    BY <1>9, <2>3, <2>4, SMTT(30)
  <2>6. pieces[i][Len(pieces[i])] # "p"
    <3>1. CASE Len(pieces[i]) = 1 /\ pieces[i][1] = text[i] /\ text[i] \in {"a", "n"}
      BY <3>1
    <3>2. CASE Len(pieces[i]) = 3 /\ pieces[i][3] = "code"
      BY <3>2
    <3> QED
      BY <1>9, <3>1, <3>2
  <2> QED
    BY <2>5, <2>6
<1> HIDE DEF query
<1>12. enc = RawValue(query)
  <2> DEFINE ends == ValueEnds(query)
             e == CHOOSE i \in ends : \A j \in ends : i <= j
  <2>1. Len(enc) + 1 \in ends
    <3>1. Len(enc) + 1 \in DOMAIN query
      BY <1>7
    <3>2. Len(enc) + 1 = 1 \/ query[(Len(enc) + 1) - 1] # "p"
      BY <1>7, <1>11
    <3> QED
      BY <1>8, <3>1, <3>2 DEF ValueEnds
  <2>2. \A i \in ends : i \in Nat /\ Len(enc) + 1 <= i
    <3> SUFFICES ASSUME NEW i \in ends, i < Len(enc) + 1 PROVE FALSE
      BY <1>7 DEF ValueEnds
    <3>1. i \in 1 .. Len(enc) /\ query[i] = "m" /\ (i = 1 \/ query[i - 1] # "p")
      BY <1>7 DEF ValueEnds
    <3>2. enc[i] = "m"
      BY <1>7, <3>1
    <3>3. i # 1 /\ enc[i - 1] = "p"
      BY <1>10, <3>1, <3>2
    <3>4. i - 1 \in 1 .. Len(enc)
      BY <1>7, <3>1, <3>3
    <3> QED
      BY <1>7, <3>1, <3>3, <3>4
  <2>3. ends \in SUBSET Nat /\ ends # {}
    BY <2>1, <2>2
  <2>4. e \in ends /\ \A j \in ends : e <= j
    <3> HIDE DEF ends
    <3> QED
      BY <2>3, SmallestExists
  <2>5. e = Len(enc) + 1
    <3> HIDE DEF ends, e
    <3> QED
      BY <1>7, <2>1, <2>2, <2>4
  <2>6. RawValue(query) = SubSeq(query, 1, e - 1)
    BY <2>3 DEF RawValue
  <2>7. SubSeq(query, 1, Len(enc)) = enc
    BY <1>4, <1>7
  <2> HIDE DEF e
  <2> QED
    BY <1>7, <2>5, <2>6, <2>7
<1>13. PICK read : /\ QueryParam(query) = read[1]
                   /\ \A i \in 1 .. Len(enc) + 3 : read[i] = ValueAt(enc, i, read)
  BY <1>4, <1>12, ValueRead
<1> DEFINE Reads == {i \in 1 .. size + 1 : read[starts[i - 1] + 1] = SubSeq(text, i, size)}
<1>14. size + 1 \in Reads
  <2>1. starts[(size + 1) - 1] = Len(enc) /\ size + 1 \in 1 .. size + 1
    BY <1>1, <1>2, <1>5 DEF Follow
  <2>2. Len(enc) + 1 \in 1 .. Len(enc) + 3 /\ Len(enc) + 1 > Len(enc)
    BY <1>7
  <2>3. read[Len(enc) + 1] = <<>>
    BY <1>13, <2>2 DEF ValueAt
  <2>4. SubSeq(text, size + 1, size) = <<>>
    BY <1>1, SubSeqEmpty
  <2> QED
    BY <2>1, <2>3, <2>4
<1>15. ASSUME NEW i \in 1 .. size, i + 1 \in Reads PROVE i \in Reads
  <2> DEFINE from == starts[i - 1] piece == pieces[i]
  <2>1. /\ from \in Nat /\ starts[i] = from + Len(piece) /\ starts[i] <= Len(enc)
        /\ \A j \in 1 .. Len(piece) : enc[from + j] = piece[j]
        /\ \/ Len(piece) = 1 /\ piece[1] = text[i] /\ text[i] \in {"a", "n"}
           \/ Len(piece) = 3 /\ piece[1] = "p" /\ piece[2] = text[i]
    BY <1>9
  <2>2. read[starts[i] + 1] = SubSeq(text, i + 1, size)
    <3>1. (i + 1) - 1 = i
      OBVIOUS
    <3> QED
      BY <1>15, <3>1
  <2>3. SubSeq(text, i, size) = <<text[i]>> \o SubSeq(text, i + 1, size)
    <3>1. i \in 1 .. Len(text) /\ size \in i .. Len(text)
      BY <1>1 DEF size
    <3> QED
      BY <1>3, <3>1, SubSeqRecursiveFirst
  <2> HIDE DEF from, piece
  <2>4. read[from + 1] = <<text[i]>> \o read[starts[i] + 1]
    <3>1. CASE Len(piece) = 1 /\ piece[1] = text[i] /\ text[i] \in {"a", "n"}
      <4>1. /\ from + 1 \in 1 .. Len(enc) + 3
            /\ ~ (from + 1 > Len(enc)) /\ starts[i] + 1 = (from + 1) + 1 /\ 1 \in 1 .. Len(piece)
        BY <1>7, <2>1, <3>1
      <4>2. enc[from + 1] = text[i]
        BY <2>1, <3>1, <4>1
      <4>3. read[from + 1] = <<enc[from + 1]>> \o read[(from + 1) + 1]
        BY <1>13, <3>1, <4>1, <4>2 DEF ValueAt
      <4> QED
        BY <4>1, <4>2, <4>3
    <3>2. CASE Len(piece) = 3 /\ piece[1] = "p" /\ piece[2] = text[i]
      <4>1. /\ from + 1 \in 1 .. Len(enc) + 3
            /\ ~ (from + 1 > Len(enc)) /\ (from + 1) + 2 <= Len(enc)
            /\ starts[i] + 1 = (from + 1) + 3 /\ (from + 1) + 1 = from + 2
            /\ 1 \in 1 .. Len(piece) /\ 2 \in 1 .. Len(piece)
        BY <1>7, <2>1, <3>2
      <4>2. enc[from + 1] = "p" /\ enc[from + 2] = text[i]
        BY <2>1, <3>2, <4>1
      <4>3. read[from + 1] = <<enc[(from + 1) + 1]>> \o read[(from + 1) + 3]
        BY <1>13, <4>1, <4>2 DEF ValueAt
      <4> QED
        BY <4>1, <4>2, <4>3
    <3> QED
      BY <2>1, <3>1, <3>2
  <2>5. i \in 1 .. size + 1
    BY <1>1
  <2> QED
    BY <2>2, <2>3, <2>4, <2>5 DEF from
<1>16. 1 \in Reads
  <2>1. ASSUME NEW i \in 1 .. size + 1, \A j \in i + 1 .. size + 1 : j \in Reads PROVE i \in Reads
    <3>1. CASE i = size + 1
      BY <1>14, <3>1
    <3>2. CASE i \in 1 .. size
      <4>1. i + 1 \in i + 1 .. size + 1
        BY <1>1, <3>2
      <4> HIDE DEF Reads
      <4> QED
        BY <1>15, <2>1, <3>2, <4>1
    <3> QED
      BY <1>1, <3>1, <3>2
  <2> HIDE DEF Reads
  <2>2. size + 1 \in Nat /\ 1 \in 1 .. size + 1
    BY <1>1
  <2> QED
    BY <2>1, <2>2, Downward
<1>17. read[1] = text
  <2>1. starts[1 - 1] + 1 = 1
    BY <1>5 DEF Follow
  <2>2. SubSeq(text, 1, size) = text
    BY <1>3, SubSeqFull DEF size
  <2> QED
    BY <1>16, <2>1, <2>2
<1>18. UrlEncode(text) \o <<"m", "a">> = query
  BY <1>1 DEF query, more
<1> QED
  BY <1>13, <1>17, <1>18

(* Counting the places up to a number that are in a set.                   *)
UpTo(i, Q) == Cardinality({j \in 1 .. i : j \in Q})

(* Counting the members of a set up to a number.                           *)
LEMMA CountStep ==
  ASSUME NEW i \in Nat, NEW Q
  PROVE  /\ UpTo(0, Q) = 0 /\ UpTo(i, Q) \in Nat
         /\ UpTo(i + 1, Q) = IF i + 1 \in Q THEN UpTo(i, Q) + 1 ELSE UpTo(i, Q)
<1> DEFINE A == {j \in 1 .. i : j \in Q}
           B == {j \in 1 .. i + 1 : j \in Q}
<1>1. IsFiniteSet(1 .. i)
  BY FS_Interval
<1>2. IsFiniteSet(A) /\ Cardinality(A) \in Nat
  BY <1>1, FS_Subset, FS_CardinalityType
<1>3. i + 1 \notin A
  OBVIOUS
<1>4. B = IF i + 1 \in Q THEN A \cup {i + 1} ELSE A
  OBVIOUS
<1>5. {j \in 1 .. 0 : j \in Q} = {}
  OBVIOUS
<1>6. UpTo(0, Q) = 0
  BY <1>5, FS_EmptySet DEF UpTo
<1>7. UpTo(i, Q) = Cardinality(A) /\ UpTo(i + 1, Q) = Cardinality(B)
  BY DEF UpTo
<1> HIDE DEF A, B
<1>8. Cardinality(A \cup {i + 1}) = Cardinality(A) + 1
  BY <1>2, <1>3, FS_AddElement
<1> QED
  BY <1>2, <1>4, <1>6, <1>7, <1>8

(* The quotes, and the brackets outside strings.                           *)
Quotes(doc) == {j \in Nat : doc[j] = "q"}
Opens(doc)  == {j \in Nat : doc[j] = "a" /\ ~InString(doc, j)}
Closes(doc) == {j \in Nat : doc[j] = "n" /\ ~InString(doc, j)}

(* Being in a string, and the depth, from one character to the next.       *)
LEMMA DepthSteps ==
  ASSUME NEW doc, NEW i \in Nat
  PROVE  /\ ~InString(doc, 1) /\ Depth(doc, 0) = 0 /\ Depth(doc, i) \in Int
         /\ InString(doc, (i + 1) + 1) <=> (InString(doc, i + 1) <=> doc[i + 1] # "q")
         /\ ~InString(doc, i + 1) /\ doc[i + 1] = "a" => Depth(doc, i + 1) = Depth(doc, i) + 1
         /\ ~InString(doc, i + 1) /\ doc[i + 1] = "n" => Depth(doc, i + 1) = Depth(doc, i) - 1
         /\ InString(doc, i + 1) \/ doc[i + 1] \notin {"a", "n"}
              => Depth(doc, i + 1) = Depth(doc, i)
<1>1. \A k \in Nat : {j \in 1 .. (k + 1) - 1 : doc[j] = "q"} = {j \in 1 .. k : j \in Quotes(doc)}
  BY DEF Quotes
<1>2. \A k \in Nat : InString(doc, k + 1) <=> UpTo(k, Quotes(doc)) % 2 = 1
  BY <1>1 DEF InString, UpTo
<1>3. \A k \in Nat :
        /\ {j \in 1 .. k : doc[j] = "a" /\ ~InString(doc, j)} = {j \in 1 .. k : j \in Opens(doc)}
        /\ {j \in 1 .. k : doc[j] = "n" /\ ~InString(doc, j)} = {j \in 1 .. k : j \in Closes(doc)}
  BY DEF Opens, Closes
<1>4. \A k \in Nat : Depth(doc, k) = UpTo(k, Opens(doc)) - UpTo(k, Closes(doc))
  BY <1>3 DEF Depth, UpTo
<1> DEFINE q(k) == UpTo(k, Quotes(doc)) a(k) == UpTo(k, Opens(doc)) c(k) == UpTo(k, Closes(doc))
<1>5. /\ q(0) = 0 /\ q(i) \in Nat
      /\ q(i + 1) = IF i + 1 \in Quotes(doc) THEN q(i) + 1 ELSE q(i)
  BY CountStep
<1>6. /\ a(0) = 0 /\ a(i) \in Nat
      /\ a(i + 1) = IF i + 1 \in Opens(doc) THEN a(i) + 1 ELSE a(i)
  BY CountStep
<1>7. /\ c(0) = 0 /\ c(i) \in Nat
      /\ c(i + 1) = IF i + 1 \in Closes(doc) THEN c(i) + 1 ELSE c(i)
  BY CountStep
<1>8. /\ i + 1 \in Quotes(doc) <=> doc[i + 1] = "q"
      /\ i + 1 \in Opens(doc) <=> doc[i + 1] = "a" /\ ~InString(doc, i + 1)
      /\ i + 1 \in Closes(doc) <=> doc[i + 1] = "n" /\ ~InString(doc, i + 1)
  BY DEF Quotes, Opens, Closes
<1>9. /\ InString(doc, 0 + 1) <=> q(0) % 2 = 1
      /\ InString(doc, i + 1) <=> q(i) % 2 = 1
      /\ InString(doc, (i + 1) + 1) <=> q(i + 1) % 2 = 1
  BY <1>2
<1>10. /\ Depth(doc, 0) = a(0) - c(0)
       /\ Depth(doc, i) = a(i) - c(i)
       /\ Depth(doc, i + 1) = a(i + 1) - c(i + 1)
  BY <1>4
<1> HIDE DEF q, a, c
<1>11. ~InString(doc, 1) /\ Depth(doc, 0) = 0 /\ Depth(doc, i) \in Int
  BY <1>5, <1>6, <1>7, <1>9, <1>10
<1>12. InString(doc, (i + 1) + 1) <=> (InString(doc, i + 1) <=> doc[i + 1] # "q")
  <2>1. CASE doc[i + 1] = "q"
    BY <1>5, <1>8, <1>9, <2>1
  <2>2. CASE doc[i + 1] # "q"
    BY <1>5, <1>8, <1>9, <2>2
  <2> QED
    BY <2>1, <2>2
<1>13. ~InString(doc, i + 1) /\ doc[i + 1] = "a" => Depth(doc, i + 1) = Depth(doc, i) + 1
  BY <1>6, <1>7, <1>8, <1>10
<1>14. ~InString(doc, i + 1) /\ doc[i + 1] = "n" => Depth(doc, i + 1) = Depth(doc, i) - 1
  BY <1>6, <1>7, <1>8, <1>10
<1>15. InString(doc, i + 1) \/ doc[i + 1] \notin {"a", "n"} => Depth(doc, i + 1) = Depth(doc, i)
  BY <1>6, <1>7, <1>8, <1>10
<1> QED
  BY <1>11, <1>12, <1>13, <1>14, <1>15

(* Where the scan is before a character, given where it was one before.    *)
ScanState == [depth : Nat, str : BOOLEAN, skip : BOOLEAN]
ScanStart == [depth |-> 0, str |-> FALSE, skip |-> FALSE]
ScanOn(ch, was) ==
     IF was.skip THEN [was EXCEPT !.skip = FALSE]
     ELSE IF was.str THEN [was EXCEPT !.skip = (ch = "b"), !.str = (ch # "q")]
     ELSE IF ch = "q" THEN [was EXCEPT !.str = TRUE]
     ELSE IF ch = "a" THEN [was EXCEPT !.depth = @ + 1]
     ELSE IF ch = "n" /\ was.depth > 0 THEN [was EXCEPT !.depth = @ - 1]
     ELSE was
ScanAt(doc, i, was) == ScanOn(IF i - 1 > Len(doc) THEN "end" ELSE doc[i - 1], was)

(* Where the scan closes what it opened first.                             *)
RegionEnds(doc, scan) ==
  {i \in DOMAIN doc : doc[i] = "n" /\ scan[i + 1].depth = 0 /\ scan[i].depth = 1}

RegionOf(doc, scan) ==
  IF doc = <<>> \/ doc[1] # "a" \/ RegionEnds(doc, scan) = {} THEN <<>>
  ELSE SubSeq(doc, 1, CHOOSE i \in RegionEnds(doc, scan) :
                        \A j \in RegionEnds(doc, scan) : i <= j)

(* The scan stays one.                                                     *)
LEMMA ScanTyped ==
  ASSUME NEW doc, NEW i, NEW was \in ScanState
  PROVE  ScanAt(doc, i, was) \in ScanState
<1> DEFINE ch == IF i - 1 > Len(doc) THEN "end" ELSE doc[i - 1]
<1>1. was.depth \in Nat /\ (was.depth > 0 => was.depth - 1 \in Nat)
  BY DEF ScanState
<1> HIDE DEF ch
<1>2. [was EXCEPT !.skip = FALSE] \in ScanState
  BY DEF ScanState
<1>3. [was EXCEPT !.skip = (ch = "b"), !.str = (ch # "q")] \in ScanState
  BY DEF ScanState
<1>4. [was EXCEPT !.str = TRUE] \in ScanState
  BY DEF ScanState
<1>5. [was EXCEPT !.depth = @ + 1] \in ScanState
  <2>1. was.depth + 1 \in Nat
    BY <1>1
  <2> QED
    BY <2>1 DEF ScanState
<1>6. was.depth > 0 => [was EXCEPT !.depth = @ - 1] \in ScanState
  BY <1>1 DEF ScanState
<1> QED
  BY <1>2, <1>3, <1>4, <1>5, <1>6 DEF ScanAt, ScanOn, ch

(* JsonRegion scans so, and ends at the first of its ends.                 *)
LEMMA ScanRead ==
  ASSUME NEW doc \in Seq(TextChar)
  PROVE  \E scan : /\ JsonRegion(doc) = RegionOf(doc, scan)
                   /\ scan[1] = ScanStart
                   /\ \A i \in 1 .. Len(doc) : /\ scan[i] \in ScanState
                                               /\ scan[i + 1] = ScanAt(doc, i + 1, scan[i])
<1> DEFINE last == Len(doc) + 1
           step == [p \in (1 .. last) \X ScanState |-> ScanAt(doc, p[1] + 1, p[2])]
           Is(g) == g = [i \in 1 .. Len(doc) + 2 |->
                           IF i = 1 THEN ScanStart ELSE ScanAt(doc, i, g[i - 1])]
           scan == CHOOSE g : Is(g)
<1>1. last \in Nat /\ Len(doc) \in Nat /\ last = Len(doc) + 1 /\ ScanStart \in ScanState
  BY DEF ScanStart, ScanState
<1>2. step \in [(1 .. last) \X ScanState -> ScanState]
  <2>1. ASSUME NEW p \in (1 .. last) \X ScanState PROVE ScanAt(doc, p[1] + 1, p[2]) \in ScanState
    BY ScanTyped
  <2> QED
    BY <2>1
<1>3. \A i \in 1 .. last, v \in ScanState : step[<<i, v>>] = ScanAt(doc, i + 1, v)
  OBVIOUS
<1> HIDE DEF step, last
<1>4. PICK run : /\ run \in [0 .. last -> ScanState] /\ run[0] = ScanStart
                 /\ \A i \in 1 .. last : run[i] = step[<<i, run[i - 1]>>]
  <2>1. PICK run : IsRun(run, ScanState, ScanStart, last, step)
    BY <1>1, <1>2, RunExists
  <2> QED
    BY <2>1 DEF IsRun
<1>5. ASSUME NEW i \in 1 .. last PROVE run[i] = ScanAt(doc, i + 1, run[i - 1])
  <2>1. i - 1 \in 0 .. last
    BY <1>1
  <2>2. run[i - 1] \in ScanState
    BY <1>4, <2>1
  <2> QED
    BY <1>3, <1>4, <2>2
<1> DEFINE f0 == [i \in 1 .. Len(doc) + 2 |-> run[i - 1]]
<1>6. Is(f0)
  <2>1. ASSUME NEW i \in 1 .. Len(doc) + 2
        PROVE  f0[i] = IF i = 1 THEN ScanStart ELSE ScanAt(doc, i, f0[i - 1])
    <3>1. CASE i = 1
      BY <1>4, <3>1
    <3>2. CASE i # 1
      <4>1. /\ i - 1 \in 1 .. last /\ (i - 1) + 1 = i /\ i - 1 \in 1 .. Len(doc) + 2
        BY <1>1, <3>2
      <4>2. run[i - 1] = ScanAt(doc, i, run[(i - 1) - 1])
        BY <1>5, <4>1
      <4> QED
        BY <3>2, <4>1, <4>2
    <3> QED
      BY <3>1, <3>2
  <2>2. f0 = [i \in 1 .. Len(doc) + 2 |-> f0[i]]
    OBVIOUS
  <2> HIDE DEF f0
  <2> QED
    BY <2>1, <2>2
<1>7. Is(scan)
  <2> HIDE DEF Is, f0
  <2> QED
    BY <1>6
<1>8. JsonRegion(doc) = RegionOf(doc, scan)
  BY DEF JsonRegion, RegionOf, RegionEnds, ScanAt, ScanOn, ScanStart
<1>9. \A i \in 1 .. Len(doc) + 2 : scan[i] = IF i = 1 THEN ScanStart ELSE ScanAt(doc, i, scan[i - 1])
  <2> HIDE DEF scan
  <2> QED
    BY <1>7
<1> HIDE DEF scan, Is, f0
<1>10. ASSUME NEW i \in 1 .. Len(doc) PROVE scan[i + 1] = ScanAt(doc, i + 1, scan[i])
  <2>1. i + 1 \in 1 .. Len(doc) + 2 /\ i + 1 # 1 /\ (i + 1) - 1 = i
    BY <1>1
  <2> QED
    BY <1>9, <2>1
<1> DEFINE Typed == {i \in 0 .. Len(doc) : scan[i + 1] \in ScanState}
<1>11. scan[1] = ScanStart /\ 0 \in Typed
  BY <1>1, <1>9
<1>12. ASSUME NEW i \in 0 .. Len(doc) - 1, i \in Typed PROVE i + 1 \in Typed
  <2>1. i + 1 \in 1 .. Len(doc) /\ i + 1 \in 0 .. Len(doc)
    BY <1>1
  <2>2. scan[(i + 1) + 1] = ScanAt(doc, (i + 1) + 1, scan[i + 1])
    BY <1>10, <2>1
  <2> QED
    BY <1>12, <2>1, <2>2, ScanTyped
<1>13. \A i \in 0 .. Len(doc) : i \in Typed
  <2> HIDE DEF Typed
  <2> QED
    BY <1>1, <1>11, <1>12, Upward
<1>14. ASSUME NEW i \in 1 .. Len(doc) PROVE scan[i] \in ScanState
  <2>1. i - 1 \in 0 .. Len(doc) /\ (i - 1) + 1 = i
    BY <1>1
  <2> QED
    BY <1>13, <2>1
<1> QED
  BY <1>8, <1>10, <1>11, <1>14

(* The region the scan finds is one value: the scan counts what is open    *)
(* outside strings, and its first end is the first place where nothing is. *)
LEMMA RegionBalanced ==
  ASSUME NEW doc \in Seq({"a", "n", "q", "s"}), JsonRegion(doc) # <<>>
  PROVE  /\ Depth(JsonRegion(doc), Len(JsonRegion(doc))) = 0
         /\ \A i \in 1 .. (Len(JsonRegion(doc)) - 1) : Depth(JsonRegion(doc), i) > 0
<1>1. doc \in Seq(TextChar) /\ Len(doc) \in Nat /\ DOMAIN doc = 1 .. Len(doc)
  <2>1. {"a", "n", "q", "s"} \subseteq TextChar
    BY DEF TextChar, Characters
  <2> QED
    BY <2>1
<1>2. PICK scan : /\ JsonRegion(doc) = RegionOf(doc, scan)
                  /\ scan[1] = ScanStart
                  /\ \A i \in 1 .. Len(doc) : /\ scan[i] \in ScanState
                                              /\ scan[i + 1] = ScanAt(doc, i + 1, scan[i])
  BY <1>1, ScanRead
<1> DEFINE ends == RegionEnds(doc, scan)
           e == CHOOSE i \in ends : \A j \in ends : i <= j
<1>3. /\ doc # <<>> /\ doc[1] = "a" /\ ends # {} /\ JsonRegion(doc) = SubSeq(doc, 1, e)
  BY <1>2 DEF RegionOf
<1>4. ends \in SUBSET Nat /\ ends \in SUBSET (1 .. Len(doc))
  BY <1>1 DEF RegionEnds
<1>5. e \in ends /\ \A j \in ends : e <= j
  <2>1. \E k \in ends : \A j \in ends : k <= j
    BY <1>3, <1>4, SmallestExists
  <2> QED
    BY <2>1
<1> HIDE DEF e, ends
<1>6. e \in 1 .. Len(doc) /\ doc[e] = "n" /\ scan[e + 1].depth = 0 /\ scan[e].depth = 1
  BY <1>4, <1>5 DEF ends, RegionEnds
<1> DEFINE As(i) == /\ scan[i + 1].skip = FALSE
                    /\ scan[i + 1].str <=> InString(doc, i + 1)
                    /\ scan[i + 1].depth = Depth(doc, i)
                    /\ 0 < i /\ i < e => scan[i + 1].depth > 0
           S == {i \in Nat : As(i)}
<1>7. 0 \in S
  <2>1. ~InString(doc, 0 + 1) /\ Depth(doc, 0) = 0
    BY DepthSteps
  <2>2. scan[0 + 1] = ScanStart
    BY <1>2
  <2> QED
    BY <2>1, <2>2 DEF ScanStart
<1>8. ASSUME NEW i \in 0 .. e - 1, i \in S PROVE i + 1 \in S
  <2> DEFINE was == scan[i + 1] ch == doc[i + 1]
  <2>1. /\ i \in Nat /\ i + 1 \in 1 .. Len(doc) /\ i < e /\ e \in Nat /\ i + 1 \in Nat
        /\ (i + 1) + 1 - 1 = i + 1 /\ ~ ((i + 1) + 1 - 1 > Len(doc))
    BY <1>1, <1>6
  <2>2. was \in ScanState /\ scan[(i + 1) + 1] = ScanAt(doc, (i + 1) + 1, was)
    BY <1>2, <2>1
  <2>3. As(i)
    BY <1>8
  <2>4. ch \in {"a", "n", "q", "s"}
    BY <1>1, <2>1
  <2>5. /\ was.depth \in Nat /\ was.str \in BOOLEAN /\ was.skip = FALSE
        /\ was.str <=> InString(doc, i + 1)
        /\ was.depth = Depth(doc, i) /\ (0 < i => was.depth > 0)
        /\ DOMAIN was = {"depth", "str", "skip"}
    BY <2>1, <2>2, <2>3 DEF ScanState
  <2>6. /\ InString(doc, (i + 1) + 1) <=> (InString(doc, i + 1) <=> ch # "q")
        /\ ~InString(doc, i + 1) /\ ch = "a" => Depth(doc, i + 1) = Depth(doc, i) + 1
        /\ ~InString(doc, i + 1) /\ ch = "n" => Depth(doc, i + 1) = Depth(doc, i) - 1
        /\ InString(doc, i + 1) \/ ch \notin {"a", "n"} => Depth(doc, i + 1) = Depth(doc, i)
    BY <2>1, DepthSteps
  <2>7. scan[(i + 1) + 1] =
          IF was.str THEN [was EXCEPT !.skip = (ch = "b"), !.str = (ch # "q")]
          ELSE IF ch = "q" THEN [was EXCEPT !.str = TRUE]
          ELSE IF ch = "a" THEN [was EXCEPT !.depth = @ + 1]
          ELSE IF ch = "n" /\ was.depth > 0 THEN [was EXCEPT !.depth = @ - 1]
          ELSE was
    <3>1. scan[(i + 1) + 1] = ScanAt(doc, (i + 1) + 1, was) /\ was.skip = FALSE
      BY <2>2, <2>5
    <3> HIDE DEF was
    <3>2. scan[(i + 1) + 1] = ScanOn(ch, was)
      BY <2>1, <3>1 DEF ScanAt
    <3> HIDE DEF ch
    <3> QED
      BY <3>1, <3>2, Zenon DEF ScanOn
  <2>8. i = 0 => ch = "a" /\ ~was.str
    <3>1. i = 0 => was.str = FALSE
      BY <1>2, <2>1 DEF ScanStart
    <3>2. i = 0 => ch = "a"
      BY <1>3
    <3> QED
      BY <3>1, <3>2
  <2>9. ch = "n" /\ ~was.str => was.depth > 0
    BY <2>1, <2>4, <2>5, <2>8
  <2>10. scan[(i + 1) + 1].depth = 0 => i + 1 = e
    <3> SUFFICES ASSUME scan[(i + 1) + 1].depth = 0 PROVE i + 1 = e
      OBVIOUS
    <3>1. ch = "n" /\ was.depth = 1
      <4>1. CASE was.str
        <5>1. scan[(i + 1) + 1].depth = was.depth
          BY <2>5, <2>7, <4>1
        <5>2. i # 0
          BY <2>8, <4>1
        <5> QED
          BY <2>1, <2>5, <5>1, <5>2
      <4>2. CASE ~was.str /\ ch = "a"
        <5>1. scan[(i + 1) + 1].depth = was.depth + 1
          BY <2>5, <2>7, <4>2
        <5> QED
          BY <2>5, <5>1
      <4>3. CASE ~was.str /\ ch = "n"
        <5>1. scan[(i + 1) + 1].depth = was.depth - 1
          BY <2>5, <2>7, <2>9, <4>3
        <5> QED
          BY <2>5, <4>3, <5>1
      <4>4. CASE ~was.str /\ ch \in {"q", "s"}
        <5>1. scan[(i + 1) + 1].depth = was.depth
          BY <2>5, <2>7, <4>4
        <5>2. i # 0
          BY <2>8, <4>4
        <5> QED
          BY <2>1, <2>5, <5>1, <5>2
      <4> QED
        BY <2>4, <4>1, <4>2, <4>3, <4>4
    <3>2. i + 1 \in ends
      BY <1>1, <2>1, <3>1 DEF ends, RegionEnds
    <3>3. e <= i + 1
      BY <1>5, <3>2
    <3> QED
      BY <2>1, <3>3
  <2>11. /\ scan[(i + 1) + 1].skip = FALSE
         /\ scan[(i + 1) + 1].str <=> InString(doc, (i + 1) + 1)
         /\ scan[(i + 1) + 1].depth = Depth(doc, i + 1)
         /\ scan[(i + 1) + 1].depth \in Nat
    <3>1. CASE was.str
      <4>1. scan[(i + 1) + 1] = [was EXCEPT !.skip = FALSE, !.str = (ch # "q")]
        BY <2>4, <2>7, <3>1
      <4>2. /\ scan[(i + 1) + 1].skip = FALSE /\ scan[(i + 1) + 1].str = (ch # "q")
            /\ scan[(i + 1) + 1].depth = was.depth
        BY <2>5, <4>1
      <4> QED
        BY <2>5, <2>6, <3>1, <4>2
    <3>2. CASE ~was.str /\ ch = "a"
      <4>1. scan[(i + 1) + 1] = [was EXCEPT !.depth = @ + 1]
        BY <2>7, <3>2
      <4>2. /\ scan[(i + 1) + 1].skip = FALSE /\ scan[(i + 1) + 1].str = was.str
            /\ scan[(i + 1) + 1].depth = was.depth + 1
        BY <2>5, <4>1
      <4> QED
        BY <2>5, <2>6, <3>2, <4>2
    <3>3. CASE ~was.str /\ ch = "n"
      <4>1. scan[(i + 1) + 1] = [was EXCEPT !.depth = @ - 1]
        BY <2>7, <2>9, <3>3
      <4>2. /\ scan[(i + 1) + 1].skip = FALSE /\ scan[(i + 1) + 1].str = was.str
            /\ scan[(i + 1) + 1].depth = was.depth - 1
        BY <2>5, <4>1
      <4>3. was.depth - 1 \in Nat
        BY <2>5, <2>9, <3>3
      <4> QED
        BY <2>5, <2>6, <3>3, <4>2, <4>3
    <3>4. CASE ~was.str /\ ch = "q"
      <4>1. scan[(i + 1) + 1] = [was EXCEPT !.str = TRUE]
        BY <2>7, <3>4
      <4>2. /\ scan[(i + 1) + 1].skip = FALSE /\ scan[(i + 1) + 1].str = TRUE
            /\ scan[(i + 1) + 1].depth = was.depth
        BY <2>5, <4>1
      <4> QED
        BY <2>5, <2>6, <3>4, <4>2
    <3>5. CASE ~was.str /\ ch = "s"
      <4>1. scan[(i + 1) + 1] = was
        BY <2>7, <3>5
      <4> QED
        BY <2>5, <2>6, <3>5, <4>1
    <3> QED
      BY <2>4, <3>1, <3>2, <3>3, <3>4, <3>5
  <2>12. i + 1 < e => scan[(i + 1) + 1].depth > 0
    BY <2>1, <2>10, <2>11
  <2> QED
    BY <2>1, <2>11, <2>12
<1>9. e \in Nat /\ \A i \in 0 .. e : As(i)
  <2>1. e \in Nat
    BY <1>6
  <2> HIDE DEF As
  <2>2. 0 \in S /\ \A i \in 0 .. e - 1 : i \in S => i + 1 \in S
    BY <1>7, <1>8
  <2> DEFINE T == S
  <2>3. 0 \in T /\ \A i \in 0 .. e - 1 : i \in T => i + 1 \in T
    BY <2>2
  <2>4. \A i \in T : As(i)
    OBVIOUS
  <2> HIDE DEF T
  <2>5. \A i \in 0 .. e : i \in T
    BY <2>1, <2>3, Upward
  <2> QED
    BY <2>1, <2>4, <2>5
<1> DEFINE got == SubSeq(doc, 1, e)
<1>10. got \in Seq({"a", "n", "q", "s"}) /\ Len(got) = e /\ \A j \in 1 .. e : got[j] = doc[j]
  BY <1>1, <1>6, SubSeqProperties
<1> HIDE DEF got
<1>11. ASSUME NEW j \in 1 .. e PROVE InString(got, j) <=> InString(doc, j)
  <2>1. {k \in 1 .. j - 1 : got[k] = "q"} = {k \in 1 .. j - 1 : doc[k] = "q"}
    BY <1>9, <1>10
  <2> QED
    BY <2>1 DEF InString
<1>12. ASSUME NEW i \in 1 .. e PROVE Depth(got, i) = Depth(doc, i)
  <2>1. \A j \in 1 .. i : got[j] = doc[j] /\ (InString(got, j) <=> InString(doc, j))
    BY <1>9, <1>10, <1>11
  <2>2. /\ {j \in 1 .. i : got[j] = "a" /\ ~InString(got, j)} =
              {j \in 1 .. i : doc[j] = "a" /\ ~InString(doc, j)}
        /\ {j \in 1 .. i : got[j] = "n" /\ ~InString(got, j)} =
              {j \in 1 .. i : doc[j] = "n" /\ ~InString(doc, j)}
    BY <2>1
  <2> QED
    BY <2>2 DEF Depth
<1>13. Depth(got, Len(got)) = 0
  <2>1. As(e) /\ e \in 1 .. e
    BY <1>6, <1>9
  <2> QED
    BY <1>6, <1>10, <1>12, <2>1
<1>14. ASSUME NEW i \in 1 .. (Len(got) - 1) PROVE Depth(got, i) > 0
  <2>1. i \in 0 .. e /\ i \in 1 .. e /\ 0 < i /\ i < e
    BY <1>6, <1>10
  <2>2. As(i)
    BY <1>9, <2>1
  <2> QED
    BY <1>12, <2>1, <2>2
<1> QED
  BY <1>3, <1>13, <1>14 DEF got

(* What is typed are characters.                                           *)
LEMMA TextTyped == TextInit /\ [][TextNext]_typed => [](typed \in Seq(Characters))
<1>1. TextInit => typed \in Seq(Characters)
  BY DEF TextInit
<1>2. typed \in Seq(Characters) /\ [TextNext]_typed => (typed \in Seq(Characters))'
  BY DEF TextNext, TypeChar
<1> QED
  BY <1>1, <1>2, PTL

(* Text crosses between the pages and the handlers unchanged: what is put  *)
(* into a JSON string is read back and ends where it ended (JsonEscape and *)
(* JsonString), a search term arrives as it was typed (UrlEncode and       *)
(* QueryParam), a region that is passed on whole is one value              *)
(* (JsonRegion); for texts of every length.                                *)
THEOREM TextCrosses == TextInit /\ [][TextNext]_typed => []TextComesBack
<1>1. typed \in Seq(Characters) => EscapedComesBack
  <2> SUFFICES ASSUME typed \in Seq(Characters), NEW post \in {<<"q">>, <<"q", "a">>}
               PROVE  JsonString(JsonEscape(typed) \o post) =
                        [i \in DOMAIN typed |-> IF typed[i] = "c" THEN "hex" ELSE typed[i]]
    BY DEF EscapedComesBack
  <2>1. post \in Seq(TextChar) /\ post # <<>> /\ post[1] = "q"
    <3>1. "q" \in TextChar /\ "a" \in TextChar
      BY DEF TextChar, Characters
    <3>2. CASE post = <<"q">>
      BY <3>1, <3>2
    <3>3. CASE post = <<"q", "a">>
      BY <3>1, <3>3
    <3> QED
      BY <3>2, <3>3
  <2>2. JsonString(JsonEscape(typed) \o post) = [i \in 1 .. Len(typed) |-> ReadBack(typed[i])]
    BY <2>1, EscapedReads
  <2> QED
    BY <2>2 DEF ReadBack
<1>2. typed \in Seq(Characters) => QueryComesBack
  BY QueryReads DEF QueryComesBack
<1>3. typed \in Seq(Characters) => RegionIsOneValue
  <2> SUFFICES ASSUME typed \in Seq(Characters),
                      \A i \in DOMAIN typed : typed[i] \in {"a", "n", "q", "s"},
                      JsonRegion(typed) # <<>>
               PROVE  /\ Depth(JsonRegion(typed), Len(JsonRegion(typed))) = 0
                      /\ \A i \in 1 .. (Len(JsonRegion(typed)) - 1) : Depth(JsonRegion(typed), i) > 0
    BY DEF RegionIsOneValue
  <2>1. typed \in Seq({"a", "n", "q", "s"})
    OBVIOUS
  <2> QED
    BY <2>1, RegionBalanced
<1>4. typed \in Seq(Characters) => TextComesBack
  BY <1>1, <1>2, <1>3 DEF TextComesBack
<1> QED
  BY <1>4, TextTyped, PTL
=============================================================================
