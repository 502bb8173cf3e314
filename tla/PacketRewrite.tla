--------------------------- MODULE PacketRewrite ---------------------------
(***************************************************************************)
(* The packets Hooks_NetPacket.cpp rewrites on their way: product requests *)
(* get the access tokens of the Lua files, statistics are asked for on the *)
(* account of a donor and its progress is struck from the answer, and the  *)
(* app of a Cloud.* request is dug out of its body by hand.                *)
(***************************************************************************)
EXTENDS Integers, Sequences, SequencesExt

CONSTANTS
  StatApps,    \* the apps statistics are asked for
  StatJobs,    \* job ids of queries; Steam never uses one twice
  Tokens       \* the apps a Lua file has an access token for

ASSUME RewriteAssumption == Tokens \subseteq StatApps

VARIABLES
  wire,      \* the queries under way and what the module keeps of them
  request    \* the Cloud.* request being read: its fields

(* depots   the apps LuaConfig has; jobs is g_JobIdToAppId                  *)
(* asked    the queries Valve has: job, app, on whose account, by which     *)
(*          message; used are the job ids spent                             *)
(* last     the last answer handed to Steam: whose progress it carried, and *)
(*          whether anything was struck                                     *)
(* product  the tokens the last product request left with                   *)
NoAnswer == [app |-> "none", by |-> "none", donor |-> FALSE, struck |-> FALSE]

WireInit ==
  wire = [depots |-> {}, jobs |-> {}, asked |-> {}, used |-> {}, last |-> NoAnswer, product |-> {}]

(* A Lua file comes or goes.                                               *)
Reconfigure(app) ==
  wire' = [wire EXCEPT !.depots = IF app \in @ THEN @ \ {app} ELSE @ \cup {app}, !.last = NoAnswer]

(* Hooks_NetPacket_AccessToken::HandleSend                                 *)
WithTokens(apps) == {app \in apps : app \in wire.depots /\ app \in Tokens}
AskProducts == \E apps \in SUBSET StatApps :
  apps # {} /\ wire' = [wire EXCEPT !.product = WithTokens(apps), !.last = NoAnswer]

(* HandleSend_GetUserStats: not for a client that already has the schema.  *)
Asked(job, app, by, donor) ==
  [wire EXCEPT !.asked = @ \cup {[job |-> job, app |-> app, by |-> by, donor |-> donor]},
               !.used = @ \cup {job}, !.last = NoAnswer]

AskPlayer(job, app, hasSchema) ==
  /\ job \notin wire.used
  /\ LET donor == ~hasSchema /\ app \in wire.depots
         sent == Asked(job, app, "player", donor)
     IN  wire' = IF donor THEN [sent EXCEPT !.jobs = @ \cup {<<job, app>>}] ELSE sent

(* HandleSend_ClientGetUserStats                                           *)
AskClient(job, app) ==
  /\ job \notin wire.used
  /\ wire' = Asked(job, app, "client", app \in wire.depots)

(* Mutant: an answer no query was remembered for is struck as well.        *)
StruckOfAny(q) == q.app \in wire.depots

(* HandleRecv_GetUserStatsResponse: the app by the job the query left, the *)
(* one of a query that went out unchanged being unknown.                   *)
Struck(q) == \E app \in wire.depots : <<q.job, app>> \in wire.jobs

Answered(q, struck) ==
  [wire EXCEPT !.asked = @ \ {q}, !.jobs = {j \in @ : j[1] # q.job},
               !.last = [app |-> q.app, by |-> q.by, donor |-> q.donor, struck |-> struck]]

RecvPlayer(q) == q.by = "player" /\ wire' = Answered(q, Struck(q))

(* HandleRecv_ClientGetUserStatsResponse: the app by the answer itself.    *)
RecvClient(q) == q.by = "client" /\ wire' = Answered(q, q.app \in wire.depots)

(* The connection drops the query, and what is kept of it stays.           *)
Lose(q) == wire' = [wire EXCEPT !.asked = @ \ {q}, !.last = NoAnswer]

WireNext ==
  \/ \E app \in StatApps :
       \/ Reconfigure(app)
       \/ \E job \in StatJobs : AskClient(job, app) \/ \E s \in BOOLEAN : AskPlayer(job, app, s)
  \/ AskProducts
  \/ \E q \in wire.asked : RecvPlayer(q) \/ RecvClient(q) \/ Lose(q)

(* The user's own progress is never struck from a service answer: what is  *)
(* struck was asked for on the donor's account, however queries overlap,   *)
(* get lost or meet a Lua file that comes while they are under way; and a  *)
(* donor's progress gets through only when the app was removed meanwhile.  *)
OnlyDonorsAreStruck ==
  wire.last.by = "player" =>
    /\ wire.last.struck => wire.last.donor
    /\ wire.last.donor /\ ~wire.last.struck => wire.last.app \notin wire.depots

-----------------------------------------------------------------------------
(* The wire format, with eight values to a varint byte instead of 128.     *)
Base == 8
NotFound == -1
MaxVarint == 10   \* the bytes of a varint

Byte(digit, more) == digit + IF more THEN Base ELSE 0
Digit(byte) == byte % Base
More(byte) == byte >= Base

(* A number, its lowest digit first.                                       *)
Varint(n) ==
  LET left[i \in 0 .. MaxVarint] == IF i = 0 THEN n ELSE left[i - 1] \div Base
      length == CHOOSE k \in 1 .. MaxVarint : left[k] = 0 /\ (k > 1 => left[k - 1] # 0)
  IN  [i \in 1 .. length |-> Byte(left[i - 1] % Base, i < length)]

(* ReadVarint at a position: the value and the position after it.          *)
ReadVarint(d, pos) ==
  LET ends == {k \in pos .. Len(d) : ~More(d[k]) /\ \A i \in pos .. k - 1 : More(d[i])}
      value[i \in 1 .. Len(d)] ==
        Digit(d[i]) + IF More(d[i]) /\ i < Len(d) THEN Base * value[i + 1] ELSE 0
  IN  IF ends = {} \/ \E k \in ends : k - pos >= MaxVarint
      THEN [ok |-> FALSE, value |-> NotFound, next |-> pos]
      ELSE LET k == CHOOSE k \in ends : TRUE
           IN  [ok |-> TRUE, value |-> value[pos], next |-> k + 1]

(* Past the value of a field the reader does not want, or beyond the end.  *)
(* Mutant: the contents of a string are read as fields.                    *)
PastLength(d, pos, wireType) ==
  CASE wireType = 0 -> LET v == ReadVarint(d, pos) IN IF v.ok THEN v.next ELSE Len(d) + 2
    [] wireType = 1 -> pos + 8
    [] wireType = 5 -> pos + 4
    [] wireType = 2 -> LET v == ReadVarint(d, pos) IN IF v.ok THEN v.next ELSE Len(d) + 2
    [] OTHER        -> Len(d) + 2

PastValue(d, pos, wireType) ==
  CASE wireType = 0 -> LET v == ReadVarint(d, pos) IN IF v.ok THEN v.next ELSE Len(d) + 2
    [] wireType = 1 -> pos + 8
    [] wireType = 5 -> pos + 4
    [] wireType = 2 -> LET v == ReadVarint(d, pos) IN IF v.ok THEN v.next + v.value ELSE Len(d) + 2
    [] OTHER        -> Len(d) + 2

FindVarintField(d, target) ==
  LET find[pos \in 1 .. Len(d) + 2] ==
        IF pos > Len(d) THEN NotFound
        ELSE LET tag == ReadVarint(d, pos)
                 field == tag.value \div Base
                 wireType == tag.value % Base
                 after == PastValue(d, tag.next, wireType)
             IN  IF ~tag.ok THEN NotFound
                 ELSE IF field = target /\ wireType = 0 THEN ReadVarint(d, tag.next).value
                 ELSE IF after > Len(d) + 1 THEN NotFound ELSE find[after]
  IN  find[1]

(* Mutant: field 1 of every request.                                       *)
AppIdFieldFirst(job) == 1

(* ExtractAppId: the field that holds the app.                             *)
AppIdField(job) == IF job = "Cloud.ClientCommitFileUpload#1" THEN 2 ELSE 1

ExtractAppId(job, d) == FindVarintField(d, AppIdField(job))

-----------------------------------------------------------------------------
(* Bodies as steamclient writes them: fields in their order, each a number *)
(* or the bytes of a fixed 64 or 32 bits or of a string, which may itself  *)
(* look like fields.                                                       *)
NumberField(num, value)    == [num |-> num, wt |-> 0, value |-> value, bytes |-> <<>>]
BytesField(num, wt, bytes) == [num |-> num, wt |-> wt, value |-> 0, bytes |-> bytes]

Encode(f) ==
  Varint(f.num * Base + f.wt) \o
    CASE f.wt = 0 -> Varint(f.value)
      [] f.wt = 2 -> Varint(Len(f.bytes)) \o f.bytes
      [] OTHER    -> f.bytes

Body(fields) == FlattenSeq([i \in 1 .. Len(fields) |-> Encode(fields[i])])

Contents == Body(<<NumberField(1, 5), NumberField(2, 6)>>)
Fixed(n) == [i \in 1 .. n |-> Byte(1, TRUE)]

Others == UNION {{NumberField(n, 0), NumberField(n, 70), BytesField(n, 1, Fixed(8)),
                  BytesField(n, 5, Fixed(4)), BytesField(n, 2, Contents)} : n \in {3, 9}}

(* The app first, or after the success flag of a commit, or after others.  *)
Bodies == {<<[job |-> "Cloud.ClientCommitFileUpload#1"], NumberField(1, 1), NumberField(2, app), o>> :
             app \in {7, 480}, o \in Others}
     \cup {<<[job |-> "Cloud.ClientFileDownload#1"], o, NumberField(1, app), p>> :
             app \in {7, 480}, o \in Others, p \in Others}

NoRequest == <<>>
BodyInit  == request \in Bodies

(* The app of a Cloud.* request is the one the client wrote, wherever it   *)
(* stands and whatever surrounds it; a request that was cut short names no *)
(* other app.                                                              *)
RequestNamesItsApp ==
  request # NoRequest =>
    LET d == Body(Tail(request))
        app == request[3].value
    IN  /\ ExtractAppId(request[1].job, d) = app
        /\ \A k \in 0 .. Len(d) : ExtractAppId(request[1].job, SubSeq(d, 1, k)) \in {NotFound, app}

(* Neither a failed answer nor a request is put down to another app.       *)
PacketsNameTheirApp == OnlyDonorsAreStruck /\ RequestNamesItsApp
=============================================================================
