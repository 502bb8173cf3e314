---------------------------- MODULE LocalAnswers ----------------------------
(***************************************************************************)
(* Requests the packet hooks answer themselves (Hooks_NetPacket.cpp): the  *)
(* Cloud.* service calls of apps with a manifest, and requests for legacy  *)
(* CD keys.  The send hook swallows the frame and queues a reply under the *)
(* job of the request; the receive hook hands every queued reply to Steam  *)
(* before the packet Valve really sent, one borrowed packet at a time.     *)
(*                                                                         *)
(* The two hooks run on different threads of Steam and meet only at the    *)
(* two queues, each under its own lock: a send may fall between any two    *)
(* steps of a drain.  A reply is named by its job; what it says is the     *)
(* subject of CloudStore.                                                  *)
(***************************************************************************)
EXTENDS Naturals, Sequences

CONSTANTS
  CloudJobs,    \* jobs of Cloud.* service calls
  KeyJobs,      \* jobs of legacy key requests
  Unanswered,   \* cloud jobs CloudSaves leaves alone: notifications, methods
                \* it does not know, replies over the cap
  QueueLimit,   \* 64 in the code
  NoReply       \* no job

Jobs == CloudJobs \cup KeyJobs

ASSUME AnswersAssumption ==
  /\ Unanswered \subseteq CloudJobs
  /\ CloudJobs \cap KeyJobs = {}
  /\ QueueLimit \in Nat \ {0}
  /\ NoReply \notin Jobs

VARIABLES
  managed,    \* does a manifest name the app (IsApp, HasDepot)?
  pending,    \* the two deques g_pending
  stage,      \* where RecvPkt is: idle, cloud, key
  held,       \* the reply popped and not yet delivered
  forwarded,  \* jobs whose frame went to Valve
  swallowed,  \* jobs whose frame the hook reported as sent, in order
  replies     \* local replies Steam has received, in order

answers == <<managed, pending, stage, held, forwarded, swallowed, replies>>

Queues == {"cloud", "key"}
JobsOf(q) == IF q = "cloud" THEN CloudJobs ELSE KeyJobs
InSeq(s) == {s[i] : i \in DOMAIN s}

AnswersInit ==
  /\ managed \in BOOLEAN
  /\ pending = [q \in Queues |-> <<>>]
  /\ stage = "idle" /\ held = NoReply
  /\ forwarded = {} /\ swallowed = <<>> /\ replies = <<>>

(* push_back under the lock, unless the queue is full.                     *)
QueuedFirst(q, j) ==                                               \* mutant
  IF Len(pending[q]) < QueueLimit
  THEN [pending EXCEPT ![q] = <<j>> \o @]
  ELSE pending

Queued(q, j) ==
  IF Len(pending[q]) < QueueLimit
  THEN [pending EXCEPT ![q] = Append(@, j)]
  ELSE pending

Answerable(j) == managed /\ j \notin Unanswered

Fresh(j) == j \notin forwarded \cup InSeq(swallowed)

Forward(j) ==
  /\ Fresh(j)
  /\ ~Answerable(j)
  /\ forwarded' = forwarded \cup {j}
  /\ UNCHANGED <<managed, pending, stage, held, swallowed, replies>>

SwallowUnsuppressed(q, j) ==                                       \* mutant
  /\ Fresh(j) /\ j \in JobsOf(q)
  /\ Answerable(j)
  /\ pending' = Queued(q, j)
  /\ swallowed' = Append(swallowed, j)
  /\ forwarded' = forwarded \cup {j}
  /\ UNCHANGED <<managed, stage, held, replies>>

Swallow(q, j) ==
  /\ Fresh(j) /\ j \in JobsOf(q)
  /\ Answerable(j)
  /\ pending' = Queued(q, j)
  /\ swallowed' = Append(swallowed, j)
  /\ UNCHANGED <<managed, stage, held, forwarded, replies>>

SendCloud(j) == Forward(j) \/ Swallow("cloud", j)
SendKey(j)   == Forward(j) \/ Swallow("key", j)

(* A Lua file appears or goes; the app set follows.                        *)
SyncAppSet ==
  /\ managed' = ~managed
  /\ UNCHANGED <<pending, stage, held, forwarded, swallowed, replies>>

----------------------------------------------------------------------------
(* A packet arrives from Valve and the receive hook is called.             *)
RecvPkt ==
  /\ stage = "idle"
  /\ stage' = "cloud"
  /\ UNCHANGED <<managed, pending, held, forwarded, swallowed, replies>>

(* Drain, once around its loop: pop one reply, or go on.                   *)
Pop(q) ==
  /\ stage = q /\ held = NoReply
  /\ pending[q] # <<>>
  /\ held' = Head(pending[q])
  /\ pending' = [pending EXCEPT ![q] = Tail(@)]
  /\ UNCHANGED <<managed, stage, forwarded, swallowed, replies>>

(* oRecvPkt on the borrowed packet, outside the lock.                      *)
Deliver ==
  /\ held # NoReply
  /\ replies' = Append(replies, held)
  /\ held' = NoReply
  /\ UNCHANGED <<managed, pending, stage, forwarded, swallowed>>

DrainedForGood(q) ==                                               \* mutant
  /\ stage = q /\ held = NoReply
  /\ pending[q] = <<>>
  /\ stage' = "idle"
  /\ UNCHANGED <<managed, pending, held, forwarded, swallowed, replies>>

Drained(q) ==
  /\ stage = q /\ held = NoReply
  /\ pending[q] = <<>>
  /\ stage' = IF q = "cloud" THEN "key" ELSE "idle"
  /\ UNCHANGED <<managed, pending, held, forwarded, swallowed, replies>>

Drain == Deliver \/ \E q \in Queues : Pop(q) \/ Drained(q)

AnswersNext ==
  \/ \E j \in CloudJobs : SendCloud(j)
  \/ \E j \in KeyJobs : SendKey(j)
  \/ SyncAppSet
  \/ RecvPkt
  \/ Drain

(* What these hooks may do; when they do it is up to NetHooks.             *)
AnswersSteps == AnswersInit /\ [][AnswersNext]_answers

----------------------------------------------------------------------------
(* The state is well-formed and no queue outgrows its limit.               *)
AnswersTypeOK ==
  /\ managed \in BOOLEAN
  /\ pending \in [Queues -> Seq(Jobs)]
  /\ \A q \in Queues : Len(pending[q]) <= QueueLimit
  /\ stage \in {"idle"} \cup Queues
  /\ held \in {NoReply} \cup Jobs
  /\ forwarded \subseteq Jobs /\ swallowed \in Seq(Jobs) /\ replies \in Seq(Jobs)

Before(s, x, y) == \E c, d \in DOMAIN s : c < d /\ x = s[c] /\ y = s[d]

(* What Steam has been given, then what is in the receive hook's hand,     *)
(* then what is queued at q.                                               *)
Line(q) == replies \o (IF held = NoReply THEN <<>> ELSE <<held>>) \o pending[q]

(* Along the line, the requests of a queue stand in the order they were    *)
(* swallowed: each is answered at most once, and in that order, whatever   *)
(* falls between two steps of a drain.                                     *)
AnsweredOnceInOrder ==
  \A q \in Queues : \A a, b \in DOMAIN Line(q) :
    a < b /\ {Line(q)[a], Line(q)[b]} \subseteq JobsOf(q)
      => Before(swallowed, Line(q)[a], Line(q)[b])

(* A request has one answer: it is never both sent to Valve and answered   *)
(* here, also when the manifest comes or goes between two requests.        *)
OneAnswerer ==
  forwarded \cap (InSeq(replies) \cup {held} \cup
                         UNION {InSeq(pending[q]) : q \in Queues}) = {}

(* A reply that is queued reaches Steam.                                   *)
QueuedIsDelivered ==
  \A q \in Queues : \A j \in JobsOf(q) :
    j \in InSeq(pending[q]) ~> j \in InSeq(replies)

(* "Report success so Steam treats the frame as sent" is right only if a   *)
(* reply is on its way: no swallowed request is without one.               *)
SwallowedIsAnswered ==
  InSeq(swallowed) \subseteq InSeq(replies) \cup {held} \cup
                             UNION {InSeq(pending[q]) : q \in Queues}
=============================================================================
