--------------------------- MODULE NetHooksProofs ---------------------------
(***************************************************************************)
(* For any requests and any limits: what LocalAnswers and ManifestCodes    *)
(* each promise, that the hooks which interleave the two keep it, that     *)
(* PacketRewrite strikes no player's own progress from an answer, and that *)
(* it finds the app of a request in a body of any fields.                  *)
(***************************************************************************)
EXTENDS NetHooks, PacketRewrite, Induction, SequenceTheorems, TLAPS

----------------------------------------------------------------------------
(* Requests answered here.  No queue outgrows its limit, no request is     *)
(* both sent to Valve and answered here, and the replies go out in the     *)
(* order of their requests, one each.                                      *)
(*                                                                         *)
(* The inductive invariant adds that what is queued, held or delivered was *)
(* swallowed, that swallowed and forwarded requests are apart, and, for    *)
(* the order, how the replies given, held and queued stand to each other.  *)
Apart ==
  /\ forwarded \cap InSeq(swallowed) = {}
  /\ InSeq(replies) \subseteq InSeq(swallowed)
  /\ held # NoReply => held \in InSeq(swallowed)
  /\ \A q \in Queues : InSeq(pending[q]) \subseteq InSeq(swallowed)

AInv == AnswersTypeOK /\ Apart

LEMMA InAppend ==
  ASSUME NEW S, NEW s \in Seq(S), NEW x \in S
  PROVE  InSeq(Append(s, x)) = InSeq(s) \cup {x}
<1>1. /\ DOMAIN s = 1..Len(s) /\ DOMAIN Append(s, x) = 1..(Len(s) + 1)
      /\ Len(s) \in Nat
  OBVIOUS
<1>2. /\ \A i \in 1..Len(s) : Append(s, x)[i] = s[i]
      /\ Append(s, x)[Len(s) + 1] = x
  OBVIOUS
<1>3. ASSUME NEW y \in InSeq(Append(s, x))
      PROVE  y \in InSeq(s) \cup {x}
  <2>1. PICK i \in 1..(Len(s) + 1) : y = Append(s, x)[i]
    BY <1>1, <1>3 DEF InSeq
  <2>2. CASE i = Len(s) + 1
    BY <1>2, <2>1, <2>2
  <2>3. CASE i \in 1..Len(s)
    BY <1>1, <1>2, <2>1, <2>3 DEF InSeq
  <2> QED
    BY <1>1, <2>1, <2>2, <2>3
<1>4. ASSUME NEW y \in InSeq(s)
      PROVE  y \in InSeq(Append(s, x))
  <2>1. PICK i \in 1..Len(s) : y = s[i]
    BY <1>1, <1>4 DEF InSeq
  <2>2. i \in 1..(Len(s) + 1) /\ y = Append(s, x)[i]
    BY <1>1, <1>2, <2>1
  <2> QED
    BY <1>1, <2>2 DEF InSeq
<1>5. x \in InSeq(Append(s, x))
  <2>1. Len(s) + 1 \in 1..(Len(s) + 1)
    BY <1>1
  <2> QED
    BY <1>1, <1>2, <2>1 DEF InSeq
<1> QED
  BY <1>3, <1>4, <1>5

LEMMA InTail ==
  ASSUME NEW S, NEW s \in Seq(S), s # <<>>
  PROVE  InSeq(Tail(s)) \subseteq InSeq(s) /\ Head(s) \in InSeq(s)
<1>1. /\ DOMAIN s = 1..Len(s) /\ Len(s) \in Nat \ {0}
      /\ DOMAIN Tail(s) = 1..(Len(s) - 1)
      /\ \A i \in 1..(Len(s) - 1) : Tail(s)[i] = s[i + 1]
      /\ Head(s) = s[1]
  OBVIOUS
<1>2. ASSUME NEW y \in InSeq(Tail(s))
      PROVE  y \in InSeq(s)
  <2>1. PICK i \in 1..(Len(s) - 1) : y = Tail(s)[i]
    BY <1>1, <1>2 DEF InSeq
  <2>2. i + 1 \in 1..Len(s) /\ y = s[i + 1]
    BY <1>1, <2>1
  <2> QED
    BY <1>1, <2>2 DEF InSeq
<1>3. 1 \in 1..Len(s)
  BY <1>1
<1> QED
  BY <1>1, <1>2, <1>3 DEF InSeq

LEMMA InitAInv == AnswersInit => AInv
<1> SUFFICES ASSUME AnswersInit PROVE AInv
  OBVIOUS
<1>1. InSeq(<<>>) = {}
  BY DEF InSeq
<1>2. AnswersTypeOK
  BY AnswersAssumption DEF AnswersInit, AnswersTypeOK, Queues
<1>3. Apart
  BY <1>1 DEF AnswersInit, Apart
<1> QED
  BY <1>2, <1>3 DEF AInv

LEMMA ForwardAInv ==
  ASSUME AInv, NEW j \in Jobs, Forward(j)
  PROVE  AInv'
<1> USE DEF AInv
<1>1. AnswersTypeOK'
  BY DEF AnswersTypeOK, Forward
<1>2. forwarded' = forwarded \cup {j}
  BY DEF Forward
<1>3. Apart'
  BY <1>2 DEF Apart, Forward, Fresh
<1> QED
  BY <1>1, <1>3

LEMMA SwallowAInv ==
  ASSUME AInv, NEW q \in Queues, NEW j \in Jobs, Swallow(q, j)
  PROVE  AInv'
<1> USE DEF AInv
<1>1. /\ pending' = Queued(q, j) /\ swallowed' = Append(swallowed, j)
      /\ UNCHANGED <<managed, stage, held, forwarded, replies>>
  BY DEF Swallow
<1>2. ASSUME NEW p \in Queues
      PROVE  /\ pending'[p] \in Seq(Jobs) /\ Len(pending'[p]) <= QueueLimit
             /\ InSeq(pending'[p]) \subseteq InSeq(pending[p]) \cup {j}
  <2>1. pending[p] \in Seq(Jobs) /\ Len(pending[p]) \in Nat
    BY DEF AnswersTypeOK
  <2>2. CASE p = q /\ Len(pending[q]) < QueueLimit
    <3>1. pending'[p] = Append(pending[p], j)
      BY <1>1, <2>2 DEF Queued, AnswersTypeOK
    <3>2. InSeq(pending'[p]) = InSeq(pending[p]) \cup {j}
      BY <2>1, <3>1, InAppend
    <3> QED
      BY <2>1, <2>2, <3>1, <3>2, AnswersAssumption
  <2>3. CASE ~ (p = q /\ Len(pending[q]) < QueueLimit)
    <3>1. pending'[p] = pending[p]
      BY <1>1, <2>3 DEF Queued, AnswersTypeOK
    <3> QED
      BY <2>1, <3>1 DEF AnswersTypeOK
  <2> QED
    BY <2>2, <2>3
<1>3. pending' \in [Queues -> Seq(Jobs)]
  <2>1. pending' = [p \in Queues |-> pending'[p]]
    BY <1>1 DEF Queued, AnswersTypeOK
  <2> QED
    BY <1>2, <2>1
<1>4. AnswersTypeOK'
  BY <1>1, <1>2, <1>3 DEF AnswersTypeOK
<1>5. InSeq(swallowed') = InSeq(swallowed) \cup {j}
  BY <1>1, InAppend DEF AnswersTypeOK
<1>6. Apart'
  BY <1>1, <1>2, <1>5 DEF Apart, Swallow, Fresh
<1> QED
  BY <1>4, <1>6

LEMMA PopAInv ==
  ASSUME AInv, NEW q \in Queues, Pop(q)
  PROVE  AInv'
<1> USE DEF AInv
<1>1. /\ pending' = [pending EXCEPT ![q] = Tail(@)] /\ held' = Head(pending[q])
      /\ pending[q] # <<>> /\ pending[q] \in Seq(Jobs)
      /\ UNCHANGED <<managed, stage, forwarded, swallowed, replies>>
  BY DEF Pop, AnswersTypeOK
<1>2. /\ InSeq(Tail(pending[q])) \subseteq InSeq(pending[q])
      /\ Head(pending[q]) \in InSeq(pending[q])
  BY <1>1, InTail
<1>3. /\ Tail(pending[q]) \in Seq(Jobs) /\ Head(pending[q]) \in Jobs
      /\ Len(Tail(pending[q])) <= Len(pending[q])
  BY <1>1
<1>4. Len(Tail(pending[q])) <= QueueLimit
  BY <1>1, <1>3, AnswersAssumption DEF AnswersTypeOK
<1>5. \A p \in Queues : pending'[p] = IF p = q THEN Tail(pending[q]) ELSE pending[p]
  BY <1>1 DEF AnswersTypeOK
<1>6. pending' \in [Queues -> Seq(Jobs)]
  BY <1>1, <1>3 DEF AnswersTypeOK
<1>7. AnswersTypeOK'
  BY <1>1, <1>3, <1>4, <1>5, <1>6 DEF AnswersTypeOK
<1>8. Apart'
  BY <1>1, <1>2, <1>5 DEF Apart
<1> QED
  BY <1>7, <1>8

LEMMA DeliverAInv ==
  ASSUME AInv, Deliver
  PROVE  AInv'
<1> USE DEF AInv
<1>1. held \in Jobs
  BY DEF Deliver, AnswersTypeOK
<1>2. AnswersTypeOK'
  BY <1>1 DEF Deliver, AnswersTypeOK
<1>3. InSeq(replies') = InSeq(replies) \cup {held}
  BY <1>1, InAppend DEF Deliver, AnswersTypeOK
<1>4. Apart'
  BY <1>3 DEF Apart, Deliver
<1> QED
  BY <1>2, <1>4

LEMMA NextAInv == AInv /\ [AnswersNext]_answers => AInv'
<1> SUFFICES ASSUME AInv, [AnswersNext]_answers PROVE AInv'
  OBVIOUS
<1>1. ASSUME NEW j \in Jobs, Forward(j)
      PROVE  AInv'
  BY <1>1, ForwardAInv
<1>2. ASSUME NEW q \in Queues, NEW j \in Jobs, Swallow(q, j)
      PROVE  AInv'
  BY <1>2, SwallowAInv
<1>3. ASSUME NEW q \in Queues, Pop(q)
      PROVE  AInv'
  BY <1>3, PopAInv
<1>4. CASE Deliver
  BY <1>4, DeliverAInv
<1>5. ASSUME NEW q \in Queues, Drained(q)
      PROVE  AInv'
  BY <1>5 DEF Drained, AInv, AnswersTypeOK, Apart, Queues
<1>6. CASE SyncAppSet \/ RecvPkt \/ UNCHANGED answers
  BY <1>6 DEF SyncAppSet, RecvPkt, answers, AInv, AnswersTypeOK, Apart, Queues
<1> QED
  BY <1>1, <1>2, <1>3, <1>4, <1>5, <1>6
  DEF AnswersNext, SendCloud, SendKey, Drain, Jobs, Queues

LEMMA AlwaysAInv == AnswersSteps => []AInv
BY InitAInv, NextAInv, PTL DEF AnswersSteps

(* The queues keep their limit and the state its types.                    *)
THEOREM AnswersTyped == AnswersSteps => []AnswersTypeOK
<1>1. AInv => AnswersTypeOK
  BY DEF AInv
<1> QED
  BY <1>1, AlwaysAInv, PTL

(* A request is never both sent to Valve and answered here, however the    *)
(* set of managed apps changes between sends.                              *)
THEOREM OneAnswererAlways == AnswersSteps => []OneAnswerer
<1>1. AInv => OneAnswerer
  <2> SUFFICES ASSUME AInv PROVE OneAnswerer
    OBVIOUS
  <2>1. NoReply \notin forwarded
    BY AnswersAssumption DEF AInv, AnswersTypeOK
  <2>2. UNION {InSeq(pending[q]) : q \in Queues} \subseteq InSeq(swallowed)
    BY DEF AInv, Apart
  <2> QED
    BY <2>1, <2>2 DEF AInv, Apart, OneAnswerer
<1> QED
  BY <1>1, AlwaysAInv, PTL

(* The order.  No request is swallowed twice, a queue holds only its own,  *)
(* and of the replies to requests of one queue those given come before the *)
(* one held, and that before those queued.                                 *)
Once(s) == \A c, d \in 1..Len(s) : s[c] = s[d] => c = d

Given(q) ==
  \A i, j \in 1..Len(replies) :
    i < j /\ replies[i] \in JobsOf(q) /\ replies[j] \in JobsOf(q)
      => Before(swallowed, replies[i], replies[j])

InHand(q) ==
  held \in JobsOf(q) =>
    /\ \A i \in 1..Len(replies) :
         replies[i] \in JobsOf(q) => Before(swallowed, replies[i], held)
    /\ \A j \in 1..Len(pending[q]) : Before(swallowed, held, pending[q][j])

InQueue(q) ==
  /\ \A j \in 1..Len(pending[q]) : pending[q][j] \in JobsOf(q)
  /\ \A i, j \in 1..Len(pending[q]) :
       i < j => Before(swallowed, pending[q][i], pending[q][j])
  /\ \A i \in 1..Len(replies), j \in 1..Len(pending[q]) :
       replies[i] \in JobsOf(q) => Before(swallowed, replies[i], pending[q][j])

InOrder == \A q \in Queues : Given(q) /\ InHand(q) /\ InQueue(q)

OInv == AInv /\ Once(swallowed) /\ InOrder

(* A request swallowed last comes after all others, whose order stays.     *)
LEMMA BeforeAppend ==
  ASSUME NEW s \in Seq(Jobs), NEW z \in Jobs
  PROVE  /\ \A x, y : Before(s, x, y) => Before(Append(s, z), x, y)
         /\ \A x \in InSeq(s) : Before(Append(s, z), x, z)
         /\ Once(s) /\ z \notin InSeq(s) => Once(Append(s, z))
<1>1. /\ Len(s) \in Nat /\ DOMAIN s = 1..Len(s)
      /\ DOMAIN Append(s, z) = 1..(Len(s) + 1) /\ Len(Append(s, z)) = Len(s) + 1
      /\ \A i \in 1..Len(s) : Append(s, z)[i] = s[i]
      /\ Append(s, z)[Len(s) + 1] = z
  OBVIOUS
<1>2. ASSUME NEW x, NEW y, Before(s, x, y)
      PROVE  Before(Append(s, z), x, y)
  <2>1. PICK c, d \in 1..Len(s) : c < d /\ x = s[c] /\ y = s[d]
    BY <1>1, <1>2 DEF Before
  <2>2. /\ c \in 1..(Len(s) + 1) /\ d \in 1..(Len(s) + 1)
        /\ x = Append(s, z)[c] /\ y = Append(s, z)[d]
    BY <1>1, <2>1
  <2> QED
    BY <1>1, <2>1, <2>2 DEF Before
<1>3. ASSUME NEW x \in InSeq(s)
      PROVE  Before(Append(s, z), x, z)
  <2>1. PICK c \in 1..Len(s) : x = s[c]
    BY <1>1, <1>3 DEF InSeq
  <2>2. /\ c \in 1..(Len(s) + 1) /\ Len(s) + 1 \in 1..(Len(s) + 1) /\ c < Len(s) + 1
        /\ x = Append(s, z)[c]
    BY <1>1, <2>1
  <2> QED
    BY <1>1, <2>2 DEF Before
<1>4. ASSUME Once(s), z \notin InSeq(s)
      PROVE  Once(Append(s, z))
  <2>1. \A i \in 1..Len(s) : s[i] # z
    BY <1>1, <1>4 DEF InSeq
  <2> SUFFICES ASSUME NEW c \in 1..(Len(s) + 1), NEW d \in 1..(Len(s) + 1),
                      Append(s, z)[c] = Append(s, z)[d]
               PROVE  c = d
    BY <1>1 DEF Once
  <2>2. CASE c = Len(s) + 1 \/ d = Len(s) + 1
    BY <1>1, <2>1, <2>2
  <2>3. CASE c \in 1..Len(s) /\ d \in 1..Len(s)
    BY <1>1, <1>4, <2>3 DEF Once
  <2> QED
    BY <1>1, <2>2, <2>3
<1> QED
  BY <1>2, <1>3, <1>4

(* What is given, held or queued is the reply to a swallowed request.      *)
LEMMA AreSwallowed ==
  ASSUME AInv
  PROVE  /\ \A i \in 1..Len(replies) : replies[i] \in InSeq(swallowed)
         /\ held # NoReply => held \in InSeq(swallowed)
         /\ \A q \in Queues : \A j \in 1..Len(pending[q]) :
              pending[q][j] \in InSeq(swallowed)
<1>1. \A i \in 1..Len(replies) : replies[i] \in InSeq(replies)
  BY DEF AInv, AnswersTypeOK, InSeq
<1>2. \A q \in Queues : \A j \in 1..Len(pending[q]) : pending[q][j] \in InSeq(pending[q])
  BY DEF AInv, AnswersTypeOK, InSeq
<1> QED
  BY <1>1, <1>2 DEF AInv, Apart

LEMMA SwallowOInv ==
  ASSUME OInv, NEW q \in Queues, NEW j \in Jobs, Swallow(q, j)
  PROVE  Once(swallowed') /\ InOrder'
<1>1. /\ pending' = Queued(q, j) /\ swallowed' = Append(swallowed, j)
      /\ j \notin InSeq(swallowed) /\ j \in JobsOf(q)
      /\ UNCHANGED <<held, replies>>
  BY DEF Swallow, Fresh
<1>2. /\ pending \in [Queues -> Seq(Jobs)] /\ swallowed \in Seq(Jobs)
      /\ AInv /\ Once(swallowed)
  BY DEF OInv, AInv, AnswersTypeOK
<1>3. /\ \A x, y : Before(swallowed, x, y) => Before(swallowed', x, y)
      /\ \A x \in InSeq(swallowed) : Before(swallowed', x, j)
      /\ Once(swallowed')
  BY <1>1, <1>2, BeforeAppend
<1>4. ASSUME NEW p \in Queues
      PROVE  Given(p)' /\ InHand(p)' /\ InQueue(p)'
  <2>1. Given(p) /\ InHand(p) /\ InQueue(p)
    BY DEF OInv, InOrder
  <2>2. Given(p)'
    BY <1>1, <1>3, <2>1 DEF Given
  <2>3. CASE p = q /\ Len(pending[q]) < QueueLimit
    <3>1. /\ pending'[p] = Append(pending[p], j)
          /\ pending[p] \in Seq(Jobs) /\ Len(pending[p]) \in Nat
      BY <1>1, <1>2, <2>3 DEF Queued
    <3>2. /\ Len(pending'[p]) = Len(pending[p]) + 1
          /\ \A i \in 1..Len(pending[p]) : pending'[p][i] = pending[p][i]
          /\ pending'[p][Len(pending[p]) + 1] = j
      BY <3>1
    <3>3. \A i \in 1..Len(pending'[p]) : i \in 1..Len(pending[p]) \/ i = Len(pending[p]) + 1
      BY <3>1, <3>2
    <3>4. held \in JobsOf(p) => held # NoReply
      BY AnswersAssumption DEF JobsOf, Jobs, Queues
    <3>5. InHand(p)'
      <4>1. ASSUME held \in JobsOf(p), NEW i \in 1..Len(pending'[p])
            PROVE  Before(swallowed', held, pending'[p][i])
        BY <1>2, <1>3, <2>1, <3>2, <3>3, <3>4, <4>1, AreSwallowed DEF InHand
      <4>2. ASSUME held \in JobsOf(p), NEW i \in 1..Len(replies), replies[i] \in JobsOf(p)
            PROVE  Before(swallowed', replies[i], held)
        BY <1>3, <2>1, <4>2 DEF InHand
      <4> QED
        BY <1>1, <4>1, <4>2 DEF InHand
    <3>6. InQueue(p)'
      <4>1. \A i \in 1..Len(pending'[p]) : pending'[p][i] \in JobsOf(p)
        BY <1>1, <2>1, <2>3, <3>2, <3>3 DEF InQueue
      <4>2. ASSUME NEW i \in 1..Len(pending'[p]), NEW k \in 1..Len(pending'[p]), i < k
            PROVE  Before(swallowed', pending'[p][i], pending'[p][k])
        <5>1. i \in 1..Len(pending[p])
          BY <3>1, <3>2, <4>2
        <5>2. CASE k = Len(pending[p]) + 1
          BY <1>2, <1>3, <3>2, <5>1, <5>2, AreSwallowed
        <5>3. CASE k \in 1..Len(pending[p])
          BY <1>3, <2>1, <3>2, <4>2, <5>1, <5>3 DEF InQueue
        <5> QED
          BY <3>3, <5>2, <5>3
      <4>3. ASSUME NEW i \in 1..Len(replies), NEW k \in 1..Len(pending'[p]),
                   replies[i] \in JobsOf(p)
            PROVE  Before(swallowed', replies[i], pending'[p][k])
        <5>1. CASE k = Len(pending[p]) + 1
          BY <1>2, <1>3, <3>2, <5>1, AreSwallowed
        <5>2. CASE k \in 1..Len(pending[p])
          BY <1>3, <2>1, <3>2, <4>3, <5>2 DEF InQueue
        <5> QED
          BY <3>3, <5>1, <5>2
      <4> QED
        BY <1>1, <4>1, <4>2, <4>3 DEF InQueue
    <3> QED
      BY <2>2, <3>5, <3>6
  <2>4. CASE ~ (p = q /\ Len(pending[q]) < QueueLimit)
    <3>1. pending'[p] = pending[p]
      BY <1>1, <1>2, <2>4 DEF Queued
    <3> QED
      BY <1>1, <1>3, <2>1, <2>2, <3>1 DEF InHand, InQueue
  <2> QED
    BY <2>3, <2>4
<1> QED
  BY <1>3, <1>4 DEF InOrder

LEMMA PopOInv ==
  ASSUME OInv, NEW q \in Queues, Pop(q)
  PROVE  InOrder'
<1>1. /\ pending' = [pending EXCEPT ![q] = Tail(pending[q])]
      /\ held' = Head(pending[q])
      /\ held = NoReply
      /\ pending[q] # <<>>
      /\ UNCHANGED <<swallowed, replies>>
      /\ pending \in [Queues -> Seq(Jobs)]
  BY DEF Pop, OInv, AInv, AnswersTypeOK
<1>2. pending[q] \in Seq(Jobs)
  BY <1>1
<1>3. /\ Len(pending[q]) \in Nat \ {0}
      /\ held' = pending[q][1]
      /\ Len(pending'[q]) = Len(pending[q]) - 1
      /\ \A i \in 1..Len(pending'[q]) : pending'[q][i] = pending[q][i + 1]
  BY <1>1, <1>2
<1>4. ASSUME NEW p \in Queues
      PROVE  Given(p)' /\ InHand(p)' /\ InQueue(p)'
  <2>1. Given(p) /\ InHand(p) /\ InQueue(p)
    BY DEF OInv, InOrder
  <2>2. Given(p)'
    BY <1>1, <2>1 DEF Given
  <2>3. CASE p = q
    <3>1. \A i \in 1..Len(pending'[q]) :
            i + 1 \in 1..Len(pending[q]) /\ 1 < i + 1 /\ 1 \in 1..Len(pending[q])
      BY <1>3
    <3>2. InHand(q)'
      <4>1. 1 \in 1..Len(pending[q])
        BY <1>3
      <4> QED
        BY <1>1, <1>3, <2>1, <2>3, <3>1, <4>1 DEF InHand, InQueue
    <3>3. InQueue(q)'
      <4>1. \A i \in 1..Len(pending'[q]) : pending'[q][i] \in JobsOf(q)
        BY <1>3, <2>1, <2>3, <3>1 DEF InQueue
      <4>2. ASSUME NEW i \in 1..Len(pending'[q]), NEW k \in 1..Len(pending'[q]), i < k
            PROVE  Before(swallowed, pending'[q][i], pending'[q][k])
        <5>1. /\ i + 1 \in 1..Len(pending[q]) /\ k + 1 \in 1..Len(pending[q])
              /\ i + 1 < k + 1
          BY <3>1, <4>2
        <5> QED
          BY <1>3, <2>1, <2>3, <5>1 DEF InQueue
      <4>3. ASSUME NEW i \in 1..Len(replies), NEW k \in 1..Len(pending'[q]),
                   replies[i] \in JobsOf(q)
            PROVE  Before(swallowed, replies[i], pending'[q][k])
        BY <1>3, <2>1, <2>3, <3>1, <4>3 DEF InQueue
      <4> QED
        BY <1>1, <4>1, <4>2, <4>3 DEF InQueue
    <3> QED
      BY <2>2, <2>3, <3>2, <3>3
  <2>4. CASE p # q
    <3>1. pending'[p] = pending[p]
      BY <1>1, <2>4
    <3>2. 1 \in 1..Len(pending[q]) /\ InQueue(q)
      BY <1>3 DEF OInv, InOrder
    <3>3. held' \in JobsOf(q)
      BY <1>3, <3>2 DEF InQueue
    <3>4. held' \notin JobsOf(p)
      BY <2>4, <3>3, AnswersAssumption DEF JobsOf, Queues
    <3> QED
      BY <1>1, <2>1, <2>2, <3>1, <3>4 DEF InHand, InQueue
  <2> QED
    BY <2>3, <2>4
<1> QED
  BY <1>4 DEF InOrder

LEMMA DeliverOInv ==
  ASSUME OInv, Deliver
  PROVE  InOrder'
<1>1. /\ held # NoReply /\ held' = NoReply
      /\ replies' = Append(replies, held)
      /\ UNCHANGED <<pending, swallowed>>
  BY DEF Deliver
<1>2. replies \in Seq(Jobs) /\ held \in Jobs
  BY <1>1 DEF OInv, AInv, AnswersTypeOK
<1>3. /\ Len(replies) \in Nat
      /\ Len(replies') = Len(replies) + 1
      /\ \A i \in 1..Len(replies) : replies'[i] = replies[i]
      /\ replies'[Len(replies) + 1] = held
      /\ \A i \in 1..Len(replies') : i \in 1..Len(replies) \/ i = Len(replies) + 1
  BY <1>1, <1>2
<1>4. ASSUME NEW p \in Queues
      PROVE  Given(p)' /\ InHand(p)' /\ InQueue(p)'
  <2>1. Given(p) /\ InHand(p) /\ InQueue(p)
    BY DEF OInv, InOrder
  <2>2. Given(p)'
    <3>1. ASSUME NEW i \in 1..Len(replies'), NEW k \in 1..Len(replies'), i < k,
                 replies'[i] \in JobsOf(p), replies'[k] \in JobsOf(p)
          PROVE  Before(swallowed, replies'[i], replies'[k])
      <4>1. i \in 1..Len(replies)
        BY <1>3, <3>1
      <4>2. CASE k = Len(replies) + 1
        BY <1>3, <2>1, <3>1, <4>1, <4>2 DEF InHand
      <4>3. CASE k \in 1..Len(replies)
        BY <1>3, <2>1, <3>1, <4>1, <4>3 DEF Given
      <4> QED
        BY <1>3, <4>2, <4>3
    <3> QED
      BY <1>1, <3>1 DEF Given
  <2>3. InHand(p)'
    BY <1>1, AnswersAssumption DEF InHand, JobsOf, Jobs
  <2>4. InQueue(p)'
    <3>1. ASSUME NEW i \in 1..Len(replies'), NEW k \in 1..Len(pending[p]),
                 replies'[i] \in JobsOf(p)
          PROVE  Before(swallowed, replies'[i], pending[p][k])
      <4>1. CASE i = Len(replies) + 1
        BY <1>3, <2>1, <3>1, <4>1 DEF InHand
      <4>2. CASE i \in 1..Len(replies)
        BY <1>3, <2>1, <3>1, <4>2 DEF InQueue
      <4> QED
        BY <1>3, <4>1, <4>2
    <3> QED
      BY <1>1, <2>1, <3>1 DEF InQueue
  <2> QED
    BY <2>2, <2>3, <2>4
<1> QED
  BY <1>4 DEF InOrder

LEMMA NextOInv == OInv /\ [AnswersNext]_answers => OInv'
<1> SUFFICES ASSUME OInv, [AnswersNext]_answers PROVE OInv'
  OBVIOUS
<1>1. AInv'
  BY NextAInv DEF OInv
<1>2. ASSUME UNCHANGED <<pending, held, swallowed, replies>>
      PROVE  Once(swallowed') /\ InOrder'
  BY <1>2 DEF OInv, InOrder, Given, InHand, InQueue
<1>3. ASSUME NEW j \in Jobs, Forward(j)
      PROVE  UNCHANGED <<pending, held, swallowed, replies>>
  BY <1>3 DEF Forward
<1>4. ASSUME NEW q \in Queues, NEW j \in Jobs, Swallow(q, j)
      PROVE  Once(swallowed') /\ InOrder'
  BY <1>4, SwallowOInv
<1>5. ASSUME NEW q \in Queues, Pop(q)
      PROVE  Once(swallowed') /\ InOrder'
  BY <1>5, PopOInv DEF OInv, Pop
<1>6. ASSUME Deliver
      PROVE  Once(swallowed') /\ InOrder'
  BY <1>6, DeliverOInv DEF OInv, Deliver
<1>7. ASSUME NEW q \in Queues, Drained(q)
      PROVE  UNCHANGED <<pending, held, swallowed, replies>>
  BY <1>7 DEF Drained
<1>8. ASSUME SyncAppSet \/ RecvPkt \/ UNCHANGED answers
      PROVE  UNCHANGED <<pending, held, swallowed, replies>>
  BY <1>8 DEF SyncAppSet, RecvPkt, answers
<1>9. Once(swallowed') /\ InOrder'
  BY <1>2, <1>3, <1>4, <1>5, <1>6, <1>7, <1>8
  DEF AnswersNext, SendCloud, SendKey, Drain, Jobs, Queues
<1> QED
  BY <1>1, <1>9 DEF OInv

LEMMA AlwaysOInv == AnswersSteps => []OInv
<1>1. AnswersInit => OInv
  <2> SUFFICES ASSUME AnswersInit PROVE OInv
    OBVIOUS
  <2>1. Once(swallowed)
    BY DEF AnswersInit, Once
  <2>2. held = NoReply /\ replies = <<>> /\ \A q \in Queues : pending[q] = <<>>
    BY DEF AnswersInit
  <2>3. \A q \in Queues : NoReply \notin JobsOf(q)
    BY AnswersAssumption DEF JobsOf, Jobs, Queues
  <2>4. InOrder
    BY <2>2, <2>3 DEF InOrder, Given, InHand, InQueue
  <2> QED
    BY <2>1, <2>4, InitAInv DEF OInv
<1> QED
  BY <1>1, NextOInv, PTL DEF AnswersSteps

(* The places of two sequences in a row.                                   *)
LEMMA PlacesOfTwo ==
  ASSUME NEW S, NEW s \in Seq(S), NEW t \in Seq(S)
  PROVE  /\ s \o t \in Seq(S) /\ Len(s \o t) = Len(s) + Len(t)
         /\ DOMAIN (s \o t) = 1..(Len(s) + Len(t))
         /\ \A i \in 1..(Len(s) + Len(t)) :
              (s \o t)[i] = IF i <= Len(s) THEN s[i] ELSE t[i - Len(s)]
BY ConcatProperties

(* The places of three sequences in a row, the middle one of one at most.  *)
LEMMA PlacesOfThree ==
  ASSUME NEW S, NEW s \in Seq(S), NEW h \in Seq(S), NEW t \in Seq(S),
         Len(h) \in {0, 1}, NEW a \in DOMAIN (s \o h \o t)
  PROVE  /\ a \in Nat
         /\ \/ a \in 1..Len(s) /\ (s \o h \o t)[a] = s[a]
            \/ Len(h) = 1 /\ a = Len(s) + 1 /\ (s \o h \o t)[a] = h[1]
            \/ /\ a - Len(s) - Len(h) \in 1..Len(t)
               /\ (s \o h \o t)[a] = t[a - Len(s) - Len(h)]
<1> DEFINE u == s \o h
           v == u \o t
<1>1. /\ u \in Seq(S) /\ Len(u) = Len(s) + Len(h)
      /\ \A i \in 1..Len(u) : u[i] = IF i <= Len(s) THEN s[i] ELSE h[i - Len(s)]
  BY ConcatProperties
<1>2. Len(s) \in Nat /\ Len(h) \in Nat /\ Len(t) \in Nat /\ Len(u) \in Nat
  BY <1>1
<1> HIDE DEF u
<1>w. \A w \in Seq(S) :
        /\ Len(w \o t) = Len(w) + Len(t)
        /\ DOMAIN (w \o t) = 1..(Len(w) + Len(t))
        /\ \A i \in 1..(Len(w) + Len(t)) :
             (w \o t)[i] = IF i <= Len(w) THEN w[i] ELSE t[i - Len(w)]
  BY PlacesOfTwo
<1>3. /\ Len(v) = Len(u) + Len(t) /\ DOMAIN v = 1..(Len(u) + Len(t))
      /\ \A i \in 1..(Len(u) + Len(t)) :
           v[i] = IF i <= Len(u) THEN u[i] ELSE t[i - Len(u)]
  <2>1. u \in Seq(S)
    BY <1>1
  <2> QED
    BY <1>w, <2>1
<1>4. s \o h \o t = v
  BY DEF u
<1> HIDE DEF v
<1>5. a \in 1..Len(v)
  BY <1>2, <1>3, <1>4
<1>6. v[a] = IF a <= Len(u) THEN IF a <= Len(s) THEN s[a] ELSE h[a - Len(s)]
             ELSE t[a - Len(u)]
  BY <1>1, <1>2, <1>3, <1>5
<1>7. CASE a <= Len(s)
  BY <1>1, <1>2, <1>4, <1>5, <1>6, <1>7
<1>8. CASE a > Len(s) /\ a <= Len(u)
  <2>1. Len(h) = 1 /\ a = Len(s) + 1 /\ a - Len(s) = 1
    BY <1>1, <1>2, <1>5, <1>8
  <2> QED
    BY <1>1, <1>2, <1>4, <1>5, <1>6, <1>8, <2>1
<1>9. CASE a > Len(u)
  <2>1. a - Len(u) \in 1..Len(t) /\ a - Len(u) = a - Len(s) - Len(h)
    BY <1>1, <1>2, <1>3, <1>5, <1>9
  <2>2. v[a] = t[a - Len(u)]
    BY <1>1, <1>2, <1>5, <1>6, <1>9
  <2> QED
    BY <1>4, <1>5, <2>1, <2>2
<1> QED
  BY <1>1, <1>2, <1>5, <1>7, <1>8, <1>9

(* The line of a queue, place by place.                                    *)
Hand == IF held = NoReply THEN 0 ELSE 1

LEMMA LinePlaces ==
  ASSUME AInv, NEW q \in Queues, NEW a \in DOMAIN Line(q)
  PROVE  /\ a \in Nat
         /\ \/ a \in 1..Len(replies) /\ Line(q)[a] = replies[a]
            \/ held # NoReply /\ a = Len(replies) + 1 /\ Line(q)[a] = held
            \/ /\ a - Len(replies) - Hand \in 1..Len(pending[q])
               /\ Line(q)[a] = pending[q][a - Len(replies) - Hand]
<1> DEFINE h == IF held = NoReply THEN <<>> ELSE <<held>>
<1>1. /\ replies \in Seq(Jobs) /\ pending[q] \in Seq(Jobs)
      /\ held # NoReply => held \in Jobs
  BY DEF AInv, AnswersTypeOK
<1>2. /\ h \in Seq(Jobs)
      /\ Len(h) = Hand /\ (Hand = 1 <=> held # NoReply) /\ Hand \in {0, 1}
      /\ held # NoReply => h[1] = held
  BY <1>1 DEF Hand
<1>3. Line(q) = replies \o h \o pending[q]
  BY DEF Line
<1> HIDE DEF h
<1>4. a \in DOMAIN (replies \o h \o pending[q]) /\ Len(h) \in {0, 1}
  BY <1>2, <1>3
<1>p. \A x, y, z \in Seq(Jobs) : Len(y) \in {0, 1} =>
        \A i \in DOMAIN (x \o y \o z) :
          /\ i \in Nat
          /\ \/ i \in 1..Len(x) /\ (x \o y \o z)[i] = x[i]
             \/ Len(y) = 1 /\ i = Len(x) + 1 /\ (x \o y \o z)[i] = y[1]
             \/ /\ i - Len(x) - Len(y) \in 1..Len(z)
                /\ (x \o y \o z)[i] = z[i - Len(x) - Len(y)]
  <2> SUFFICES ASSUME NEW x \in Seq(Jobs), NEW y \in Seq(Jobs), NEW z \in Seq(Jobs),
                      Len(y) \in {0, 1}, NEW i \in DOMAIN (x \o y \o z)
               PROVE  /\ i \in Nat
                      /\ \/ i \in 1..Len(x) /\ (x \o y \o z)[i] = x[i]
                         \/ /\ Len(y) = 1 /\ i = Len(x) + 1
                            /\ (x \o y \o z)[i] = y[1]
                         \/ /\ i - Len(x) - Len(y) \in 1..Len(z)
                            /\ (x \o y \o z)[i] = z[i - Len(x) - Len(y)]
    OBVIOUS
  <2> QED
    BY PlacesOfThree
<1> DEFINE t == pending[q]
           v == replies \o h \o t
<1> HIDE DEF t
<1>5. /\ a \in Nat
      /\ \/ a \in 1..Len(replies) /\ v[a] = replies[a]
         \/ Len(h) = 1 /\ a = Len(replies) + 1 /\ v[a] = h[1]
         \/ /\ a - Len(replies) - Len(h) \in 1..Len(t)
            /\ v[a] = t[a - Len(replies) - Len(h)]
  <2>1. replies \in Seq(Jobs) /\ h \in Seq(Jobs) /\ t \in Seq(Jobs)
    BY <1>1, <1>2 DEF t
  <2>2. Len(h) \in {0, 1} /\ a \in DOMAIN v
    BY <1>4 DEF t
  <2> QED
    BY <1>p, <2>1, <2>2
<1>6. Line(q) = v
  BY <1>3 DEF t
<1> HIDE DEF v
<1> QED
  BY <1>2, <1>5, <1>6 DEF t

(* Replies go out in the order of their requests and one each, whatever    *)
(* falls between two steps of a drain.                                     *)
THEOREM RepliesKeepTheOrder == AnswersSteps => []AnsweredOnceInOrder
<1>1. OInv => AnsweredOnceInOrder
  <2> SUFFICES ASSUME OInv, NEW q \in Queues,
                      NEW a \in DOMAIN Line(q), NEW b \in DOMAIN Line(q), a < b,
                      Line(q)[a] \in JobsOf(q), Line(q)[b] \in JobsOf(q)
               PROVE  Before(swallowed, Line(q)[a], Line(q)[b])
    BY DEF AnsweredOnceInOrder
  <2> DEFINE k(i) == i - Len(replies) - Hand
  <2>1. AInv /\ Given(q) /\ InHand(q) /\ InQueue(q) /\ Len(replies) \in Nat
    BY DEF OInv, InOrder, AInv, AnswersTypeOK
  <2>2. /\ a \in Nat
        /\ \/ a \in 1..Len(replies) /\ Line(q)[a] = replies[a]
           \/ held # NoReply /\ a = Len(replies) + 1 /\ Line(q)[a] = held
           \/ k(a) \in 1..Len(pending[q]) /\ Line(q)[a] = pending[q][k(a)]
    BY <2>1, LinePlaces
  <2>3. /\ b \in Nat
        /\ \/ b \in 1..Len(replies) /\ Line(q)[b] = replies[b]
           \/ held # NoReply /\ b = Len(replies) + 1 /\ Line(q)[b] = held
           \/ k(b) \in 1..Len(pending[q]) /\ Line(q)[b] = pending[q][k(b)]
    BY <2>1, LinePlaces
  <2>4. k(a) < k(b) /\ Hand \in {0, 1} /\ (Hand = 1 <=> held # NoReply)
    BY <2>1, <2>2, <2>3 DEF Hand
  <2>5. CASE a \in 1..Len(replies) /\ Line(q)[a] = replies[a]
    BY <2>1, <2>3, <2>5 DEF Given, InHand, InQueue
  <2>6. CASE held # NoReply /\ a = Len(replies) + 1 /\ Line(q)[a] = held
    <3>1. k(b) \in 1..Len(pending[q]) /\ Line(q)[b] = pending[q][k(b)]
      BY <2>1, <2>2, <2>3, <2>4, <2>6
    <3> QED
      BY <2>1, <2>6, <3>1 DEF InHand
  <2>7. CASE k(a) \in 1..Len(pending[q]) /\ Line(q)[a] = pending[q][k(a)]
    <3>1. b \notin 1..Len(replies) /\ ~(held # NoReply /\ b = Len(replies) + 1)
      BY <2>1, <2>2, <2>3, <2>4, <2>7
    <3>2. k(b) \in 1..Len(pending[q]) /\ Line(q)[b] = pending[q][k(b)]
      BY <2>3, <3>1
    <3> HIDE DEF k
    <3> QED
      BY <2>1, <2>4, <2>7, <3>2 DEF InQueue
  <2> QED
    BY <2>2, <2>5, <2>6, <2>7
<1> QED
  BY <1>1, AlwaysOInv, PTL

----------------------------------------------------------------------------
(* Manifest codes.  The futures are those of the answers still to come,    *)
(* and a code that is there in time is used.                               *)
(*                                                                         *)
(* The inductive invariant adds that a fetch was started for every managed *)
(* request, that only managed requests have one, and that an answer being  *)
(* waited for is a managed one not yet given to Steam, in "drop" only      *)
(* after the whole wait.                                                   *)
Held ==
  /\ phase # "idle" => /\ job \in asked \cap Managed
                       /\ got[job] = "nothing"
                       /\ fetch[job] # "none"
  /\ phase = "drop" => waited >= kMaxWaitSeconds

Fetched == \A j \in CodeJobs :
  /\ j \notin Managed => fetch[j] = "none"
  /\ j \notin asked => fetch[j] = "none" /\ got[j] = "nothing"
  /\ j \in asked \cap Managed => fetch[j] # "none"

CInv == CodesTypeOK /\ Held /\ Fetched /\ FutureAwaitsAnswer

LEMMA InitCInv == CodesInit => CInv
<1> SUFFICES ASSUME CodesInit PROVE CInv
  OBVIOUS
<1> USE DEF CodesInit
<1>1. CodesTypeOK
  BY CodesAssumption DEF CodesTypeOK
<1>2. Held /\ Fetched /\ FutureAwaitsAnswer
  BY DEF Held, Fetched, FutureAwaitsAnswer
<1> QED
  BY <1>1, <1>2 DEF CInv

(* Giving the answer of a job to Steam, from wherever it was.              *)
LEMMA HandOverCInv ==
  ASSUME CInv, NEW j \in asked, NEW answer \in {"plain", "patched"},
         HandOver(j, answer), UNCHANGED <<asked, futures, fetch>>,
         j \notin futures, phase = "idle" \/ job = j
  PROVE  CInv'
<1> USE DEF CInv, HandOver
<1>1. CodesTypeOK'
  BY CodesAssumption DEF CodesTypeOK
<1>2. Held'
  BY DEF Held
<1>3. Fetched'
  BY DEF Fetched, CodesTypeOK
<1>4. FutureAwaitsAnswer'
  <2>1. ASSUME NEW k \in asked \cap Managed
        PROVE  k \in futures <=> got'[k] = "nothing" /\ job' # k
    <3>1. CASE k = j
      BY <3>1 DEF CodesTypeOK
    <3>2. CASE k # j
      <4>1. got'[k] = got[k] /\ k # Nobody
        BY <3>2, CodesAssumption DEF CodesTypeOK
      <4>2. job # k
        BY <3>2, CodesAssumption DEF CodesTypeOK
      <4> QED
        BY <4>1, <4>2 DEF FutureAwaitsAnswer
    <3> QED
      BY <3>1, <3>2
  <2>2. futures \subseteq asked \cap Managed
    BY DEF FutureAwaitsAnswer
  <2> QED
    BY <2>1, <2>2 DEF FutureAwaitsAnswer
<1> QED
  BY <1>1, <1>2, <1>3, <1>4

LEMMA SendCInv ==
  ASSUME CInv, NEW j \in CodeJobs, HandleSend(j)
  PROVE  CInv'
<1> USE DEF CInv, HandleSend
<1>1. CodesTypeOK'
  BY DEF CodesTypeOK, Fetched
<1>2. Held'
  BY DEF Held, CodesTypeOK
<1>3. Fetched'
  BY DEF Fetched, CodesTypeOK
<1>4. job # j /\ got[j] = "nothing"
  BY CodesAssumption DEF Held, Fetched, CodesTypeOK
<1>5. FutureAwaitsAnswer'
  BY <1>4 DEF FutureAwaitsAnswer
<1> QED
  BY <1>1, <1>2, <1>3, <1>5

(* A fetch that only moves on disturbs nothing else.                       *)
LEMMA FetchCInv ==
  ASSUME CInv, NEW j \in CodeJobs, FetchBegins(j) \/ FetchEnds(j)
  PROVE  CInv'
<1> USE DEF CInv
<1>1. PICK s \in {"running", "failed", "code"} :
        /\ fetch' = [fetch EXCEPT ![j] = s]
        /\ s = "running" => \A k \in CodeJobs : fetch[k] # "running"
  BY DEF FetchBegins, FetchEnds
<1>2. fetch[j] # "none"
  BY DEF FetchBegins, FetchEnds
<1>3. UNCHANGED <<asked, futures, job, phase, waited, got>>
  BY DEF FetchBegins, FetchEnds
<1>4. CodesTypeOK'
  BY <1>1, <1>3 DEF CodesTypeOK
<1>5. Held'
  BY <1>1, <1>3 DEF Held, CodesTypeOK
<1>6. Fetched'
  BY <1>1, <1>2, <1>3 DEF Fetched, CodesTypeOK
<1> QED
  BY <1>3, <1>4, <1>5, <1>6 DEF FutureAwaitsAnswer

LEMMA TakeCInv ==
  ASSUME CInv, NEW j \in CodeJobs, Take(j)
  PROVE  CInv'
<1> USE DEF CInv, Take, Arrives
<1>1. CodesTypeOK'
  BY CodesAssumption DEF CodesTypeOK
<1>2. j \in Managed /\ fetch[j] # "none"
  BY DEF CodesTypeOK, FutureAwaitsAnswer, Fetched
<1>3. Held'
  BY <1>2 DEF Held
<1>4. Fetched'
  BY DEF Fetched
<1>5. FutureAwaitsAnswer'
  BY CodesAssumption DEF FutureAwaitsAnswer, CodesTypeOK
<1> QED
  BY <1>1, <1>3, <1>4, <1>5

LEMMA WaitCInv ==
  ASSUME CInv, WaitEnds \/ TimeOut \/ DropEnds \/ Tick
  PROVE  CInv'
<1> USE DEF CInv
<1>1. CASE WaitEnds \/ DropEnds
  <2>1. PICK answer \in {"plain", "patched"} : HandOver(job, answer)
    BY <1>1 DEF WaitEnds, DropEnds
  <2>2. UNCHANGED <<asked, futures, fetch>>
    BY <1>1 DEF WaitEnds, DropEnds
  <2>3. job \in asked /\ job \notin futures
    BY <1>1 DEF WaitEnds, DropEnds, Held, FutureAwaitsAnswer
  <2> QED
    BY <2>1, <2>2, <2>3, HandOverCInv
<1>2. CASE TimeOut
  BY <1>2, CodesAssumption
  DEF TimeOut, CodesTypeOK, Held, Fetched, FutureAwaitsAnswer
<1>3. CASE Tick
  BY <1>3, CodesAssumption
  DEF Tick, CodesTypeOK, Held, Fetched, FutureAwaitsAnswer
<1> QED
  BY <1>1, <1>2, <1>3

LEMMA NextCInv == CInv /\ [CodesNext]_codes => CInv'
<1> SUFFICES ASSUME CInv, [CodesNext]_codes PROVE CInv'
  OBVIOUS
<1>1. ASSUME NEW j \in CodeJobs, HandleSend(j)
      PROVE  CInv'
  BY <1>1, SendCInv
<1>2. ASSUME NEW j \in CodeJobs, FetchBegins(j) \/ FetchEnds(j)
      PROVE  CInv'
  BY <1>2, FetchCInv
<1>3. ASSUME NEW j \in CodeJobs, PassThrough(j)
      PROVE  CInv'
  BY <1>3, HandOverCInv DEF PassThrough, Arrives
<1>4. ASSUME NEW j \in CodeJobs, Take(j)
      PROVE  CInv'
  BY <1>4, TakeCInv
<1>5. CASE WaitEnds \/ TimeOut \/ DropEnds \/ Tick
  BY <1>5, WaitCInv
<1>6. CASE UNCHANGED codes
  BY <1>6 DEF codes, CInv, CodesTypeOK, Held, Fetched, FutureAwaitsAnswer
<1> QED
  BY <1>1, <1>2, <1>3, <1>4, <1>5, <1>6 DEF CodesNext, Receive

LEMMA AlwaysCInv == CodesSteps => []CInv
BY InitCInv, NextCInv, PTL DEF CodesSteps

(* The receive hook and the one running fetch are never shared.            *)
THEOREM CodesTyped == CodesSteps => []CodesTypeOK
<1>1. CInv => CodesTypeOK
  BY DEF CInv
<1> QED
  BY <1>1, AlwaysCInv, PTL

(* A future is in the map exactly while its answer is still to come.       *)
THEOREM FuturesAwaitAnswers == CodesSteps => []FutureAwaitsAnswer
<1>1. CInv => FutureAwaitsAnswer
  BY DEF CInv
<1> QED
  BY <1>1, AlwaysCInv, PTL

(* A step that gives Steam a plain answer to a managed request follows a   *)
(* failed fetch or a full wait.                                            *)
LEMMA PlainStep ==
  ASSUME CInv, [CodesNext]_codes, NEW j \in Managed,
         got'[j] = "plain", got[j] = "nothing"
  PROVE  fetch[j] = "failed" \/ (job = j /\ waited >= kMaxWaitSeconds)
<1> USE DEF CInv
<1>0. j \in CodeJobs
  BY CodesAssumption
<1>1. ~ (got' = got)
  OBVIOUS
<1>2. ASSUME NEW k \in CodeJobs, PassThrough(k)
      PROVE  FALSE
  <2>1. k = j
    BY <1>2, <1>0 DEF PassThrough, HandOver, CodesTypeOK
  <2>2. phase = "idle" /\ job = Nobody /\ j \in asked /\ j \notin futures
    BY <1>2, <2>1 DEF PassThrough, Arrives, CodesTypeOK
  <2> QED
    BY <2>2, <1>0, CodesAssumption DEF FutureAwaitsAnswer
<1>3. CASE WaitEnds
  <2>1. got' = [got EXCEPT ![job] = IF fetch[job] = "code" THEN "patched" ELSE "plain"]
    BY <1>3 DEF WaitEnds, HandOver
  <2>2. job = j
    BY <2>1, <1>0 DEF CodesTypeOK
  <2>3. fetch[j] # "code"
    BY <2>1, <2>2, <1>0 DEF CodesTypeOK
  <2> QED
    BY <1>3, <2>2, <2>3 DEF WaitEnds, Finished
<1>4. CASE DropEnds
  <2>1. got' = [got EXCEPT ![job] = "plain"] /\ phase = "drop"
    BY <1>4 DEF DropEnds, HandOver
  <2>2. job = j
    BY <2>1, <1>0 DEF CodesTypeOK
  <2> QED
    BY <2>1, <2>2 DEF Held
<1> QED
  BY <1>1, <1>2, <1>3, <1>4
  DEF CodesNext, Receive, codes, HandleSend, FetchBegins, FetchEnds, Take, TimeOut, Tick

(* A code that is there in time is used.                                   *)
THEOREM CodesInTimeAreUsed == CodesSteps => CodesAreUsed
<1>1. CInv /\ [CodesNext]_codes => [FutureAwaitsAnswer /\ UsedInTime]_codes
  <2> SUFFICES ASSUME CInv, [CodesNext]_codes, codes' # codes
      PROVE  FutureAwaitsAnswer /\ UsedInTime
    BY DEF codes
  <2>1. CodesNext
    OBVIOUS
  <2>2. FutureAwaitsAnswer
    BY DEF CInv
  <2> QED
    BY <2>1, <2>2, PlainStep DEF UsedInTime, codes
<1> QED
  BY <1>1, AlwaysCInv, PTL DEF CodesSteps, CodesAreUsed

----------------------------------------------------------------------------
(* The composed hooks: every step of theirs is a step of LocalAnswers or   *)
(* leaves it alone, and the same of ManifestCodes.                         *)
LEMMA StepIsBoth ==
  [HooksNext]_hooks => [AnswersNext]_answers /\ [CodesNext]_codes
<1> SUFFICES ASSUME [HooksNext]_hooks
             PROVE  [AnswersNext]_answers /\ [CodesNext]_codes
  OBVIOUS
<1>1. CASE SendFrame \/ FilesChange
  BY <1>1 DEF SendFrame, FilesChange, AnswersNext, CodesNext
<1>2. ASSUME NEW j \in CodeJobs, Fetch(j)
      PROVE  [AnswersNext]_answers /\ [CodesNext]_codes
  BY <1>2 DEF Fetch, CodesNext
<1>3. ASSUME NEW j \in CodeJobs, CodeAnswer(j)
      PROVE  [AnswersNext]_answers /\ [CodesNext]_codes
  BY <1>3 DEF CodeAnswer, AnswersNext, Drain, Queues, CodesNext, Receive
<1>4. CASE Packet \/ Carry \/ OtherPacket
  BY <1>4 DEF Packet, Carry, OtherPacket, AnswersNext, Drain, Queues
<1>5. CASE HeldUp \/ (Tick /\ UNCHANGED answers)
  BY <1>5 DEF HeldUp, CodesNext, Receive
<1>6. CASE UNCHANGED hooks
  BY <1>6 DEF hooks
<1> QED
  BY <1>1, <1>2, <1>3, <1>4, <1>5, <1>6 DEF HooksNext

(* Both features' steps, whatever the hooks interleave.                    *)
LEMMA HooksAreBoth == HooksSteps => AnswersSteps /\ CodesSteps
<1>1. HooksInit => AnswersInit /\ CodesInit
  BY DEF HooksInit
<1> QED
  BY <1>1, StepIsBoth, PTL DEF HooksSteps, AnswersSteps, CodesSteps

(* With fetches holding up the receive thread and replies queued meanwhile *)
(* a request still has one answerer at most, a queue its limit and the     *)
(* replies their order.                                                    *)
THEOREM HooksAnswerOnce ==
  HooksSpec => [](AnswersTypeOK /\ OneAnswerer /\ AnsweredOnceInOrder)
BY HooksAreBoth, AnswersTyped, OneAnswererAlways, RepliesKeepTheOrder, PTL
   DEF HooksSpec

(* The futures are those of the answers still to come, one wait and one    *)
(* fetch at a time, also with replies drained between the packets.         *)
THEOREM HooksKeepFutures == HooksSpec => [](CodesTypeOK /\ FutureAwaitsAnswer)
BY HooksAreBoth, CodesTyped, FuturesAwaitAnswers, PTL DEF HooksSpec

(* A code that is there in time is used, for its own request only, in the  *)
(* composed hooks.                                                         *)
THEOREM HooksUseCodes == HooksSpec => CodesAreUsed
BY HooksAreBoth, CodesInTimeAreUsed, PTL DEF HooksSpec

-----------------------------------------------------------------------------

(* Statistics asked for on a donor's account.  The inductive invariant     *)
(* ties what the module remembers of a query to the query: a job is used   *)
(* by one query, and it is remembered exactly for the player queries that  *)
(* went out on a donor's account, with their own app.                      *)
Queries == [job : StatJobs, app : StatApps, by : {"player", "client"}, donor : BOOLEAN]

WireTypes ==
  /\ {"depots", "jobs", "asked", "used", "last", "product"} \subseteq DOMAIN wire
  /\ wire.asked \subseteq Queries
  /\ wire.jobs \subseteq StatJobs \X StatApps

JobsAreSpent ==
  /\ \A q \in wire.asked : q.job \in wire.used
  /\ \A j \in wire.jobs : j[1] \in wire.used
  /\ \A p, q \in wire.asked : p.job = q.job => p = q

DonorsAreRemembered == \A q \in wire.asked :
  /\ q.by = "player" /\ q.donor => <<q.job, q.app>> \in wire.jobs
  /\ \A j \in wire.jobs : j[1] = q.job => q.by = "player" /\ q.donor /\ j[2] = q.app

WireInv == WireTypes /\ JobsAreSpent /\ DonorsAreRemembered /\ OnlyDonorsAreStruck

LEMMA InitWireInv == WireInit => WireInv
BY DEF WireInit, WireInv, WireTypes, JobsAreSpent, DonorsAreRemembered, OnlyDonorsAreStruck,
       NoAnswer

(* Steps that ask nothing and answer nothing.                              *)
LEMMA NothingAnswered ==
  ASSUME WireInv, DOMAIN wire' = DOMAIN wire, wire'.asked \subseteq wire.asked,
         wire'.jobs = wire.jobs, wire'.used = wire.used, wire'.last = NoAnswer
  PROVE  WireInv'
<1>1. wire'.last.by # "player"
  BY DEF NoAnswer
<1> QED
  BY <1>1 DEF WireInv, WireTypes, JobsAreSpent, DonorsAreRemembered, OnlyDonorsAreStruck

(* A query leaves on a job nobody used; it is remembered or it is not.     *)
LEMMA QueryAsked ==
  ASSUME WireInv, NEW id \in StatJobs \ wire.used, NEW app \in StatApps,
         NEW by \in {"player", "client"}, NEW donor \in BOOLEAN,
         DOMAIN wire' = DOMAIN wire,
         wire'.asked = wire.asked \cup {[job |-> id, app |-> app, by |-> by, donor |-> donor]},
         wire'.used = wire.used \cup {id}, wire'.last = NoAnswer,
         wire'.jobs = IF by = "player" /\ donor THEN wire.jobs \cup {<<id, app>>} ELSE wire.jobs
  PROVE  WireInv'
<1> DEFINE q == [job |-> id, app |-> app, by |-> by, donor |-> donor]
<1>1. q \in Queries /\ q.job = id /\ q.app = app /\ q.by = by /\ q.donor = donor
  BY DEF Queries
<1>2. wire'.asked = wire.asked \cup {q}
  OBVIOUS
<1> HIDE DEF q
<1>3. WireTypes'
  BY <1>1, <1>2 DEF WireInv, WireTypes
<1>4. JobsAreSpent'
  <2>1. \A p \in wire.asked : p.job # id
    BY DEF WireInv, JobsAreSpent
  <2>2. \A j \in wire'.jobs : j[1] \in wire'.used
    BY DEF WireInv, JobsAreSpent
  <2> QED
    BY <1>1, <1>2, <2>1, <2>2 DEF WireInv, JobsAreSpent
<1>5. DonorsAreRemembered'
  <2>1. ASSUME NEW p \in wire.asked
        PROVE  /\ p.by = "player" /\ p.donor => <<p.job, p.app>> \in wire'.jobs
               /\ \A j \in wire'.jobs : j[1] = p.job => p.by = "player" /\ p.donor /\ j[2] = p.app
    <3>1. p.job # id
      BY DEF WireInv, JobsAreSpent
    <3> QED
      BY <3>1 DEF WireInv, DonorsAreRemembered
  <2>2. /\ by = "player" /\ donor => <<id, app>> \in wire'.jobs
        /\ \A j \in wire'.jobs : j[1] = id => by = "player" /\ donor /\ j[2] = app
    <3>1. \A j \in wire.jobs : j[1] # id
      BY DEF WireInv, JobsAreSpent
    <3> QED
      BY <3>1
  <2>3. ASSUME NEW p \in wire'.asked
        PROVE  /\ p.by = "player" /\ p.donor => <<p.job, p.app>> \in wire'.jobs
               /\ \A j \in wire'.jobs : j[1] = p.job => p.by = "player" /\ p.donor /\ j[2] = p.app
    <3>1. CASE p \in wire.asked
      BY <2>1, <3>1
    <3>2. CASE p = q
      BY <1>1, <2>2, <3>2
    <3> QED
      BY <1>2, <3>1, <3>2
  <2> QED
    BY <2>3 DEF DonorsAreRemembered
<1>6. OnlyDonorsAreStruck'
  BY DEF OnlyDonorsAreStruck, NoAnswer
<1> QED
  BY <1>3, <1>4, <1>5, <1>6 DEF WireInv

LEMMA QueryAnswered ==
  ASSUME WireInv, NEW q \in wire.asked, RecvPlayer(q) \/ RecvClient(q)
  PROVE  WireInv'
<1>1. PICK struck : /\ wire' = Answered(q, struck)
                    /\ q.by = "player" => struck = Struck(q)
  BY DEF RecvPlayer, RecvClient, WireInv, WireTypes, Queries
<1>2. /\ DOMAIN wire' = DOMAIN wire /\ wire'.asked = wire.asked \ {q}
      /\ wire'.jobs = {j \in wire.jobs : j[1] # q.job}
      /\ wire'.used = wire.used /\ wire'.depots = wire.depots
      /\ wire'.last = [app |-> q.app, by |-> q.by, donor |-> q.donor, struck |-> struck]
  BY <1>1 DEF Answered, WireInv, WireTypes
<1>3. WireTypes'
  BY <1>2 DEF WireInv, WireTypes
<1>4. JobsAreSpent'
  BY <1>2 DEF WireInv, JobsAreSpent
<1>5. DonorsAreRemembered'
  <2>1. ASSUME NEW p \in wire'.asked
        PROVE  /\ p.by = "player" /\ p.donor => <<p.job, p.app>> \in wire'.jobs
               /\ \A j \in wire'.jobs : j[1] = p.job => p.by = "player" /\ p.donor /\ j[2] = p.app
    <3>1. p \in wire.asked /\ p.job # q.job
      BY <1>2 DEF WireInv, JobsAreSpent
    <3> QED
      BY <1>2, <3>1 DEF WireInv, DonorsAreRemembered
  <2> QED
    BY <2>1 DEF DonorsAreRemembered
<1>6. OnlyDonorsAreStruck'
  <2> SUFFICES ASSUME q.by = "player"
               PROVE  /\ struck => q.donor
                      /\ q.donor /\ ~struck => q.app \notin wire.depots
    BY <1>2 DEF OnlyDonorsAreStruck
  <2>1. struck = Struck(q)
    BY <1>1
  <2>2. Struck(q) => q.donor
    BY DEF Struck, WireInv, DonorsAreRemembered
  <2>3. q.donor /\ q.app \in wire.depots => Struck(q)
    BY DEF Struck, WireInv, DonorsAreRemembered
  <2> QED
    BY <2>1, <2>2, <2>3
<1> QED
  BY <1>3, <1>4, <1>5, <1>6 DEF WireInv

LEMMA NextWireInv == WireInv /\ [WireNext]_wire => WireInv'
<1> SUFFICES ASSUME WireInv, [WireNext]_wire PROVE WireInv'
  OBVIOUS
<1>1. ASSUME NEW app \in StatApps, Reconfigure(app) PROVE WireInv'
  BY <1>1, NothingAnswered DEF Reconfigure, WireInv, WireTypes
<1>2. ASSUME NEW app \in StatApps, NEW id \in StatJobs, AskClient(id, app) PROVE WireInv'
  <2> DEFINE donor == app \in wire.depots
  <2>1. wire' = Asked(id, app, "client", donor) /\ id \notin wire.used /\ donor \in BOOLEAN
    BY <1>2 DEF AskClient
  <2> HIDE DEF donor
  <2>2. /\ DOMAIN wire' = DOMAIN wire /\ wire'.last = NoAnswer /\ wire'.jobs = wire.jobs
        /\ wire'.used = wire.used \cup {id}
        /\ wire'.asked = wire.asked \cup
                           {[job |-> id, app |-> app, by |-> "client", donor |-> donor]}
    BY <2>1 DEF Asked, WireInv, WireTypes
  <2> QED
    BY <2>1, <2>2, QueryAsked
<1>3. ASSUME NEW app \in StatApps, NEW id \in StatJobs, NEW s \in BOOLEAN,
             AskPlayer(id, app, s)
      PROVE  WireInv'
  <2> DEFINE donor == ~s /\ app \in wire.depots
             asking == wire.asked \cup {[job |-> id, app |-> app, by |-> "player", donor |-> donor]}
             spent == wire.used \cup {id}
  <2>1. id \notin wire.used /\ donor \in BOOLEAN
    BY <1>3 DEF AskPlayer
  <2>2. wire' = IF donor
                THEN [[wire EXCEPT !.asked = asking, !.used = spent, !.last = NoAnswer]
                        EXCEPT !.jobs = wire.jobs \cup {<<id, app>>}]
                ELSE [wire EXCEPT !.asked = asking, !.used = spent, !.last = NoAnswer]
    BY <1>3 DEF AskPlayer, Asked, WireInv, WireTypes
  <2>3. /\ asking = wire.asked \cup {[job |-> id, app |-> app, by |-> "player", donor |-> donor]}
        /\ spent = wire.used \cup {id}
    OBVIOUS
  <2> HIDE DEF donor, asking, spent
  <2>4. /\ DOMAIN wire' = DOMAIN wire /\ wire'.last = NoAnswer
        /\ wire'.jobs = IF donor THEN wire.jobs \cup {<<id, app>>} ELSE wire.jobs
        /\ wire'.used = spent /\ wire'.asked = asking
    BY <2>2 DEF WireInv, WireTypes
  <2> QED
    BY <2>1, <2>3, <2>4, QueryAsked
<1>4. CASE AskProducts
  BY <1>4, NothingAnswered DEF AskProducts, WireInv, WireTypes
<1>5. ASSUME NEW q \in wire.asked, Lose(q) PROVE WireInv'
  BY <1>5, NothingAnswered DEF Lose, WireInv, WireTypes
<1>6. CASE UNCHANGED wire
  BY <1>6 DEF WireInv, WireTypes, JobsAreSpent, DonorsAreRemembered, OnlyDonorsAreStruck
<1> QED
  BY <1>1, <1>2, <1>3, <1>4, <1>5, <1>6, QueryAnswered DEF WireNext

(* A player's own progress is never struck from an answer, and a donor's   *)
(* gets through only when its app was taken away meanwhile, for any apps   *)
(* and jobs, however queries overlap or are lost (Hooks_NetPacket's        *)
(* statistics handlers).                                                   *)
THEOREM OwnProgressStays ==
  WireInit /\ [][WireNext]_wire => []OnlyDonorsAreStruck
<1>1. WireInv => OnlyDonorsAreStruck
  BY DEF WireInv
<1> QED
  BY InitWireInv, NextWireInv, <1>1, PTL

-----------------------------------------------------------------------------

(* The numbers ten digits hold.                                            *)
Numbers == {n \in Nat : n < 1073741824}

(* What is left of a number when its lowest digits are written.            *)
IsLeft(left, n) ==
  /\ left \in [0 .. MaxVarint -> Nat] /\ left[0] = n
  /\ \A i \in 1 .. MaxVarint : left[i] = left[i - 1] \div Base

(* Its digits, k of them.                                                  *)
HasDigits(n, left, k) ==
  /\ IsLeft(left, n) /\ k \in 1 .. MaxVarint /\ left[k] = 0
  /\ \A i \in 1 .. k - 1 : left[i] # 0
  /\ Varint(n) = [i \in 1 .. k |-> Byte(left[i - 1] % Base, i < k)]

(* One digit after the other.                                              *)
LEMMA Halved ==
  ASSUME NEW n \in Nat
  PROVE  /\ n \div Base \in Nat /\ n % Base \in 0 .. Base - 1
         /\ n = (n % Base) + Base * (n \div Base)
         /\ \A m \in Nat : n < 8 * m => n \div Base < m
BY DEF Base

(* What is left of a number, digit after digit.                            *)
LEMMA LeftExists ==
  ASSUME NEW n \in Nat
  PROVE  \E left : IsLeft(left, n)
<1> DEFINE step == [p \in (1 .. MaxVarint) \X Nat |-> p[2] \div Base]
<1>1. MaxVarint \in Nat
  BY DEF MaxVarint
<1>2. step \in [(1 .. MaxVarint) \X Nat -> Nat]
  <2>1. ASSUME NEW p \in (1 .. MaxVarint) \X Nat PROVE p[2] \div Base \in Nat
    BY Halved
  <2> QED
    BY <2>1
<1>3. \A i \in 1 .. MaxVarint, m \in Nat : step[<<i, m>>] = m \div Base
  OBVIOUS
<1> HIDE DEF step
<1>4. PICK run : IsRun(run, Nat, n, MaxVarint, step)
  BY <1>1, <1>2, RunExists
<1>5. \A i \in 1 .. MaxVarint : i - 1 \in 0 .. MaxVarint
  BY <1>1
<1> QED
  BY <1>3, <1>4, <1>5 DEF IsRun, IsLeft

(* Ten digits are enough.                                                  *)
LEMMA LeftEnds ==
  ASSUME NEW n \in Numbers, NEW left, IsLeft(left, n)
  PROVE  left[MaxVarint] = 0
<1>1. \A i \in 1 .. 10 : left[i] = left[i - 1] \div Base /\ left[i] \in Nat /\ left[i - 1] \in Nat
  BY DEF IsLeft, MaxVarint
<1>2. \A i \in 1 .. 10, m \in Nat : left[i - 1] < 8 * m => left[i] < m
  BY <1>1, Halved
<1>3. left[0] < 8 * 134217728
  BY SMT DEF IsLeft, Numbers
<1>4. left[1] < 8 * 16777216
  BY <1>2, <1>3, SMT
<1>5. left[2] < 8 * 2097152
  BY <1>2, <1>4, SMT
<1>6. left[3] < 8 * 262144
  BY <1>2, <1>5, SMT
<1>7. left[4] < 8 * 32768
  BY <1>2, <1>6, SMT
<1>8. left[5] < 8 * 4096
  BY <1>2, <1>7, SMT
<1>9. left[6] < 8 * 512
  BY <1>2, <1>8, SMT
<1>10. left[7] < 8 * 64
  BY <1>2, <1>9, SMT
<1>11. left[8] < 8 * 8
  BY <1>2, <1>10, SMT
<1>12. left[9] < 8 * 1
  BY <1>2, <1>11, SMT
<1>13. left[10] < 1
  BY <1>2, <1>12, SMT
<1> QED
  BY <1>1, <1>13, SMT DEF MaxVarint

(* Varint writes the digits of a number.                                   *)
LEMMA VarintDigits ==
  ASSUME NEW n \in Numbers
  PROVE  \E left, k : HasDigits(n, left, k)
<1> DEFINE Is(f) == f = [i \in 0 .. MaxVarint |-> IF i = 0 THEN n ELSE f[i - 1] \div Base]
           left == CHOOSE f : Is(f)
           Ends(k) == left[k] = 0 /\ (k > 1 => left[k - 1] # 0)
           length == CHOOSE k \in 1 .. MaxVarint : Ends(k)
<1>1. n \in Nat
  BY SMT DEF Numbers
<1>2. PICK run : IsLeft(run, n)
  BY <1>1, LeftExists
<1>3. Is(run)
  <2>1. run = [i \in 0 .. MaxVarint |-> run[i]]
    BY <1>2 DEF IsLeft
  <2>2. \A i \in 0 .. MaxVarint : run[i] = IF i = 0 THEN n ELSE run[i - 1] \div Base
    BY <1>2 DEF IsLeft, MaxVarint
  <2> QED
    BY <2>1, <2>2
<1>4. Is(left)
  <2> HIDE DEF Is
  <2> QED
    BY <1>3
<1>5. Varint(n) = [i \in 1 .. length |-> Byte(left[i - 1] % Base, i < length)]
  BY DEF Varint
<1> HIDE DEF left
<1>6. left = run
  <2>1. left[0] = n /\ \A i \in 1 .. MaxVarint : left[i] = left[i - 1] \div Base
    BY <1>4 DEF MaxVarint
  <2>2. DOMAIN left = 0 .. MaxVarint
    BY <1>4
  <2> DEFINE Same == {i \in 0 .. MaxVarint : left[i] = run[i]}
  <2>3. 0 \in Same
    BY <1>2, <2>1 DEF IsLeft, MaxVarint
  <2>4. ASSUME NEW i \in 0 .. MaxVarint - 1, i \in Same PROVE i + 1 \in Same
    <3>1. i + 1 \in 1 .. MaxVarint /\ i + 1 \in 0 .. MaxVarint /\ (i + 1) - 1 = i
      BY DEF MaxVarint
    <3>2. left[i + 1] = left[i] \div Base /\ run[i + 1] = run[i] \div Base
      BY <1>2, <2>1, <3>1 DEF IsLeft
    <3> QED
      BY <2>4, <3>1, <3>2
  <2> HIDE DEF Same
  <2>5. MaxVarint \in Nat
    BY DEF MaxVarint
  <2>6. \A i \in 0 .. MaxVarint : i \in Same
    BY <2>3, <2>4, <2>5, Upward
  <2>7. \A i \in 0 .. MaxVarint : left[i] = run[i]
    BY <2>6 DEF Same
  <2>8. left = [i \in 0 .. MaxVarint |-> left[i]] /\ run = [i \in 0 .. MaxVarint |-> run[i]]
    BY <1>2, <1>4 DEF IsLeft
  <2> QED
    BY <2>7, <2>8
<1> HIDE DEF Is
<1>7. IsLeft(left, n)
  BY <1>2, <1>6
<1>8. length \in 1 .. MaxVarint /\ Ends(length)
  <2> DEFINE S == {k \in 1 .. MaxVarint : left[k] = 0}
  <2>1. S \in SUBSET Nat /\ MaxVarint \in S
    BY <1>7, LeftEnds DEF MaxVarint
  <2>2. PICK k \in S : \A j \in S : k <= j
    <3> HIDE DEF S
    <3> QED
      BY <2>1, SmallestExists
  <2>3. Ends(k)
    <3>1. k > 1 => k - 1 \in 1 .. MaxVarint /\ ~ (k <= k - 1)
      BY <2>2 DEF MaxVarint
    <3> QED
      BY <2>2, <3>1
  <2> HIDE DEF Ends
  <2> QED
    BY <2>2, <2>3
<1>9. \A i \in 1 .. length - 1 : left[i] # 0
  <2> HIDE DEF length
  <2> DEFINE S == {i \in 1 .. length - 1 : left[i] = 0}
  <2> SUFFICES ASSUME S # {} PROVE FALSE
    OBVIOUS
  <2>1. S \in SUBSET (0 .. length) /\ length \in Nat
    BY <1>8 DEF MaxVarint
  <2>2. PICK i \in S : \A j \in S : j <= i
    <3> HIDE DEF S
    <3> QED
      BY <2>1, LargestExists
  <2>3. i # length - 1
    BY <1>8, <2>1, <2>2
  <2>4. i + 1 \in 1 .. length - 1 /\ i + 1 \in 1 .. MaxVarint /\ (i + 1) - 1 = i /\ ~ (i + 1 <= i)
    BY <1>8, <2>1, <2>2, <2>3 DEF MaxVarint
  <2>5. left[i + 1] = left[i] \div Base
    BY <1>7, <2>4 DEF IsLeft
  <2>6. left[i + 1] = 0
    BY <2>2, <2>5 DEF Base
  <2> QED
    BY <2>2, <2>4, <2>6
<1>10. left[length] = 0 /\ length \in 1 .. MaxVarint
  BY <1>8
<1> HIDE DEF length
<1>11. HasDigits(n, left, length)
  BY <1>5, <1>7, <1>9, <1>10 DEF HasDigits
<1> QED
  BY <1>11

(* What ReadVarint makes of the byte at i, given what it makes of the next.*)
ValueAt(d, i, value) ==
  Digit(d[i]) + IF More(d[i]) /\ i < Len(d) THEN Base * value[i + 1] ELSE 0

IsValue(value, d) ==
  value \in [1 .. Len(d) -> Nat] /\ \A i \in 1 .. Len(d) : value[i] = ValueAt(d, i, value)

(* Where a number that begins at pos may end.                              *)
EndsFrom(d, pos) == {k \in pos .. Len(d) : ~More(d[k]) /\ \A i \in pos .. k - 1 : More(d[i])}

ReadWith(d, pos, value) ==
  IF EndsFrom(d, pos) = {} \/ \E k \in EndsFrom(d, pos) : k - pos >= MaxVarint
  THEN [ok |-> FALSE, value |-> NotFound, next |-> pos]
  ELSE [ok |-> TRUE, value |-> value[pos], next |-> (CHOOSE k \in EndsFrom(d, pos) : TRUE) + 1]

(* There is one value for each place.                                      *)
LEMMA ValueExists ==
  ASSUME NEW d \in Seq(Nat)
  PROVE  \E value : IsValue(value, d)
<1> DEFINE last == Len(d)
           Maps == [1 .. last -> Nat]
           step == [p \in (1 .. last) \X Maps |-> ValueAt(d, p[1], p[2])]
<1>1. last \in Nat /\ last = Len(d) /\ \A i \in 1 .. last : d[i] \in Nat
  OBVIOUS
<1> HIDE DEF last
<1>2. ASSUME NEW i \in 1 .. last, NEW v \in Maps PROVE ValueAt(d, i, v) \in Nat
  <2>1. Digit(d[i]) \in Nat
    BY <1>1 DEF Digit, Base
  <2>2. i < Len(d) => v[i + 1] \in Nat
    BY <1>1
  <2>3. i < Len(d) => Base * v[i + 1] \in Nat
    BY <2>2 DEF Base
  <2> HIDE DEF Maps
  <2>4. CASE More(d[i]) /\ i < Len(d)
    BY <2>1, <2>3, <2>4 DEF ValueAt
  <2>5. CASE ~ (More(d[i]) /\ i < Len(d))
    BY <2>1, <2>5 DEF ValueAt
  <2> QED
    BY <2>4, <2>5
<1>3. ASSUME NEW i \in 1 .. last, NEW v, NEW w, \A j \in i + 1 .. last : v[j] = w[j]
      PROVE  ValueAt(d, i, v) = ValueAt(d, i, w)
  <2>1. i < Len(d) => v[i + 1] = w[i + 1]
    BY <1>1, <1>3, SMTT(30)
  <2> QED
    BY <2>1 DEF ValueAt
<1>4. step \in [(1 .. last) \X Maps -> Nat]
  <2>1. ASSUME NEW p \in (1 .. last) \X Maps PROVE ValueAt(d, p[1], p[2]) \in Nat
    <3>1. p[1] \in 1 .. last /\ p[2] \in Maps
      OBVIOUS
    <3> QED
      BY <1>2, <3>1
  <2> QED
    BY <2>1
<1>5. \A i \in 1 .. last, v \in Maps : step[<<i, v>>] = ValueAt(d, i, v)
  OBVIOUS
<1> HIDE DEF step
<1>6. ASSUME NEW i \in 1 .. last, NEW v \in Maps, NEW w \in Maps,
             \A j \in i + 1 .. last : v[j] = w[j]
      PROVE  step[<<i, v>>] = step[<<i, w>>]
  BY <1>3, <1>5, <1>6, ZenonT(30)
<1>7. PICK f : IsTail(f, Nat, last, step)
  BY <1>1, <1>4, <1>6, TailExists
<1> QED
  BY <1>1, <1>5, <1>7 DEF IsTail, IsValue

(* ReadVarint reads those values.                                          *)
LEMMA ReadsWith ==
  ASSUME NEW d \in Seq(Nat)
  PROVE  \E value : IsValue(value, d) /\ \A pos \in Nat : ReadVarint(d, pos) = ReadWith(d, pos, value)
<1> DEFINE Is(f) == f = [i \in 1 .. Len(d) |-> ValueAt(d, i, f)]
           value == CHOOSE f : Is(f)
<1>1. PICK f : IsValue(f, d)
  BY ValueExists
<1>2. Is(f)
  <2>1. f = [i \in 1 .. Len(d) |-> f[i]]
    BY <1>1 DEF IsValue
  <2> QED
    BY <1>1, <2>1 DEF IsValue
<1>3. Is(value)
  <2> HIDE DEF Is
  <2> QED
    BY <1>2
<1>4. \A pos \in Nat : ReadVarint(d, pos) = ReadWith(d, pos, value)
  BY DEF ReadVarint, ReadWith, EndsFrom, ValueAt
<1> HIDE DEF value
<1>5. value = f
  <2>1. /\ DOMAIN value = 1 .. Len(d) /\ DOMAIN f = 1 .. Len(d)
        /\ \A i \in 1 .. Len(d) : value[i] = ValueAt(d, i, value) /\ f[i] = ValueAt(d, i, f)
    BY <1>2, <1>3
  <2> DEFINE Same == {i \in 1 .. Len(d) : value[i] = f[i]}
  <2>2. ASSUME NEW i \in 1 .. Len(d), \A j \in i + 1 .. Len(d) : j \in Same PROVE i \in Same
    <3>1. i < Len(d) => value[i + 1] = f[i + 1]
      BY <2>2
    <3>2. ValueAt(d, i, value) = ValueAt(d, i, f)
      BY <3>1 DEF ValueAt
    <3> QED
      BY <2>1, <3>2
  <2>3. \A i \in 1 .. Len(d) : i \in Same
    <3> HIDE DEF Same
    <3>1. Len(d) \in Nat
      OBVIOUS
    <3> QED
      BY <2>2, <3>1, Downward
  <2>4. value = [i \in 1 .. Len(d) |-> value[i]] /\ f = [i \in 1 .. Len(d) |-> f[i]]
    <3>1. value = [i \in 1 .. Len(d) |-> ValueAt(d, i, value)] /\ f = [i \in 1 .. Len(d) |-> ValueAt(d, i, f)]
      BY <1>2, <1>3
    <3> QED
      BY <2>1, <3>1
  <2> QED
    BY <2>3, <2>4
<1> QED
  BY <1>1, <1>4, <1>5

(* A number read is one, and the place after it is further on.             *)
LEMMA ReadTyped ==
  ASSUME NEW d \in Seq(Nat), NEW pos \in Nat \ {0}
  PROVE  /\ ReadVarint(d, pos).ok => /\ ReadVarint(d, pos).value \in Nat
                                     /\ ReadVarint(d, pos).next \in pos + 1 .. Len(d) + 1
         /\ ~ReadVarint(d, pos).ok => ReadVarint(d, pos).value = NotFound
<1>1. PICK value : IsValue(value, d) /\ \A p \in Nat : ReadVarint(d, p) = ReadWith(d, p, value)
  BY ReadsWith
<1>2. ReadVarint(d, pos) = ReadWith(d, pos, value)
  BY <1>1
<1>3. CASE EndsFrom(d, pos) = {} \/ \E k \in EndsFrom(d, pos) : k - pos >= MaxVarint
  BY <1>2, <1>3 DEF ReadWith
<1>4. CASE ~ (EndsFrom(d, pos) = {} \/ \E k \in EndsFrom(d, pos) : k - pos >= MaxVarint)
  <2> DEFINE end == CHOOSE k \in EndsFrom(d, pos) : TRUE
  <2>1. end \in EndsFrom(d, pos)
    BY <1>4
  <2>2. ReadVarint(d, pos) = [ok |-> TRUE, value |-> value[pos], next |-> end + 1]
    BY <1>2, <1>4 DEF ReadWith
  <2> HIDE DEF end
  <2>3. end \in pos .. Len(d) /\ Len(d) \in Nat
    BY <2>1 DEF EndsFrom
  <2>4. pos \in 1 .. Len(d) /\ end + 1 \in pos + 1 .. Len(d) + 1
    BY <2>3
  <2>5. value[pos] \in Nat
    BY <1>1, <2>4 DEF IsValue
  <2> QED
    BY <2>2, <2>4, <2>5
<1> QED
  BY <1>3, <1>4

(* The bytes of a number.                                                  *)
LEMMA VarintBytes ==
  ASSUME NEW n, NEW left, NEW size, HasDigits(n, left, size)
  PROVE  /\ Varint(n) \in Seq(Nat) /\ Len(Varint(n)) = size /\ size \in 1 .. MaxVarint
         /\ \A i \in 1 .. size : /\ Digit(Varint(n)[i]) = left[i - 1] % Base
                                 /\ More(Varint(n)[i]) <=> i < size
<1>1. size \in 1 .. MaxVarint /\ Varint(n) = [i \in 1 .. size |-> Byte(left[i - 1] % Base, i < size)]
  BY DEF HasDigits
<1>2. ASSUME NEW i \in 1 .. size
      PROVE  /\ Byte(left[i - 1] % Base, i < size) \in Nat
             /\ Digit(Byte(left[i - 1] % Base, i < size)) = left[i - 1] % Base
             /\ More(Byte(left[i - 1] % Base, i < size)) <=> i < size
  <2>1. i - 1 \in 0 .. MaxVarint
    BY <1>1 DEF MaxVarint
  <2>2. left[i - 1] \in Nat
    BY <2>1 DEF HasDigits, IsLeft
  <2> DEFINE x == left[i - 1] % Base
  <2>3. x \in 0 .. 7
    BY <2>2 DEF Base
  <2> HIDE DEF x
  <2>4. CASE i < size
    BY <2>3, <2>4 DEF Byte, Digit, More, Base, x
  <2>5. CASE ~ (i < size)
    BY <2>3, <2>5 DEF Byte, Digit, More, Base, x
  <2> QED
    BY <2>4, <2>5
<1>3. size \in Nat
  BY <1>1 DEF MaxVarint
<1>4. \A i \in 1 .. size : Varint(n)[i] = Byte(left[i - 1] % Base, i < size)
  BY <1>1
<1>5. Varint(n) \in Seq(Nat) /\ Len(Varint(n)) = size
  BY <1>1, <1>2, <1>3
<1> QED
  BY <1>1, <1>2, <1>4, <1>5

(* A number stands in d from pos on, or as much of it as d has room for.   *)
StandsAt(d, pos, n) ==
  \A i \in 1 .. Len(Varint(n)) : pos + i - 1 <= Len(d) => d[pos + i - 1] = Varint(n)[i]

(* It is read back, and the place after it is the next.                    *)
LEMMA VarintRead ==
  ASSUME NEW d \in Seq(Nat), NEW n \in Numbers, NEW pos \in Nat \ {0}, StandsAt(d, pos, n),
         pos + Len(Varint(n)) - 1 <= Len(d)
  PROVE  ReadVarint(d, pos) = [ok |-> TRUE, value |-> n, next |-> pos + Len(Varint(n))]
<1>1. PICK left, size : HasDigits(n, left, size)
  BY VarintDigits
<1>2. PICK value : IsValue(value, d) /\ \A p \in Nat : ReadVarint(d, p) = ReadWith(d, p, value)
  BY ReadsWith
<1>3. /\ Len(Varint(n)) = size /\ size \in 1 .. MaxVarint /\ Len(d) \in Nat
      /\ \A i \in 1 .. size : /\ Digit(Varint(n)[i]) = left[i - 1] % Base
                              /\ More(Varint(n)[i]) <=> i < size
  BY <1>1, VarintBytes
<1>4. \A i \in 1 .. size : pos + i - 1 \in 1 .. Len(d) /\ d[pos + i - 1] = Varint(n)[i]
  <2> TAKE i \in 1 .. size
  <2>1. pos + i - 1 \in 1 .. Len(d)
    BY <1>3 DEF MaxVarint
  <2> QED
    BY <1>3, <2>1 DEF StandsAt
<1>5. \A i \in 1 .. size : /\ Digit(d[pos + i - 1]) = left[i - 1] % Base
                           /\ More(d[pos + i - 1]) <=> i < size
  BY <1>3, <1>4
<1>6. EndsFrom(d, pos) = {pos + size - 1}
  <2>1. size \in 1 .. size /\ pos + size - 1 \in pos .. Len(d)
    BY <1>3 DEF MaxVarint
  <2>2. ~More(d[pos + size - 1])
    BY <1>5, <2>1
  <2>3. ASSUME NEW j \in pos .. pos + size - 1 - 1 PROVE More(d[j])
    <3>1. (j - pos) + 1 \in 1 .. size /\ (j - pos) + 1 < size /\ pos + ((j - pos) + 1) - 1 = j
      BY <1>3 DEF MaxVarint
    <3> QED
      BY <1>5, <3>1
  <2>4. ASSUME NEW k \in EndsFrom(d, pos) PROVE k = pos + size - 1
    <3>1. k \in pos .. Len(d) /\ ~More(d[k]) /\ \A i \in pos .. k - 1 : More(d[i])
      BY DEF EndsFrom
    <3>2. ~ (k < pos + size - 1)
      <4>1. k < pos + size - 1 => k \in pos .. pos + size - 1 - 1
        BY <1>3, <3>1 DEF MaxVarint
      <4> QED
        BY <2>3, <3>1, <4>1
    <3>3. ~ (k > pos + size - 1)
      <4>1. size \in Nat /\ size >= 1 /\ k \in Nat
        <5>1. size \in 1 .. 10
          BY <1>3 DEF MaxVarint
        <5> QED
          BY <3>1, <5>1
      <4>2. k > pos + size - 1 => pos + size - 1 \in pos .. k - 1
        BY <4>1
      <4> QED
        BY <2>2, <3>1, <4>2
    <3>4. size \in Nat /\ k \in Nat
      BY <1>3, <3>1 DEF MaxVarint
    <3> QED
      BY <3>2, <3>3, <3>4
  <2>5. pos + size - 1 \in EndsFrom(d, pos)
    BY <2>1, <2>2, <2>3 DEF EndsFrom
  <2> QED
    BY <2>4, <2>5
<1>7. ReadVarint(d, pos) = [ok |-> TRUE, value |-> value[pos], next |-> pos + size]
  <2>1. ReadVarint(d, pos) = ReadWith(d, pos, value)
    BY <1>2
  <2>2. ~ ((pos + size - 1) - pos >= MaxVarint) /\ (pos + size - 1) + 1 = pos + size
    BY <1>3 DEF MaxVarint
  <2>3. (CHOOSE k \in EndsFrom(d, pos) : TRUE) = pos + size - 1
    BY <1>6
  <2> QED
    BY <1>6, <2>1, <2>2, <2>3 DEF ReadWith
<1>8. \A i \in 1 .. size : value[pos + i - 1] = left[i - 1]
  <2> DEFINE Right == {i \in 1 .. size : value[pos + i - 1] = left[i - 1]}
  <2>1. ASSUME NEW i \in 1 .. size, \A j \in i + 1 .. size : j \in Right PROVE i \in Right
    <3>1. value[pos + i - 1] = ValueAt(d, pos + i - 1, value)
      BY <1>2, <1>4 DEF IsValue
    <3>2. i - 1 \in 0 .. MaxVarint /\ i \in 1 .. MaxVarint
      BY <1>3 DEF MaxVarint
    <3>3. left[i - 1] \in Nat /\ left[i] = left[i - 1] \div Base
      BY <1>1, <3>2 DEF HasDigits, IsLeft
    <3>4. left[i - 1] = (left[i - 1] % Base) + Base * left[i] /\ left[i - 1] % Base \in Nat
      <4> DEFINE x == left[i - 1]
      <4>1. x \in Nat /\ left[i] = x \div Base
        BY <3>3
      <4> HIDE DEF x
      <4>2. x = (x % Base) + Base * left[i] /\ x % Base \in Nat
        BY <4>1 DEF Base
      <4> QED
        BY <4>2 DEF x
    <3>5. CASE i = size
      <4>1. ~More(d[pos + i - 1])
        <5>1. ~ (i < size)
          BY <1>3, <3>5 DEF MaxVarint
        <5> QED
          BY <1>5, <5>1
      <4>2. left[i] = 0
        BY <1>1, <3>5 DEF HasDigits
      <4>3. Base * left[i] = 0
        BY <4>2 DEF Base
      <4>4. value[pos + i - 1] = (left[i - 1] % Base) + 0
        BY <1>5, <3>1, <4>1 DEF ValueAt
      <4> QED
        BY <3>4, <4>3, <4>4
    <3>6. CASE i # size
      <4>1. i + 1 \in i + 1 .. size /\ i < size /\ pos + i - 1 < Len(d)
            /\ (pos + i - 1) + 1 = pos + (i + 1) - 1 /\ (i + 1) - 1 = i
        <5>1. i \in Nat /\ size \in Nat /\ i < size
          BY <1>3, <3>6 DEF MaxVarint
        <5>2. i + 1 \in 1 .. size
          BY <5>1
        <5>3. pos + (i + 1) - 1 \in 1 .. Len(d)
          BY <1>4, <5>2
        <5> QED
          BY <1>3, <5>1, <5>3
      <4>2. value[(pos + i - 1) + 1] = left[i]
        BY <2>1, <4>1
      <4>3. value[pos + i - 1] = (left[i - 1] % Base) + Base * left[i]
        BY <1>5, <3>1, <4>1, <4>2 DEF ValueAt
      <4> QED
        BY <3>4, <4>3
    <3> QED
      BY <3>5, <3>6
  <2>2. size \in Nat
    BY <1>3 DEF MaxVarint
  <2> HIDE DEF Right
  <2>3. \A i \in 1 .. size : i \in Right
    BY <2>1, <2>2, Downward
  <2> QED
    BY <2>3 DEF Right
<1>9. value[pos] = n
  <2>1. 1 \in 1 .. size /\ pos + 1 - 1 = pos /\ 1 - 1 = 0
    BY <1>3 DEF MaxVarint
  <2>2. left[0] = n
    BY <1>1 DEF HasDigits, IsLeft
  <2> QED
    BY <1>8, <2>1, <2>2
<1> QED
  BY <1>3, <1>7, <1>9

(* One that was cut short is no number.                                    *)
LEMMA VarintCut ==
  ASSUME NEW d \in Seq(Nat), NEW n \in Numbers, NEW pos \in Nat \ {0}, StandsAt(d, pos, n),
         Len(d) < pos + Len(Varint(n)) - 1
  PROVE  ~ReadVarint(d, pos).ok /\ ReadVarint(d, pos).value = NotFound
<1>1. PICK left, size : HasDigits(n, left, size)
  BY VarintDigits
<1>2. PICK value : IsValue(value, d) /\ \A p \in Nat : ReadVarint(d, p) = ReadWith(d, p, value)
  BY ReadsWith
<1>3. /\ Len(Varint(n)) = size /\ size \in 1 .. MaxVarint /\ Len(d) \in Nat
      /\ \A i \in 1 .. size : More(Varint(n)[i]) <=> i < size
  BY <1>1, VarintBytes
<1>4. EndsFrom(d, pos) = {}
  <2> SUFFICES ASSUME NEW k \in EndsFrom(d, pos) PROVE FALSE
    OBVIOUS
  <2>1. k \in pos .. Len(d) /\ ~More(d[k])
    BY DEF EndsFrom
  <2>2. (k - pos) + 1 \in 1 .. size /\ (k - pos) + 1 < size /\ pos + ((k - pos) + 1) - 1 = k
    <3>1. Len(d) < pos + size - 1 /\ size \in Nat
      BY <1>3 DEF MaxVarint
    <3>2. k \in Nat /\ k <= Len(d) /\ pos <= k
      BY <2>1
    <3> QED
      BY <1>3, <3>1, <3>2
  <2>3. d[k] = Varint(n)[(k - pos) + 1]
    BY <1>3, <2>1, <2>2 DEF StandsAt
  <2> QED
    BY <1>3, <2>1, <2>2, <2>3
<1> QED
  BY <1>2, <1>4 DEF ReadWith

(* What FindVarintField makes of the field at pos, given what it makes of  *)
(* those after it.                                                         *)
FindAt(d, target, pos, find) ==
  IF pos > Len(d) THEN NotFound
  ELSE LET tag == ReadVarint(d, pos)
           field == tag.value \div Base
           wireType == tag.value % Base
           after == PastValue(d, tag.next, wireType)
       IN  IF ~tag.ok THEN NotFound
           ELSE IF field = target /\ wireType = 0 THEN ReadVarint(d, tag.next).value
           ELSE IF after > Len(d) + 1 THEN NotFound ELSE find[after]

Finds(find, d, target) ==
  /\ FindVarintField(d, target) = find[1]
  /\ \A pos \in 1 .. Len(d) + 2 : find[pos] = FindAt(d, target, pos, find)

(* Past a value is further on, or nowhere.                                 *)
LEMMA PastTyped ==
  ASSUME NEW d \in Seq(Nat), NEW pos \in 1 .. Len(d) + 1, NEW wireType
  PROVE  PastValue(d, pos, wireType) \in Nat /\ PastValue(d, pos, wireType) >= pos
<1> DEFINE v == ReadVarint(d, pos)
<1>1. pos \in Nat /\ Len(d) \in Nat /\ pos <= Len(d) + 1
  OBVIOUS
<1>2. v.ok => v.value \in Nat /\ v.next \in Nat /\ v.next > pos
  BY ReadTyped
<1> HIDE DEF v
<1>3. PastValue(d, pos, wireType) =
        CASE wireType = 0 -> IF v.ok THEN v.next ELSE Len(d) + 2
          [] wireType = 1 -> pos + 8
          [] wireType = 5 -> pos + 4
          [] wireType = 2 -> IF v.ok THEN v.next + v.value ELSE Len(d) + 2
          [] OTHER        -> Len(d) + 2
  BY DEF PastValue, v
<1>4. CASE wireType = 0
  BY <1>1, <1>2, <1>3, <1>4
<1>5. CASE wireType = 1
  BY <1>1, <1>3, <1>5
<1>6. CASE wireType = 5
  BY <1>1, <1>3, <1>6
<1>7. CASE wireType = 2
  BY <1>1, <1>2, <1>3, <1>7
<1>8. CASE wireType \notin {0, 1, 2, 5}
  BY <1>1, <1>3, <1>8
<1> QED
  BY <1>4, <1>5, <1>6, <1>7, <1>8

(* FindVarintField makes of each place what FindAt says.                   *)
LEMMA FieldsFound ==
  ASSUME NEW d \in Seq(Nat), NEW target
  PROVE  \E find : Finds(find, d, target)
<1> DEFINE last == Len(d) + 2
           Maps == [1 .. last -> Int]
           step == [p \in (1 .. last) \X Maps |-> FindAt(d, target, p[1], p[2])]
           Is(f) == f = [pos \in 1 .. last |-> FindAt(d, target, pos, f)]
           find == CHOOSE f : Is(f)
<1>1. last \in Nat /\ Len(d) \in Nat /\ last = Len(d) + 2 /\ NotFound \in Int
  BY DEF NotFound
<1>2. FindVarintField(d, target) = find[1]
  BY DEF FindVarintField, FindAt
<1> HIDE DEF last
<1>3. ASSUME NEW i \in 1 .. last
      PROVE  /\ \A f \in Maps : FindAt(d, target, i, f) \in Int
             /\ \A f, g : (\A j \in i + 1 .. last : f[j] = g[j]) =>
                            FindAt(d, target, i, f) = FindAt(d, target, i, g)
  <2> DEFINE tag == ReadVarint(d, i)
             wireType == tag.value % Base
             after == PastValue(d, tag.next, wireType)
             value == ReadVarint(d, tag.next).value
  <2>1. i \in Nat \ {0}
    OBVIOUS
  <2>2. tag.ok => tag.next \in i + 1 .. Len(d) + 1
    BY <2>1, ReadTyped
  <2>3. tag.ok => value \in Int
    <3>1. SUFFICES ASSUME tag.ok PROVE value \in Int
      OBVIOUS
    <3>2. tag.next \in Nat \ {0}
      BY <2>1, <2>2, <3>1
    <3> HIDE DEF tag
    <3>3. \/ ReadVarint(d, tag.next).ok /\ value \in Nat
          \/ value = NotFound
      BY <3>2, ReadTyped
    <3> QED
      BY <1>1, <3>3
  <2>4. tag.ok => after \in Nat /\ after > i
    <3>1. SUFFICES ASSUME tag.ok PROVE after \in Nat /\ after > i
      OBVIOUS
    <3>2. tag.next \in 1 .. Len(d) + 1 /\ tag.next > i
      BY <1>1, <2>1, <2>2, <3>1
    <3> HIDE DEF tag, wireType
    <3>3. after \in Nat /\ after >= tag.next
      BY <3>2, PastTyped
    <3> QED
      BY <1>1, <2>1, <3>2, <3>3
  <2>5. \A f : FindAt(d, target, i, f) =
                 IF i > Len(d) THEN NotFound
                 ELSE IF ~tag.ok THEN NotFound
                 ELSE IF tag.value \div Base = target /\ wireType = 0 THEN value
                 ELSE IF after > Len(d) + 1 THEN NotFound ELSE f[after]
    BY DEF FindAt
  <2> HIDE DEF tag, wireType, after, value
  <2>6. tag.ok /\ ~ (after > Len(d) + 1) => after \in i + 1 .. last /\ after \in 1 .. last
    BY <1>1, <2>1, <2>4
  <2>7. ASSUME NEW f \in Maps PROVE FindAt(d, target, i, f) \in Int
    <3>1. tag.ok /\ ~ (after > Len(d) + 1) => f[after] \in Int
      BY <2>6
    <3> HIDE DEF Maps
    <3> QED
      BY <1>1, <2>3, <2>5, <3>1
  <2>8. ASSUME NEW f, NEW g, \A j \in i + 1 .. last : f[j] = g[j]
        PROVE  FindAt(d, target, i, f) = FindAt(d, target, i, g)
    <3>1. tag.ok /\ ~ (after > Len(d) + 1) => f[after] = g[after]
      BY <2>6, <2>8
    <3> QED
      BY <2>5, <3>1
  <2> QED
    BY <2>7, <2>8
<1>4. step \in [(1 .. last) \X Maps -> Int]
  <2>1. ASSUME NEW p \in (1 .. last) \X Maps PROVE FindAt(d, target, p[1], p[2]) \in Int
    <3>1. p[1] \in 1 .. last /\ p[2] \in Maps
      OBVIOUS
    <3> QED
      BY <1>3, <3>1
  <2> QED
    BY <2>1
<1>5. \A i \in 1 .. last, f \in Maps : step[<<i, f>>] = FindAt(d, target, i, f)
  OBVIOUS
<1> HIDE DEF step
<1>6. ASSUME NEW i \in 1 .. last, NEW f \in Maps, NEW g \in Maps,
             \A j \in i + 1 .. last : f[j] = g[j]
      PROVE  step[<<i, f>>] = step[<<i, g>>]
  BY <1>3, <1>5, <1>6, ZenonT(30)
<1>7. PICK f : IsTail(f, Int, last, step)
  <2>1. 0 \in Int
    OBVIOUS
  <2> QED
    BY <1>1, <1>4, <1>6, <2>1, TailExists
<1>8. Is(f)
  <2>1. f \in Maps /\ \A i \in 1 .. last : f[i] = step[<<i, f>>]
    BY <1>7 DEF IsTail
  <2>2. f = [i \in 1 .. last |-> f[i]]
    BY <2>1
  <2> QED
    BY <1>5, <2>1, <2>2
<1>9. Is(find)
  <2> HIDE DEF Is
  <2> QED
    BY <1>8
<1>10. \A i \in 1 .. last : find[i] = FindAt(d, target, i, find)
  <2> HIDE DEF find
  <2> QED
    BY <1>9
<1> HIDE DEF find
<1> QED
  BY <1>1, <1>2, <1>10 DEF Finds

(* The bytes of a fixed field.                                             *)
OfKind(wt, size) == (wt = 1 => size = 8) /\ (wt = 5 => size = 4)

(* The fields a request may have: numbers, fixed bytes and strings.        *)
Fields == {f \in [num : Nat, wt : {0, 1, 2, 5}, value : Numbers, bytes : Seq(Nat)] :
             /\ f.num * Base + f.wt \in Numbers /\ Len(f.bytes) \in Numbers
             /\ OfKind(f.wt, Len(f.bytes))}

(* What follows a field's tag.                                             *)
Payload(f) ==
  CASE f.wt = 0 -> Varint(f.value)
    [] f.wt = 2 -> Varint(Len(f.bytes)) \o f.bytes
    [] OTHER    -> f.bytes

(* The bytes of numbers, payloads and fields.                              *)
LEMMA VarintTyped ==
  ASSUME NEW n \in Numbers
  PROVE  Varint(n) \in Seq(Nat) /\ Len(Varint(n)) \in Nat \ {0}
<1>1. PICK left, size : HasDigits(n, left, size)
  BY VarintDigits
<1>2. Varint(n) \in Seq(Nat) /\ Len(Varint(n)) \in 1 .. MaxVarint
  BY <1>1, VarintBytes
<1> QED
  BY <1>2 DEF MaxVarint

LEMMA PayloadTyped ==
  ASSUME NEW f \in Fields
  PROVE  Payload(f) \in Seq(Nat) /\ Len(Payload(f)) \in Nat
<1>1. f.wt \in {0, 1, 2, 5} /\ f.value \in Numbers /\ f.bytes \in Seq(Nat) /\ Len(f.bytes) \in Numbers
  BY DEF Fields
<1>2. Varint(f.value) \in Seq(Nat) /\ Varint(Len(f.bytes)) \in Seq(Nat)
  BY <1>1, VarintTyped
<1>3. Payload(f) \in Seq(Nat)
  <2>1. CASE f.wt = 0
    BY <1>2, <2>1 DEF Payload
  <2>2. CASE f.wt = 2
    BY <1>1, <1>2, <2>2 DEF Payload
  <2>3. CASE f.wt \notin {0, 2}
    BY <1>1, <2>3 DEF Payload
  <2> QED
    BY <2>1, <2>2, <2>3
<1> QED
  BY <1>3

LEMMA EncodeTyped ==
  ASSUME NEW f \in Fields
  PROVE  /\ Encode(f) = Varint(f.num * Base + f.wt) \o Payload(f) /\ Encode(f) \in Seq(Nat)
         /\ Len(Encode(f)) = Len(Varint(f.num * Base + f.wt)) + Len(Payload(f))
<1>1. Encode(f) = Varint(f.num * Base + f.wt) \o Payload(f)
  BY DEF Encode, Payload
<1>2. Varint(f.num * Base + f.wt) \in Seq(Nat) /\ Payload(f) \in Seq(Nat)
  BY VarintTyped, PayloadTyped DEF Fields
<1> QED
  BY <1>1, <1>2, TwoParts

(* The sequence s stands in d from pos on, or as much of it as d has room  *)
(* for; so do its parts.                                                   *)
Stands(d, pos, s) == \A i \in 1 .. Len(s) : pos + i - 1 <= Len(d) => d[pos + i - 1] = s[i]

LEMMA PartsStand ==
  ASSUME NEW d \in Seq(Nat), NEW s \in Seq(Nat), NEW u \in Seq(Nat), NEW pos \in Nat \ {0},
         Stands(d, pos, s \o u)
  PROVE  Stands(d, pos, s) /\ Stands(d, pos + Len(s), u)
<1>1. /\ Len(s \o u) = Len(s) + Len(u) /\ Len(s) \in Nat /\ Len(u) \in Nat
      /\ \A i \in 1 .. Len(s) : (s \o u)[i] = s[i]
      /\ \A i \in 1 .. Len(u) : (s \o u)[Len(s) + i] = u[i]
  BY TwoParts
<1>2. Stands(d, pos, s)
  <2>1. \A i \in 1 .. Len(s) : i \in 1 .. Len(s \o u)
    BY <1>1
  <2> QED
    BY <1>1, <2>1 DEF Stands
<1>3. ASSUME NEW i \in 1 .. Len(u), (pos + Len(s)) + i - 1 <= Len(d)
      PROVE  d[(pos + Len(s)) + i - 1] = u[i]
  <2>1. Len(s) + i \in 1 .. Len(s \o u) /\ pos + (Len(s) + i) - 1 = (pos + Len(s)) + i - 1
    BY <1>1
  <2>2. d[pos + (Len(s) + i) - 1] = (s \o u)[Len(s) + i]
    BY <1>3, <2>1 DEF Stands
  <2> QED
    BY <1>1, <2>1, <2>2
<1> QED
  BY <1>2, <1>3 DEF Stands

(* What is read of a number that stands at pos: it, if d has it whole.     *)
LEMMA NumberStands ==
  ASSUME NEW d \in Seq(Nat), NEW n \in Numbers, NEW pos \in Nat \ {0}, Stands(d, pos, Varint(n))
  PROVE  /\ pos + Len(Varint(n)) - 1 <= Len(d) =>
              ReadVarint(d, pos) = [ok |-> TRUE, value |-> n, next |-> pos + Len(Varint(n))]
         /\ ~ (pos + Len(Varint(n)) - 1 <= Len(d)) =>
              ~ReadVarint(d, pos).ok /\ ReadVarint(d, pos).value = NotFound
<1>1. StandsAt(d, pos, n)
  BY DEF Stands, StandsAt
<1>2. Len(Varint(n)) \in Nat /\ Len(d) \in Nat
  BY VarintTyped
<1>3. ~ (pos + Len(Varint(n)) - 1 <= Len(d)) => Len(d) < pos + Len(Varint(n)) - 1
  BY <1>2
<1> QED
  BY <1>1, <1>3, VarintRead, VarintCut

(* A tag is a field's number and its wire type.                            *)
LEMMA TagParts ==
  ASSUME NEW num \in Nat, NEW wireType \in {0, 1, 2, 5}
  PROVE  (num * Base + wireType) \div Base = num /\ (num * Base + wireType) % Base = wireType
BY DEF Base

(* What stands after the value of a field that stands at pos.              *)
LEMMA FieldPassed ==
  ASSUME NEW d \in Seq(Nat), NEW f \in Fields, NEW pos \in Nat \ {0}, Stands(d, pos, Payload(f)),
         pos <= Len(d) + 1
  PROVE  /\ PastValue(d, pos, f.wt) \in Nat
         /\ \/ PastValue(d, pos, f.wt) = pos + Len(Payload(f))
            \/ PastValue(d, pos, f.wt) > Len(d) + 1 /\ pos + Len(Payload(f)) > Len(d) + 1
<1> DEFINE v == ReadVarint(d, pos)
           size == Len(Payload(f))
           past == PastValue(d, pos, f.wt)
<1>1. /\ f.wt \in {0, 1, 2, 5} /\ f.value \in Numbers /\ f.bytes \in Seq(Nat) /\ Len(f.bytes) \in Numbers
      /\ f.wt = 1 => Len(f.bytes) = 8
      /\ f.wt = 5 => Len(f.bytes) = 4
  BY DEF Fields, OfKind
<1>2. Len(d) \in Nat /\ size \in Nat /\ Len(f.bytes) \in Nat
  BY <1>1, PayloadTyped
<1>3. past \in Nat
  <2>1. pos \in 1 .. Len(d) + 1
    BY <1>2
  <2> QED
    BY <2>1, PastTyped
<1>4. CASE f.wt = 0
  <2>1. Payload(f) = Varint(f.value) /\ Len(Varint(f.value)) \in Nat
    BY <1>1, <1>4, VarintTyped DEF Payload
  <2>2. /\ pos + size - 1 <= Len(d) => v.ok /\ v.next = pos + size
        /\ ~ (pos + size - 1 <= Len(d)) => ~v.ok
    <3> DEFINE m == f.value
    <3>1. m \in Numbers /\ Payload(f) = Varint(m)
      BY <1>1, <2>1
    <3> HIDE DEF m
    <3>2. /\ pos + Len(Varint(m)) - 1 <= Len(d) =>
                ReadVarint(d, pos) = [ok |-> TRUE, value |-> m, next |-> pos + Len(Varint(m))]
          /\ ~ (pos + Len(Varint(m)) - 1 <= Len(d)) => ~ReadVarint(d, pos).ok
      BY <3>1, NumberStands
    <3> QED
      BY <3>1, <3>2
  <2>3. past = IF v.ok THEN v.next ELSE Len(d) + 2
    BY <1>4 DEF PastValue
  <2> HIDE DEF v, size, past
  <2>4. past = pos + size \/ (past > Len(d) + 1 /\ pos + size > Len(d) + 1)
    BY <1>2, <2>2, <2>3
  <2> QED
    BY <1>3, <2>4 DEF size, past
<1>5. CASE f.wt = 2
  <2> DEFINE n == Len(f.bytes)
             head == Len(Varint(n))
  <2>1. Payload(f) = Varint(n) \o f.bytes /\ Varint(n) \in Seq(Nat) /\ head \in Nat
    <3>1. f.wt # 0 /\ f.wt = 2
      BY <1>5
    <3>2. Payload(f) = Varint(n) \o f.bytes
      BY <3>1 DEF Payload
    <3> QED
      BY <1>1, <3>2, VarintTyped
  <2>2. size = head + n /\ n \in Nat
    BY <1>1, <1>2, <2>1, TwoParts
  <2>3. Stands(d, pos, Varint(n))
    BY <1>1, <2>1, PartsStand
  <2>4. /\ pos + head - 1 <= Len(d) => v.ok /\ v.next = pos + head /\ v.value = n
        /\ ~ (pos + head - 1 <= Len(d)) => ~v.ok
    BY <1>1, <2>3, NumberStands
  <2>5. past = IF v.ok THEN v.next + v.value ELSE Len(d) + 2
    BY <1>5 DEF PastValue
  <2> HIDE DEF v, size, past, n, head
  <2>6. past = pos + size \/ (past > Len(d) + 1 /\ pos + size > Len(d) + 1)
    BY <1>2, <2>1, <2>2, <2>4, <2>5
  <2> QED
    BY <1>3, <2>6 DEF size, past
<1>6. CASE f.wt = 1
  <2>1. f.wt # 0 /\ f.wt # 2 /\ f.wt # 5
    BY <1>6
  <2>2. Payload(f) = f.bytes
    BY <2>1 DEF Payload
  <2>3. past = pos + 8
    BY <1>6, <2>1 DEF PastValue
  <2> QED
    BY <1>1, <1>3, <1>6, <2>2, <2>3
<1>7. CASE f.wt = 5
  <2>1. f.wt # 0 /\ f.wt # 2 /\ f.wt # 1
    BY <1>7
  <2>2. Payload(f) = f.bytes
    BY <2>1 DEF Payload
  <2>3. past = pos + 4
    BY <1>7, <2>1 DEF PastValue
  <2> QED
    BY <1>1, <1>3, <1>7, <2>2, <2>3
<1> QED
  BY <1>1, <1>4, <1>5, <1>6, <1>7

(* What FindVarintField makes of a field that stands at pos: it goes on    *)
(* after it, or it is what it looks for.  It ends if d ends in the field.  *)
LEMMA FieldRead ==
  ASSUME NEW d \in Seq(Nat), NEW f \in Fields, NEW pos \in Nat \ {0}, Stands(d, pos, Encode(f)),
         pos <= Len(d) + 1, NEW target, NEW find, Finds(find, d, target)
  PROVE  LET whole == pos + Len(Encode(f)) <= Len(d) + 1
             sought == f.num = target /\ f.wt = 0
         IN  /\ sought => find[pos] = IF whole THEN f.value ELSE NotFound
             /\ ~sought => find[pos] = IF whole THEN find[pos + Len(Encode(f))] ELSE NotFound
<1> DEFINE tag == ReadVarint(d, pos)
           n == f.num * Base + f.wt
           head == Len(Varint(n))
           next == pos + head
           after == PastValue(d, next, f.wt)
           size == Len(Payload(f))
           end == pos + Len(Encode(f))
           sought == f.num = target /\ f.wt = 0
<1>1. /\ f.wt \in {0, 1, 2, 5} /\ f.num \in Nat /\ n \in Numbers /\ f.value \in Numbers
      /\ Len(d) \in Nat
  BY DEF Fields
<1>2. /\ Varint(n) \in Seq(Nat) /\ head \in Nat \ {0} /\ Payload(f) \in Seq(Nat) /\ size \in Nat
      /\ Encode(f) = Varint(n) \o Payload(f) /\ Len(Encode(f)) = head + size
  BY <1>1, VarintTyped, PayloadTyped, EncodeTyped
<1>3. Stands(d, pos, Varint(n)) /\ Stands(d, next, Payload(f))
  BY <1>2, PartsStand
<1>4. /\ pos + head - 1 <= Len(d) => tag.ok /\ tag.value = n /\ tag.next = next
      /\ ~ (pos + head - 1 <= Len(d)) => ~tag.ok
  BY <1>1, <1>3, NumberStands
<1>5. n \div Base = f.num /\ n % Base = f.wt
  BY <1>1, TagParts
<1>6. find[pos] = FindAt(d, target, pos, find)
  <2>1. pos \in 1 .. Len(d) + 2
    BY <1>1
  <2> QED
    BY <2>1 DEF Finds
<1>7. end = next + size
  BY <1>2
<1>8. CASE ~ (pos + head - 1 <= Len(d))
  <2>1. ~tag.ok
    BY <1>4, <1>8
  <2>2. find[pos] = NotFound
    BY <1>6, <2>1 DEF FindAt
  <2> HIDE DEF tag, n, head, size
  <2>3. ~ (end <= Len(d) + 1)
    BY <1>1, <1>2, <1>7, <1>8
  <2> QED
    BY <2>2, <2>3
<1>9. CASE pos + head - 1 <= Len(d)
  <2>1. tag.ok /\ tag.value = n /\ tag.next = next
    BY <1>4, <1>9
  <2>2. ~ (pos > Len(d)) /\ next \in Nat \ {0} /\ next <= Len(d) + 1
    <3> HIDE DEF n, head
    <3> QED
      BY <1>1, <1>2, <1>9
  <2>3. find[pos] = IF sought THEN ReadVarint(d, next).value
                    ELSE IF after > Len(d) + 1 THEN NotFound ELSE find[after]
    BY <1>5, <1>6, <2>1, <2>2 DEF FindAt
  <2>4. /\ after \in Nat
        /\ after = next + size \/ (after > Len(d) + 1 /\ next + size > Len(d) + 1)
    BY <1>3, <2>2, FieldPassed
  <2>5. ASSUME sought
        PROVE  ReadVarint(d, next).value = IF end <= Len(d) + 1 THEN f.value ELSE NotFound
    <3>1. Payload(f) = Varint(f.value)
      BY <2>5 DEF Payload
    <3>2. /\ next + size - 1 <= Len(d) => ReadVarint(d, next).value = f.value
          /\ ~ (next + size - 1 <= Len(d)) => ReadVarint(d, next).value = NotFound
      BY <1>1, <1>3, <2>2, <3>1, NumberStands
    <3>3. end <= Len(d) + 1 <=> next + size - 1 <= Len(d)
      <4> HIDE DEF next, size, end
      <4> QED
        BY <1>1, <1>2, <1>7, <2>2
    <3> QED
      BY <3>2, <3>3
  <2>6. ASSUME ~sought
        PROVE  find[pos] = IF end <= Len(d) + 1 THEN find[end] ELSE NotFound
    <3>1. find[pos] = IF after > Len(d) + 1 THEN NotFound ELSE find[after]
      BY <2>3, <2>6
    <3>2. size \in Nat
      BY <1>2
    <3> HIDE DEF sought, next, size, end, after
    <3>3. CASE after = end
      BY <1>1, <1>7, <2>2, <2>4, <3>1, <3>2, <3>3
    <3>4. CASE after > Len(d) + 1 /\ end > Len(d) + 1
      BY <1>1, <1>7, <2>2, <2>4, <3>1, <3>2, <3>4
    <3> QED
      BY <1>7, <2>4, <3>3, <3>4
  <2> QED
    BY <2>3, <2>5, <2>6
<1> QED
  BY <1>8, <1>9

(* The field sought is the first of its number and kind.                   *)
FirstOf(fields, p, target) ==
  /\ fields[p].num = target /\ fields[p].wt = 0
  /\ \A j \in 1 .. p - 1 : ~ (fields[j].num = target /\ fields[j].wt = 0)

(* Where the fields of a body begin.                                       *)
LEMMA BodyJoins ==
  ASSUME NEW fields \in Seq(Fields)
  PROVE  /\ Body(fields) \in Seq(Nat)
         /\ \E starts : Follow([i \in 1 .. Len(fields) |-> Encode(fields[i])], Body(fields), starts)
<1> DEFINE seqs == [i \in 1 .. Len(fields) |-> Encode(fields[i])]
<1>1. \A i \in 1 .. Len(fields) : seqs[i] \in Seq(Nat)
  BY EncodeTyped
<1>2. seqs \in Seq(Seq(Nat))
  BY <1>1
<1>3. Body(fields) = FlattenSeq(seqs)
  BY DEF Body
<1> HIDE DEF seqs
<1>4. FlattenSeq(seqs) \in Seq(Nat) /\ \E starts : Follow(seqs, FlattenSeq(seqs), starts)
  BY <1>2, FlattenJoins
<1> QED
  BY <1>3, <1>4 DEF seqs

(* A body that was cut short names no other value than the whole one.      *)
LEMMA BodyRead ==
  ASSUME NEW fields \in Seq(Fields), NEW p \in 1 .. Len(fields), NEW target,
         FirstOf(fields, p, target), NEW d \in Seq(Nat), Len(d) <= Len(Body(fields)),
         \A x \in 1 .. Len(d) : d[x] = Body(fields)[x]
  PROVE  FindVarintField(d, target) \in {NotFound, fields[p].value}
         /\ (Len(d) = Len(Body(fields)) => FindVarintField(d, target) = fields[p].value)
<1> DEFINE whole == Body(fields)
           size(j) == Len(Encode(fields[j]))
           seqs == [i \in 1 .. Len(fields) |-> Encode(fields[i])]
<1>1. PICK find : Finds(find, d, target)
  BY FieldsFound
<1>2. PICK starts : Follow(seqs, whole, starts)
  BY BodyJoins
<1>3. Len(fields) \in Nat /\ Len(d) \in Nat /\ Len(seqs) = Len(fields) /\ p \in Nat
      /\ \A j \in 1 .. Len(fields) : fields[j] \in Fields /\ seqs[j] = Encode(fields[j])
  OBVIOUS
<1>4. /\ \A j \in 0 .. Len(fields) : starts[j] \in Nat
      /\ starts[0] = 0 /\ Len(whole) = starts[Len(fields)]
      /\ \A j \in 1 .. Len(fields) : starts[j] = starts[j - 1] + size(j) /\ starts[j] <= Len(whole)
      /\ \A j \in 1 .. Len(fields) : \A i \in 1 .. size(j) : whole[starts[j - 1] + i] = Encode(fields[j])[i]
  BY <1>2, <1>3 DEF Follow
<1>5. \A j \in 1 .. Len(fields) : size(j) \in Nat
  BY <1>3, EncodeTyped
<1> DEFINE At(j) == IF starts[j] + 1 <= Len(d) + 1 THEN find[starts[j] + 1] ELSE NotFound
           sought(j) == fields[j].num = target /\ fields[j].wt = 0
<1> HIDE DEF whole, seqs
<1>6. ASSUME NEW j \in 1 .. Len(fields)
      PROVE  /\ sought(j) => At(j - 1) = IF starts[j] + 1 <= Len(d) + 1 THEN fields[j].value ELSE NotFound
             /\ ~sought(j) => At(j - 1) = At(j)
  <2> DEFINE pos == starts[j - 1] + 1
  <2>1. j - 1 \in 0 .. Len(fields) /\ starts[j - 1] \in Nat /\ size(j) \in Nat
        /\ starts[j] = starts[j - 1] + size(j) /\ fields[j] \in Fields
    <3>1. j - 1 \in 0 .. Len(fields)
      BY <1>3
    <3>2. starts[j - 1] \in Nat
      BY <1>4, <3>1
    <3> HIDE DEF size
    <3> QED
      BY <1>3, <1>4, <1>5, <3>1, <3>2
  <2>2. pos \in Nat \ {0} /\ pos + size(j) = starts[j] + 1
    BY <2>1
  <2>3. ASSUME NEW i \in 1 .. size(j), pos + i - 1 <= Len(d)
        PROVE  d[pos + i - 1] = Encode(fields[j])[i]
    <3>1. pos + i - 1 = starts[j - 1] + i /\ starts[j - 1] + i \in 1 .. Len(d)
      <4> DEFINE b == starts[j - 1]
      <4>1. b \in Nat /\ pos = b + 1 /\ i \in Nat /\ i >= 1 /\ pos + i - 1 <= Len(d)
        BY <2>1, <2>3
      <4> HIDE DEF b, pos
      <4>2. pos + i - 1 = b + i /\ b + i \in 1 .. Len(d)
        BY <1>3, <4>1
      <4> QED
        BY <4>2 DEF b
    <3>2. whole[starts[j - 1] + i] = Encode(fields[j])[i]
      BY <1>4
    <3> QED
      BY <3>1, <3>2 DEF whole
  <2>4. Stands(d, pos, Encode(fields[j]))
    BY <2>3 DEF Stands
  <2>5. CASE pos <= Len(d) + 1
    <3>1. /\ sought(j) => find[pos] = IF pos + size(j) <= Len(d) + 1 THEN fields[j].value ELSE NotFound
          /\ ~sought(j) => find[pos] = IF pos + size(j) <= Len(d) + 1 THEN find[pos + size(j)] ELSE NotFound
      <4> DEFINE f == fields[j]
      <4>1. f \in Fields /\ Stands(d, pos, Encode(f)) /\ pos \in Nat \ {0}
        BY <2>1, <2>2, <2>4
      <4> HIDE DEF f, pos
      <4>2. LET ends == pos + Len(Encode(f)) <= Len(d) + 1
                wanted == f.num = target /\ f.wt = 0
            IN  /\ wanted => find[pos] = IF ends THEN f.value ELSE NotFound
                /\ ~wanted => find[pos] = IF ends THEN find[pos + Len(Encode(f))] ELSE NotFound
        BY <1>1, <2>5, <4>1, FieldRead
      <4> QED
        BY <4>2 DEF f
    <3>2. At(j - 1) = find[pos]
      BY <2>5
    <3> QED
      BY <2>2, <3>1, <3>2
  <2>6. CASE ~ (pos <= Len(d) + 1)
    <3>1. ~ (starts[j] + 1 <= Len(d) + 1)
      BY <1>3, <2>1, <2>6
    <3> QED
      BY <2>6, <3>1
  <2> QED
    BY <2>5, <2>6
<1>7. find[1] = At(0)
  <2>1. starts[0] + 1 = 1 /\ 1 <= Len(d) + 1
    BY <1>3, <1>4
  <2> QED
    BY <2>1
<1>8. find[1] = At(p - 1)
  <2> DEFINE Reached == {j \in 0 .. p - 1 : find[1] = At(j)}
  <2>1. 0 \in Reached /\ p - 1 \in Nat
    BY <1>3, <1>7
  <2>2. ASSUME NEW j \in 0 .. (p - 1) - 1, j \in Reached PROVE j + 1 \in Reached
    <3>1. j + 1 \in 1 .. Len(fields) /\ j + 1 \in 1 .. p - 1 /\ (j + 1) - 1 = j
      BY <1>3
    <3>2. ~sought(j + 1)
      BY <3>1 DEF FirstOf
    <3> DEFINE m == j + 1
    <3>3. m \in 1 .. Len(fields) /\ m \in 1 .. p - 1 /\ m - 1 = j /\ ~sought(m)
      BY <3>1, <3>2
    <3> HIDE DEF m, At, sought
    <3>4. At(m - 1) = At(m)
      BY <1>6, <3>3
    <3>5. find[1] = At(m) /\ m \in 0 .. p - 1
      BY <1>3, <2>2, <3>3, <3>4
    <3> QED
      BY <3>5 DEF m
  <2> HIDE DEF Reached
  <2>3. \A j \in 0 .. p - 1 : j \in Reached
    BY <2>1, <2>2, Upward
  <2> QED
    BY <2>1, <2>3 DEF Reached
<1>9. sought(p)
  BY DEF FirstOf
<1>10. find[1] = IF starts[p] + 1 <= Len(d) + 1 THEN fields[p].value ELSE NotFound
  <2> HIDE DEF At, sought
  <2> QED
    BY <1>6, <1>8, <1>9
<1>11. Len(d) = Len(whole) => starts[p] + 1 <= Len(d) + 1
  BY <1>3, <1>4
<1>12. FindVarintField(d, target) = find[1]
  BY <1>1 DEF Finds
<1> QED
  BY <1>10, <1>11, <1>12 DEF whole

(* A varint field is found in a body of any fields, strings among them     *)
(* whose contents look like fields, and a body cut anywhere yields that    *)
(* value or none (FindVarintField, Hooks_NetPacket.cpp:1065).              *)
THEOREM FieldsAreFound ==
  ASSUME NEW fields \in Seq(Fields), NEW p \in 1 .. Len(fields), NEW target,
         FirstOf(fields, p, target)
  PROVE  /\ FindVarintField(Body(fields), target) = fields[p].value
         /\ \A k \in 0 .. Len(Body(fields)) :
              FindVarintField(SubSeq(Body(fields), 1, k), target) \in {NotFound, fields[p].value}
<1> DEFINE whole == Body(fields)
<1>1. whole \in Seq(Nat) /\ Len(whole) \in Nat
  BY BodyJoins
<1>2. FindVarintField(whole, target) = fields[p].value
  <2>1. whole \in Seq(Nat) /\ Len(whole) <= Len(Body(fields)) /\ Len(whole) = Len(Body(fields))
        /\ \A x \in 1 .. Len(whole) : whole[x] = Body(fields)[x]
    BY <1>1
  <2> HIDE DEF whole
  <2> QED
    BY <2>1, BodyRead
<1>3. ASSUME NEW k \in 0 .. Len(whole)
      PROVE  FindVarintField(SubSeq(whole, 1, k), target) \in {NotFound, fields[p].value}
  <2> DEFINE d == SubSeq(whole, 1, k)
  <2> HIDE DEF whole
  <2>1. d \in Seq(Nat) /\ Len(d) = k /\ \A x \in 1 .. k : d[x] = whole[x]
    BY <1>1
  <2>2. k <= Len(whole)
    BY <1>1
  <2> HIDE DEF d
  <2>3. Len(d) <= Len(Body(fields)) /\ \A x \in 1 .. Len(d) : d[x] = Body(fields)[x]
    BY <2>1, <2>2 DEF whole
  <2>4. FindVarintField(d, target) \in {NotFound, fields[p].value}
    BY <2>1, <2>3, BodyRead
  <2> QED
    BY <2>4 DEF d
<1> QED
  BY <1>2, <1>3

(* The fields that the requests are made of.                               *)
LEMMA SmallNumbers == \A n \in Nat : n < 1000 => n \in Numbers
BY SMT DEF Numbers

LEMMA NumberTyped ==
  ASSUME NEW num \in 1 .. 9, NEW value \in Nat, value < 1000
  PROVE  /\ NumberField(num, value) \in Fields
         /\ NumberField(num, value).num = num /\ NumberField(num, value).wt = 0
         /\ NumberField(num, value).value = value
<1>1. num * Base + 0 \in Numbers /\ value \in Numbers
  <2>1. num * Base + 0 \in Nat /\ num * Base + 0 < 1000
    BY DEF Base
  <2> QED
    BY <2>1, SmallNumbers
<1>2. <<>> \in Seq(Nat) /\ Len(<<>>) = 0 /\ 0 < 1000 /\ num \in Nat
  OBVIOUS
<1>3. 0 \in Numbers
  BY <1>2, SmallNumbers
<1> QED
  BY <1>1, <1>2, <1>3 DEF NumberField, Fields, OfKind

LEMMA BytesTyped ==
  ASSUME NEW num \in 1 .. 9, NEW wt \in {1, 2, 5}, NEW bytes \in Seq(Nat),
         Len(bytes) < 1000, OfKind(wt, Len(bytes))
  PROVE  /\ BytesField(num, wt, bytes) \in Fields
         /\ BytesField(num, wt, bytes).num = num
<1>1. num * Base + wt \in Numbers /\ Len(bytes) \in Numbers
  <2>1. num * Base + wt \in Nat /\ num * Base + wt < 1000 /\ Len(bytes) \in Nat
    BY DEF Base
  <2> QED
    BY <2>1, SmallNumbers
<1>2. 0 \in Numbers /\ num \in Nat
  <2>1. 0 \in Nat /\ 0 < 1000 /\ num \in Nat
    OBVIOUS
  <2> QED
    BY <2>1, SmallNumbers
<1> QED
  BY <1>1, <1>2 DEF BytesField, Fields

(* A string that looks like two fields.                                    *)
LEMMA ContentsTyped == Contents \in Seq(Nat) /\ Len(Contents) < 1000
<1> DEFINE fields == <<NumberField(1, 5), NumberField(2, 6)>>
           seqs == [i \in 1 .. Len(fields) |-> Encode(fields[i])]
<1>1. Len(fields) = 2 /\ fields[1] = NumberField(1, 5) /\ fields[2] = NumberField(2, 6)
  OBVIOUS
<1>2. NumberField(1, 5) \in Fields /\ NumberField(2, 6) \in Fields
  BY NumberTyped
<1>3. fields \in Seq(Fields)
  BY <1>2
<1>4. Contents = Body(fields)
  BY DEF Contents
<1> HIDE DEF fields
<1>5. Body(fields) \in Seq(Nat)
  BY <1>3, BodyJoins
<1>6. PICK starts : Follow(seqs, Body(fields), starts)
  BY <1>3, BodyJoins
<1>7. Len(seqs) = 2 /\ seqs[1] = Encode(fields[1]) /\ seqs[2] = Encode(fields[2])
  BY <1>1
<1>8. ASSUME NEW i \in 1 .. 2 PROVE Len(Encode(fields[i])) \in 0 .. 20
  <2> DEFINE f == fields[i]
             n == f.num * Base + f.wt
  <2>1. f \in Fields /\ f.wt = 0 /\ f.value \in Numbers /\ n \in Numbers
    <3>1. CASE i = 1
      BY <1>1, <1>2, <3>1, NumberTyped DEF NumberField, Fields
    <3>2. CASE i = 2
      BY <1>1, <1>2, <3>2, NumberTyped DEF NumberField, Fields
    <3> QED
      BY <3>1, <3>2
  <2> HIDE DEF f
  <2>2. PICK left, size : HasDigits(n, left, size)
    BY <2>1, VarintDigits
  <2>3. Len(Varint(n)) \in 1 .. 10
    BY <2>2, VarintBytes DEF MaxVarint
  <2>4. PICK left2, size2 : HasDigits(f.value, left2, size2)
    BY <2>1, VarintDigits
  <2>5. Len(Varint(f.value)) \in 1 .. 10
    BY <2>4, VarintBytes DEF MaxVarint
  <2>6. Payload(f) = Varint(f.value)
    BY <2>1 DEF Payload
  <2>7. Len(Encode(f)) = Len(Varint(n)) + Len(Payload(f))
    BY <2>1, EncodeTyped
  <2> HIDE DEF n
  <2>8. Len(Payload(f)) \in 1 .. 10
    BY <2>5, <2>6
  <2> DEFINE a == Len(Varint(n))
             b == Len(Payload(f))
  <2>9. a \in 1 .. 10 /\ b \in 1 .. 10 /\ Len(Encode(f)) = a + b
    BY <2>3, <2>7, <2>8
  <2> HIDE DEF a, b
  <2>10. Len(Encode(f)) \in 0 .. 20
    BY <2>9
  <2> QED
    BY <2>10 DEF f
<1>9. Len(Body(fields)) = starts[2] /\ starts[0] = 0
      /\ starts[1] = starts[0] + Len(seqs[1]) /\ starts[2] = starts[1] + Len(seqs[2])
  <2>1. 1 \in 1 .. Len(seqs) /\ 2 \in 1 .. Len(seqs) /\ 1 - 1 = 0 /\ 2 - 1 = 1
    BY <1>7
  <2> HIDE DEF seqs
  <2> QED
    BY <1>6, <1>7, <2>1 DEF Follow
<1>10. Len(Encode(fields[1])) \in 0 .. 20 /\ Len(Encode(fields[2])) \in 0 .. 20
  BY <1>8
<1>11. Len(Body(fields)) < 1000
  <2> DEFINE a == Len(Encode(fields[1]))
             b == Len(Encode(fields[2]))
             whole == Len(Body(fields))
  <2>1. starts[1] = 0 + a /\ whole = starts[1] + b
    BY <1>7, <1>9
  <2>2. a \in 0 .. 20 /\ b \in 0 .. 20
    BY <1>10
  <2> HIDE DEF a, b, whole
  <2>3. whole < 1000
    BY <2>1, <2>2
  <2> QED
    BY <2>3 DEF whole
<1> QED
  BY <1>4, <1>5, <1>11

(* So are the fields around the app, which have other numbers.             *)
LEMMA OthersTyped == ASSUME NEW f \in Others PROVE f \in Fields /\ f.num \in {3, 9}
<1>1. PICK n \in {3, 9} : f \in {NumberField(n, 0), NumberField(n, 70), BytesField(n, 1, Fixed(8)),
                                 BytesField(n, 5, Fixed(4)), BytesField(n, 2, Contents)}
  BY DEF Others
<1>2. n \in 1 .. 9
  BY <1>1
<1>3. /\ Fixed(8) \in Seq(Nat) /\ Len(Fixed(8)) = 8
      /\ Fixed(4) \in Seq(Nat) /\ Len(Fixed(4)) = 4
  BY DEF Fixed, Byte, Base
<1>4. CASE f \in {NumberField(n, 0), NumberField(n, 70)}
  BY <1>1, <1>2, <1>4, NumberTyped
<1>5. CASE f = BytesField(n, 1, Fixed(8))
  <2>1. OfKind(1, 8) /\ 8 < 1000
    BY DEF OfKind
  <2>2. Fixed(8) \in Seq(Nat) /\ Len(Fixed(8)) = 8
    BY <1>3
  <2>3. ASSUME NEW size, size = 8 PROVE OfKind(1, size) /\ size < 1000
    BY <2>3, SMT DEF OfKind
  <2>4. OfKind(1, Len(Fixed(8))) /\ Len(Fixed(8)) < 1000
    BY <2>2, <2>3, ZenonT(30)
  <2>5. BytesField(n, 1, Fixed(8)) \in Fields /\ BytesField(n, 1, Fixed(8)).num = n
    BY <1>2, <2>2, <2>4, BytesTyped
  <2> QED
    BY <1>5, <2>5
<1>6. CASE f = BytesField(n, 5, Fixed(4))
  <2>1. OfKind(5, 4) /\ 4 < 1000
    BY DEF OfKind
  <2>2. Fixed(4) \in Seq(Nat) /\ Len(Fixed(4)) = 4
    BY <1>3
  <2>3. ASSUME NEW size, size = 4 PROVE OfKind(5, size) /\ size < 1000
    BY <2>3, SMT DEF OfKind
  <2>4. OfKind(5, Len(Fixed(4))) /\ Len(Fixed(4)) < 1000
    BY <2>2, <2>3, ZenonT(30)
  <2>5. BytesField(n, 5, Fixed(4)) \in Fields /\ BytesField(n, 5, Fixed(4)).num = n
    BY <1>2, <2>2, <2>4, BytesTyped
  <2> QED
    BY <1>6, <2>5
<1>7. CASE f = BytesField(n, 2, Contents)
  <2>1. OfKind(2, Len(Contents))
    BY DEF OfKind
  <2>2. BytesField(n, 2, Contents) \in Fields /\ BytesField(n, 2, Contents).num = n
    BY <1>2, <2>1, ContentsTyped, BytesTyped
  <2> QED
    BY <1>7, <2>2
<1> QED
  BY <1>1, <1>4, <1>5, <1>6, <1>7

(* A request of three fields, the app in the second of them.               *)
IsRequest(call, f, g, h) ==
  /\ request = <<[job |-> call], f, g, h>> /\ f \in Fields /\ g \in Fields /\ h \in Fields
  /\ g.num = AppIdField(call) /\ g.wt = 0 /\ f.num # AppIdField(call)

(* Every request names its app.                                            *)
LEMMA BodiesRead == ASSUME request \in Bodies PROVE RequestNamesItsApp
<1> DEFINE target == AppIdField(request[1].job)
<1>1. PICK call, f, g, h : IsRequest(call, f, g, h)
  <2>1. CASE \E app \in {7, 480}, o \in Others :
               request = <<[job |-> "Cloud.ClientCommitFileUpload#1"], NumberField(1, 1), NumberField(2, app), o>>
    <3>1. PICK app \in {7, 480}, o \in Others :
            request = <<[job |-> "Cloud.ClientCommitFileUpload#1"], NumberField(1, 1), NumberField(2, app), o>>
      BY <2>1
    <3>2. AppIdField("Cloud.ClientCommitFileUpload#1") = 2
      BY DEF AppIdField
    <3>3. /\ NumberField(1, 1) \in Fields /\ NumberField(1, 1).num = 1
          /\ NumberField(2, app) \in Fields /\ NumberField(2, app).num = 2 /\ NumberField(2, app).wt = 0
      BY NumberTyped
    <3>4. NumberField(1, 1).num # 2 /\ o \in Fields
      BY <3>3, OthersTyped
    <3>5. IsRequest("Cloud.ClientCommitFileUpload#1", NumberField(1, 1), NumberField(2, app), o)
      BY <3>1, <3>2, <3>3, <3>4 DEF IsRequest
    <3> QED
      BY <3>5
  <2>2. CASE \E app \in {7, 480}, o \in Others, p \in Others :
               request = <<[job |-> "Cloud.ClientFileDownload#1"], o, NumberField(1, app), p>>
    <3>1. PICK app \in {7, 480}, o \in Others, p \in Others :
            request = <<[job |-> "Cloud.ClientFileDownload#1"], o, NumberField(1, app), p>>
      BY <2>2
    <3>2. AppIdField("Cloud.ClientFileDownload#1") = 1
      BY DEF AppIdField
    <3>3. NumberField(1, app) \in Fields /\ NumberField(1, app).num = 1 /\ NumberField(1, app).wt = 0
      BY NumberTyped
    <3>4. o \in Fields /\ o.num # 1 /\ p \in Fields
      BY OthersTyped
    <3>5. IsRequest("Cloud.ClientFileDownload#1", o, NumberField(1, app), p)
      BY <3>1, <3>2, <3>3, <3>4 DEF IsRequest
    <3> QED
      BY <3>5
  <2> QED
    BY <2>1, <2>2 DEF Bodies
<1>2. target = AppIdField(call) /\ request[3] = g
  BY <1>1 DEF IsRequest
<1>3. Tail(request) = <<f, g, h>>
  BY <1>1 DEF IsRequest
<1> DEFINE fields == <<f, g, h>>
<1>4. fields \in Seq(Fields) /\ Len(fields) = 3 /\ fields[1] = f /\ fields[2] = g /\ 2 \in 1 .. Len(fields)
  BY <1>1 DEF IsRequest
<1> HIDE DEF fields, target
<1>5. FirstOf(fields, 2, target)
  <2>1. \A j \in 1 .. 2 - 1 : j = 1
    OBVIOUS
  <2> QED
    BY <1>1, <1>2, <1>4, <2>1 DEF FirstOf, IsRequest
<1>6. /\ FindVarintField(Body(fields), target) = g.value
      /\ \A k \in 0 .. Len(Body(fields)) :
           FindVarintField(SubSeq(Body(fields), 1, k), target) \in {NotFound, g.value}
  BY <1>4, <1>5, FieldsAreFound
<1>7. Tail(request) = fields
  BY <1>3 DEF fields
<1> QED
  BY <1>2, <1>6, <1>7 DEF RequestNamesItsApp, ExtractAppId, target

(* What is struck was asked for on the donor's account, and the app of a   *)
(* Cloud.* request is the one the client wrote in it, wherever it stands,  *)
(* also when the request was cut short (ExtractAppId,                      *)
(* Hooks_NetPacket.cpp:1095).                                              *)
THEOREM PacketsAreTheirApps ==
  WireInit /\ (BodyInit \/ request = NoRequest) /\ [][WireNext /\ UNCHANGED request]_<<wire, request>>
    => []PacketsNameTheirApp
<1> DEFINE Named == request \in Bodies \cup {NoRequest}
<1>1. Named => RequestNamesItsApp
  <2>1. request = NoRequest => RequestNamesItsApp
    BY DEF RequestNamesItsApp
  <2> QED
    BY <2>1, BodiesRead
<1>2. BodyInit \/ request = NoRequest => Named
  BY DEF BodyInit
<1>3. Named /\ [WireNext /\ UNCHANGED request]_<<wire, request>> => Named'
  OBVIOUS
<1>4. [WireNext /\ UNCHANGED request]_<<wire, request>> => [WireNext]_wire
  OBVIOUS
<1>5. Named /\ OnlyDonorsAreStruck => PacketsNameTheirApp
  BY <1>1 DEF PacketsNameTheirApp
<1> HIDE DEF Named
<1> QED
  BY <1>2, <1>3, <1>4, <1>5, OwnProgressStays, PTL
=============================================================================
