------------------------- MODULE ClientHostProofs -------------------------
(***************************************************************************)
(* The module in Steam's process, for any games, depots, builds, trap      *)
(* sites, callers and processes: a trap is taken where one is due and      *)
(* nowhere else; neither the game on top nor its rich presence is lost; a  *)
(* start fetches, uses and reports whole metadata of the client it runs    *)
(* on; a depot key that was written stays; a pipe answers for the          *)
(* process at its other end; and no watcher thread is joinable when it is  *)
(* assigned or destroyed, nor shares the Lua files with a reload.          *)
(*                                                                         *)
(* Each part has its own state and its own inductive invariant, stated     *)
(* before the lemmas that keep it.                                         *)
(***************************************************************************)
EXTENDS RichPresence, Startup, StagedModule, AutoUpdate, PipeSession, Trap,
        WatcherLife, FiniteSetTheorems, SequenceTheorems, TLAPS

-----------------------------------------------------------------------------

(* Trap sites.  The inductive invariant says, while the hooks are          *)
(* installed, where a breakpoint may be: only at a site registered first,  *)
(* with the handler already there; that a trap flag belongs to a thread    *)
(* stepping over a persistent site; that a one-shot site is armed until it *)
(* has been hit; and that a persistent one is armed or some thread is on   *)
(* its way to arming it.                                                   *)
Places == {"outside", "before", "breakpoint", "step", "in", "dead"}
UnderWay == {"before", "breakpoint", "step"}
ThreadStates == [where : Places, site : Sites \cup {"none"}, tf : BOOLEAN]

TrapTypeOK ==
  trap \in [int3 : SUBSET Sites, registered : SUBSET Sites, handler : BOOLEAN,
            ended : BOOLEAN, arming : SUBSET Sites,
            threads : [Callers -> ThreadStates], hits : SUBSET Sites, calls : Nat]

SitesInv ==
  /\ trap.arming \subseteq trap.registered
  /\ trap.int3 \subseteq trap.registered \ trap.arming
  /\ trap.hits \subseteq trap.registered \ trap.arming
  /\ trap.registered # {} => trap.handler

Done == trap.registered \ trap.arming

ThreadsInv == \A t \in Callers :
  /\ At(t, "breakpoint") \/ At(t, "step") => trap.threads[t].site \in Done
  /\ At(t, "step") => trap.threads[t].tf
  /\ trap.threads[t].tf => /\ trap.threads[t].where \in UnderWay
                           /\ trap.threads[t].site \in Done \cap Persistent
  /\ ~At(t, "dead")

BytesInv == \A s \in trap.registered \ trap.arming :
  /\ s \in OneShot => (s \in trap.int3 <=> s \notin trap.hits)
  /\ s \in Persistent /\ s \notin trap.int3 =>
       \E t \in Callers : trap.threads[t].site = s /\ trap.threads[t].tf

TrapInv == TrapTypeOK /\ (~trap.ended => SitesInv /\ ThreadsInv /\ BytesInv)

LEMMA InitTrapInv == TrapInit => TrapInv
<1> SUFFICES ASSUME TrapInit PROVE TrapInv
  OBVIOUS
<1>1. TrapTypeOK
  BY DEF TrapInit, TrapTypeOK, ThreadStates, Places, Outside
<1>2. SitesInv /\ BytesInv
  BY DEF TrapInit, SitesInv, BytesInv
<1>3. ThreadsInv
  BY DEF TrapInit, ThreadsInv, Outside, At
<1> QED
  BY <1>1, <1>2, <1>3 DEF TrapInv

(* A step of one thread, which leaves the others where they are.           *)
LEMMA PutPuts ==
  ASSUME TrapTypeOK, NEW t \in Callers, NEW where \in Places, NEW tf \in BOOLEAN
  PROVE  /\ Put(t, where, tf) \in [Callers -> ThreadStates]
         /\ Put(t, where, tf)[t].where = where
         /\ Put(t, where, tf)[t].tf = tf
         /\ Put(t, where, tf)[t].site = trap.threads[t].site
         /\ \A u \in Callers \ {t} : Put(t, where, tf)[u] = trap.threads[u]
BY DEF Put, TrapTypeOK, ThreadStates

LEMMA ArmTrapInv ==
  ASSUME TrapInv, NEW s \in Sites, Arm(s)
  PROVE  TrapInv'
<1>1. TrapTypeOK /\ SitesInv /\ ThreadsInv /\ BytesInv /\ ~trap.ended
  BY DEF TrapInv, Arm
<1>2. CASE s \notin trap.registered /\ trap.arming = {}
  <2>1. trap' = [trap EXCEPT !.handler = TRUE, !.registered = @ \cup {s}, !.arming = {s}]
    BY <1>1, <1>2 DEF Arm, SitesInv
  <2>2. /\ trap'.int3 = trap.int3 /\ trap'.registered = trap.registered \cup {s}
        /\ trap'.handler = TRUE /\ trap'.ended = FALSE /\ trap'.arming = {s}
        /\ trap'.threads = trap.threads /\ trap'.hits = trap.hits
    BY <1>1, <2>1 DEF TrapTypeOK
  <2>3. TrapTypeOK'
    BY <1>1, <2>1 DEF TrapTypeOK
  <2>4. SitesInv'
    BY <1>1, <1>2, <2>2 DEF SitesInv
  <2>5. ThreadsInv'
    BY <1>1, <1>2, <2>2 DEF Done, ThreadsInv, At
  <2>6. BytesInv'
    BY <1>1, <1>2, <2>2 DEF BytesInv
  <2> QED
    BY <2>3, <2>4, <2>5, <2>6 DEF TrapInv
<1>3. CASE s \in trap.arming
  <2>1. trap' = [trap EXCEPT !.arming = @ \ {s}, !.int3 = @ \cup {s}]
    BY <1>1, <1>3 DEF Arm
  <2>2. /\ trap'.int3 = trap.int3 \cup {s} /\ trap'.registered = trap.registered
        /\ trap'.handler = trap.handler /\ trap'.ended = FALSE
        /\ trap'.arming = trap.arming \ {s}
        /\ trap'.threads = trap.threads /\ trap'.hits = trap.hits
    BY <1>1, <2>1 DEF TrapTypeOK
  <2>3. TrapTypeOK'
    BY <1>1, <2>1 DEF TrapTypeOK
  <2>4. SitesInv'
    BY <1>1, <1>3, <2>2 DEF SitesInv
  <2>5. ThreadsInv'
    BY <1>1, <2>2 DEF Done, ThreadsInv, At
  <2>6. BytesInv'
    BY <1>1, <1>3, <2>2 DEF BytesInv, SitesInv
  <2> QED
    BY <2>3, <2>4, <2>5, <2>6 DEF TrapInv
<1> QED
  BY <1>2, <1>3 DEF Arm

LEMMA CallTrapInv ==
  ASSUME TrapInv, NEW s \in Sites, NEW t \in Callers, Call(t, s)
  PROVE  TrapInv'
<1> DEFINE th == [where |-> "before", site |-> s, tf |-> FALSE]
<1>1. TrapTypeOK /\ th \in ThreadStates
  BY DEF TrapInv, ThreadStates, Places
<1>2. /\ trap'.threads = [trap.threads EXCEPT ![t] = th] /\ trap'.calls \in Nat
      /\ trap'.int3 = trap.int3 /\ trap'.registered = trap.registered
      /\ trap'.handler = trap.handler /\ trap'.ended = trap.ended
      /\ trap'.arming = trap.arming /\ trap'.hits = trap.hits
  BY <1>1 DEF Call, TrapTypeOK
<1>3. TrapTypeOK'
  <2> DEFINE threads == [trap.threads EXCEPT ![t] = th]
             n == trap.calls + 1
  <2>1. threads \in [Callers -> ThreadStates] /\ n \in Nat
    BY <1>1 DEF TrapTypeOK
  <2>2. trap' = [trap EXCEPT !.calls = n, !.threads = threads]
    BY DEF Call
  <2> HIDE DEF threads, n
  <2> QED
    BY <1>1, <2>1, <2>2 DEF TrapTypeOK
<1>4. /\ trap'.threads[t] = th
      /\ \A u \in Callers \ {t} : trap'.threads[u] = trap.threads[u]
  BY <1>1, <1>2 DEF TrapTypeOK
<1> HIDE DEF th
<1>5. th.where = "before" /\ th.tf = FALSE
  BY DEF th
<1>6. ASSUME ~trap.ended PROVE SitesInv' /\ ThreadsInv' /\ BytesInv'
  <2>1. SitesInv /\ ThreadsInv /\ BytesInv
    BY <1>6 DEF TrapInv
  <2>2. SitesInv'
    BY <1>2, <2>1 DEF SitesInv
  <2>3. ThreadsInv'
    BY <1>2, <1>4, <1>5, <2>1 DEF Done, ThreadsInv, At
  <2>4. ~trap.threads[t].tf
    BY <2>1 DEF Call, ThreadsInv, At, UnderWay
  <2>5. BytesInv'
    <3> SUFFICES ASSUME NEW z \in trap.registered \ trap.arming
                 PROVE  /\ z \in OneShot => (z \in trap.int3 <=> z \notin trap.hits)
                        /\ z \in Persistent /\ z \notin trap.int3 =>
                             \E u \in Callers : trap'.threads[u].site = z /\ trap'.threads[u].tf
      BY <1>2 DEF BytesInv
    <3> QED
      BY <1>4, <2>1, <2>4 DEF BytesInv
  <2> QED
    BY <2>2, <2>3, <2>5
<1> QED
  BY <1>2, <1>3, <1>6 DEF TrapInv

(* A step that only moves a thread, and says of it what ThreadsInv does.   *)
LEMMA MoveTrapInv ==
  ASSUME TrapInv, NEW t \in Callers, NEW where \in Places, NEW tf \in BOOLEAN,
         trap' = [trap EXCEPT !.threads = Put(t, where, tf)],
         ~trap.ended =>
           LET site == trap.threads[t].site
           IN  /\ where \in {"breakpoint", "step"} => site \in Done
               /\ where = "step" => tf
               /\ tf => where \in UnderWay /\ site \in Done \cap Persistent
               /\ where # "dead"
               /\ tf = trap.threads[t].tf
  PROVE  TrapInv'
<1> DEFINE put == Put(t, where, tf)
<1>1. TrapTypeOK
  BY DEF TrapInv
<1>2. /\ put \in [Callers -> ThreadStates]
      /\ put[t].where = where /\ put[t].tf = tf /\ put[t].site = trap.threads[t].site
      /\ \A u \in Callers \ {t} : put[u] = trap.threads[u]
  BY <1>1, PutPuts
<1> HIDE DEF put
<1>3. trap' = [trap EXCEPT !.threads = put]
  BY DEF put
<1>4. TrapTypeOK'
  BY <1>1, <1>2, <1>3 DEF TrapTypeOK
<1>5. /\ trap'.threads = put
      /\ trap'.int3 = trap.int3 /\ trap'.registered = trap.registered
      /\ trap'.handler = trap.handler /\ trap'.ended = trap.ended
      /\ trap'.arming = trap.arming /\ trap'.hits = trap.hits
  BY <1>1, <1>3 DEF TrapTypeOK
<1>6. ASSUME ~trap.ended PROVE SitesInv' /\ ThreadsInv' /\ BytesInv'
  <2>1. SitesInv /\ ThreadsInv /\ BytesInv
    BY <1>6 DEF TrapInv
  <2>2. SitesInv'
    BY <1>5, <2>1 DEF SitesInv
  <2>3. ThreadsInv'
    BY <1>2, <1>5, <1>6, <2>1 DEF Done, ThreadsInv, At
  <2>4. BytesInv'
    BY <1>2, <1>5, <1>6, <2>1 DEF BytesInv
  <2> QED
    BY <2>2, <2>3, <2>4
<1> QED
  BY <1>4, <1>5, <1>6 DEF TrapInv

LEMMA ExecuteTrapInv ==
  ASSUME TrapInv, NEW t \in Callers, Execute(t)
  PROVE  TrapInv'
<1> DEFINE th == trap.threads[t]
<1>1. TrapTypeOK /\ th \in ThreadStates /\ th.where = "before"
  BY DEF TrapInv, TrapTypeOK, Execute, At
<1>2. ~trap.ended => /\ th.tf => th.site \in Done \cap Persistent
                     /\ th.site \in trap.int3 => th.site \in Done
  BY DEF TrapInv, ThreadsInv, SitesInv, Done
<1>3. th.tf \in BOOLEAN
  BY <1>1 DEF ThreadStates
<1>4. CASE th.site \in trap.int3
  <2>1. trap' = [trap EXCEPT !.threads = Put(t, "breakpoint", th.tf)]
    BY <1>4 DEF Execute
  <2> QED
    BY <1>2, <1>3, <1>4, <2>1, MoveTrapInv DEF Places, UnderWay
<1>5. CASE th.site \notin trap.int3 /\ th.tf
  <2>1. trap' = [trap EXCEPT !.threads = Put(t, "step", TRUE)]
    BY <1>5 DEF Execute
  <2>2. th.tf = TRUE
    BY <1>3, <1>5
  <2> QED
    BY <1>2, <2>1, <2>2, MoveTrapInv DEF Places, UnderWay
<1>6. CASE th.site \notin trap.int3 /\ ~th.tf
  <2>1. trap' = [trap EXCEPT !.threads = Put(t, "in", FALSE)]
    BY <1>6 DEF Execute
  <2>2. th.tf = FALSE
    BY <1>3, <1>6
  <2> QED
    BY <2>1, <2>2, MoveTrapInv DEF Places
<1> QED
  BY <1>4, <1>5, <1>6

LEMMA ReturnTrapInv ==
  ASSUME TrapInv, NEW t \in Callers, Return(t)
  PROVE  TrapInv'
<1> DEFINE th == trap.threads[t]
           to == IF th.tf THEN [th EXCEPT !.where = "dead"] ELSE Outside
           put == [trap.threads EXCEPT ![t] = to]
<1>1. TrapTypeOK /\ th \in ThreadStates /\ th.where = "in"
  BY DEF TrapInv, TrapTypeOK, Return, At
<1>2. to \in ThreadStates
  BY <1>1 DEF ThreadStates, Places, Outside
<1>3. ~trap.ended => to = Outside
  BY <1>1 DEF Done, TrapInv, ThreadsInv, UnderWay
<1>4. trap' = [trap EXCEPT !.threads = put]
  BY DEF Return
<1> HIDE DEF to
<1>5. /\ put \in [Callers -> ThreadStates] /\ put[t] = to
      /\ \A u \in Callers \ {t} : put[u] = trap.threads[u]
  BY <1>1, <1>2 DEF TrapTypeOK
<1> HIDE DEF put
<1>6. TrapTypeOK'
  BY <1>1, <1>4, <1>5 DEF TrapTypeOK
<1>7. /\ trap'.threads = put
      /\ trap'.int3 = trap.int3 /\ trap'.registered = trap.registered
      /\ trap'.handler = trap.handler /\ trap'.ended = trap.ended
      /\ trap'.arming = trap.arming /\ trap'.hits = trap.hits
  BY <1>1, <1>4 DEF TrapTypeOK
<1>8. ASSUME ~trap.ended PROVE SitesInv' /\ ThreadsInv' /\ BytesInv'
  <2>1. SitesInv /\ ThreadsInv /\ BytesInv /\ to.where = "outside" /\ to.tf = FALSE
    BY <1>3, <1>8 DEF TrapInv, Outside
  <2>2. SitesInv'
    BY <1>7, <2>1 DEF SitesInv
  <2>3. ThreadsInv'
    BY <1>5, <1>7, <2>1 DEF Done, ThreadsInv, At
  <2>4. ~th.tf
    BY <1>1, <2>1 DEF Done, ThreadsInv, UnderWay
  <2>5. BytesInv'
    <3> SUFFICES ASSUME NEW z \in trap.registered \ trap.arming
                 PROVE  /\ z \in OneShot => (z \in trap.int3 <=> z \notin trap.hits)
                        /\ z \in Persistent /\ z \notin trap.int3 =>
                             \E u \in Callers : put[u].site = z /\ put[u].tf
      BY <1>7 DEF BytesInv
    <3> QED
      BY <1>5, <2>1, <2>4 DEF BytesInv
  <2> QED
    BY <2>2, <2>3, <2>5
<1> QED
  BY <1>6, <1>7, <1>8 DEF TrapInv

(* A breakpoint: the site is registered and its handler there, the byte    *)
(* goes back, and of a persistent site the thread has the trap flag.       *)
LEMMA BreakpointTrapInv ==
  ASSUME TrapInv, NEW t \in Callers, OnBreakpoint(t)
  PROVE  TrapInv'
<1> DEFINE th == trap.threads[t]
           s == th.site
           tf == th.tf \/ s \in Persistent
<1>1. TrapTypeOK /\ th \in ThreadStates /\ th.where = "breakpoint"
  BY DEF TrapInv, TrapTypeOK, OnBreakpoint, At
<1>2. CASE trap.handler /\ s \in trap.registered
  <2> DEFINE put == Put(t, "before", tf)
  <2>1. trap' = [trap EXCEPT !.int3 = @ \ {s}, !.hits = @ \cup {s}, !.threads = put]
    BY <1>2 DEF OnBreakpoint
  <2>2. tf \in BOOLEAN /\ "before" \in Places
    BY <1>1 DEF ThreadStates, Places
  <2>3. /\ put \in [Callers -> ThreadStates]
        /\ put[t].where = "before" /\ put[t].tf = tf /\ put[t].site = s
        /\ \A u \in Callers \ {t} : put[u] = trap.threads[u]
    <3> HIDE DEF tf
    <3> QED
      BY <1>1, <2>2, PutPuts
  <2>t. tf <=> (th.tf \/ s \in Persistent)
    OBVIOUS
  <2> HIDE DEF tf
  <2>4. s \in Sites
    BY <1>1, <1>2 DEF TrapTypeOK
  <2> HIDE DEF put
  <2>5. TrapTypeOK'
    BY <1>1, <2>1, <2>3, <2>4 DEF TrapTypeOK
  <2>6. /\ trap'.threads = put /\ trap'.int3 = trap.int3 \ {s} /\ trap'.hits = trap.hits \cup {s}
        /\ trap'.registered = trap.registered /\ trap'.handler = trap.handler
        /\ trap'.ended = trap.ended /\ trap'.arming = trap.arming
    BY <1>1, <2>1 DEF TrapTypeOK
  <2>7. ASSUME ~trap.ended PROVE SitesInv' /\ ThreadsInv' /\ BytesInv'
    <3>1. SitesInv /\ ThreadsInv /\ BytesInv
      BY <2>7 DEF TrapInv
    <3>2. s \notin trap.arming
      BY <1>1, <3>1, <2>7 DEF Done, TrapInv, ThreadsInv, At
    <3>3. SitesInv'
      BY <1>2, <2>6, <3>1, <3>2 DEF SitesInv
    <3>4. ThreadsInv'
      BY <1>1, <1>2, <2>t, <2>3, <2>6, <3>1, <3>2 DEF Done, ThreadsInv, At, UnderWay
    <3>5. BytesInv'
      <4> SUFFICES ASSUME NEW z \in trap.registered \ trap.arming
                   PROVE  /\ z \in OneShot => (z \in trap'.int3 <=> z \notin trap'.hits)
                          /\ z \in Persistent /\ z \notin trap'.int3 =>
                               \E u \in Callers : put[u].site = z /\ put[u].tf
        BY <2>6 DEF BytesInv
      <4> QED
        BY <2>t, <2>3, <2>6, <3>1 DEF BytesInv
    <3> QED
      BY <3>3, <3>4, <3>5
  <2> QED
    BY <2>5, <2>6, <2>7 DEF TrapInv
<1>3. CASE ~(trap.handler /\ s \in trap.registered)
  <2>1. trap.ended
    BY <1>1, <1>3 DEF Done, TrapInv, ThreadsInv, SitesInv, At
  <2>2. trap' = [trap EXCEPT !.threads = Put(t, "dead", FALSE)]
    BY <1>3 DEF OnBreakpoint
  <2> QED
    BY <2>1, <2>2, MoveTrapInv DEF Places
<1> QED
  BY <1>2, <1>3

(* The step over a persistent site arms it again.                          *)
LEMMA SingleStepTrapInv ==
  ASSUME TrapInv, NEW t \in Callers, OnSingleStep(t)
  PROVE  TrapInv'
<1> DEFINE th == trap.threads[t]
           s == th.site
<1>1. TrapTypeOK /\ th \in ThreadStates /\ th.where = "step"
  BY DEF TrapInv, TrapTypeOK, OnSingleStep, At
<1>2. CASE trap.handler /\ s \in trap.registered \cap Persistent
  <2> DEFINE put == Put(t, "in", FALSE)
  <2>1. trap' = [trap EXCEPT !.int3 = @ \cup {s}, !.threads = put]
    BY <1>2 DEF OnSingleStep
  <2>2. "in" \in Places
    BY DEF Places
  <2>3. /\ put \in [Callers -> ThreadStates]
        /\ put[t].where = "in" /\ put[t].tf = FALSE /\ put[t].site = s
        /\ \A u \in Callers \ {t} : put[u] = trap.threads[u]
    BY <1>1, <2>2, PutPuts, ZenonT(30)
  <2>4. s \in Sites
    BY <1>1, <1>2 DEF TrapTypeOK
  <2> HIDE DEF put
  <2>5. TrapTypeOK'
    BY <1>1, <2>1, <2>3, <2>4 DEF TrapTypeOK
  <2>6. /\ trap'.threads = put /\ trap'.int3 = trap.int3 \cup {s} /\ trap'.hits = trap.hits
        /\ trap'.registered = trap.registered /\ trap'.handler = trap.handler
        /\ trap'.ended = trap.ended /\ trap'.arming = trap.arming
    BY <1>1, <2>1 DEF TrapTypeOK
  <2>7. ASSUME ~trap.ended PROVE SitesInv' /\ ThreadsInv' /\ BytesInv'
    <3>1. SitesInv /\ ThreadsInv /\ BytesInv
      BY <2>7 DEF TrapInv
    <3>2. s \notin trap.arming
      BY <1>1, <3>1, <2>7 DEF Done, TrapInv, ThreadsInv, At
    <3>3. SitesInv'
      BY <1>2, <2>6, <3>1, <3>2 DEF SitesInv
    <3>4. ThreadsInv'
      BY <1>1, <1>2, <2>3, <2>6, <3>1 DEF Done, ThreadsInv, At, UnderWay
    <3>5. s \notin OneShot
      BY <1>2, TrapAssumption
    <3>6. BytesInv'
      <4> SUFFICES ASSUME NEW z \in trap.registered \ trap.arming
                   PROVE  /\ z \in OneShot => (z \in trap'.int3 <=> z \notin trap'.hits)
                          /\ z \in Persistent /\ z \notin trap'.int3 =>
                               \E u \in Callers : put[u].site = z /\ put[u].tf
        BY <2>6 DEF BytesInv
      <4> QED
        BY <2>3, <2>6, <3>1, <3>5 DEF BytesInv
    <3> QED
      BY <3>3, <3>4, <3>6
  <2> QED
    BY <2>5, <2>6, <2>7 DEF TrapInv
<1>3. CASE ~(trap.handler /\ s \in trap.registered \cap Persistent)
  <2>1. trap.ended
    BY <1>1, <1>3 DEF Done, TrapInv, ThreadsInv, SitesInv, At
  <2>2. trap' = [trap EXCEPT !.threads = Put(t, "dead", FALSE)]
    BY <1>3 DEF OnSingleStep
  <2> QED
    BY <2>1, <2>2, MoveTrapInv DEF Places
<1> QED
  BY <1>2, <1>3

LEMMA EndTrapInv ==
  ASSUME TrapInv, DisarmAll \/ RemoveHandler
  PROVE  TrapInv'
<1>1. TrapTypeOK
  BY DEF TrapInv
<1>2. trap'.ended
  BY <1>1 DEF DisarmAll, RemoveHandler, TrapTypeOK
<1>3. TrapTypeOK'
  BY <1>1 DEF DisarmAll, RemoveHandler, TrapTypeOK
<1> QED
  BY <1>2, <1>3 DEF TrapInv

LEMMA NextTrapInv == TrapInv /\ [TrapNext]_trap => TrapInv'
<1> SUFFICES ASSUME TrapInv, [TrapNext]_trap PROVE TrapInv'
  OBVIOUS
<1>1. ASSUME NEW s \in Sites, Arm(s) PROVE TrapInv'
  BY <1>1, ArmTrapInv
<1>2. ASSUME NEW s \in Sites, NEW t \in Callers, Call(t, s) PROVE TrapInv'
  BY <1>2, CallTrapInv
<1>3. ASSUME NEW t \in Callers, Execute(t) \/ Return(t) PROVE TrapInv'
  BY <1>3, ExecuteTrapInv, ReturnTrapInv
<1>4. ASSUME NEW t \in Callers, OnBreakpoint(t) \/ OnSingleStep(t) PROVE TrapInv'
  BY <1>4, BreakpointTrapInv, SingleStepTrapInv
<1>5. ASSUME DisarmAll \/ RemoveHandler PROVE TrapInv'
  BY <1>5, EndTrapInv
<1>6. CASE UNCHANGED trap
  BY <1>6 DEF TrapInv, TrapTypeOK, SitesInv, ThreadsInv, BytesInv, At, Done
<1> QED
  BY <1>1, <1>2, <1>3, <1>4, <1>5, <1>6 DEF TrapNext

(* However many threads call however many trapped functions at any moment  *)
(* of the installation: none is killed by a trap, and the bytes settle.    *)
THEOREM TrapsAlwaysHold == TrapSpec => []TrapsHold
<1>1. TrapInv => TrapsHold
  <2> SUFFICES ASSUME TrapInv PROVE TrapsHold
    OBVIOUS
  <2>1. TrapsAreTaken
    BY DEF Done, TrapInv, ThreadsInv, TrapsAreTaken
  <2>2. ASSUME ~trap.ended, NEW s \in trap.registered \ trap.arming,
               \A t \in Callers : trap.threads[t].site = s
                                    => trap.threads[t].where \in {"outside", "in"}
        PROVE  s \in trap.int3 <=> (s \in Persistent \/ s \notin trap.hits)
    <3>1. SitesInv /\ ThreadsInv /\ BytesInv /\ s \in Sites
      BY <2>2 DEF TrapInv, TrapTypeOK
    <3>2. CASE s \in Persistent
      BY <2>2, <3>1, <3>2 DEF BytesInv, ThreadsInv, UnderWay
    <3>3. CASE s \in OneShot
      BY <2>2, <3>1, <3>3, TrapAssumption DEF BytesInv
    <3> QED
      BY <3>1, <3>2, <3>3 DEF Sites
  <2> QED
    BY <2>1, <2>2 DEF TrapsHold, BytesSettle
<1> QED
  BY <1>1, InitTrapInv, NextTrapInv, PTL DEF TrapSpec

-----------------------------------------------------------------------------

(* Rich presence.  The inductive invariant adds to the two properties that *)
(* the followed game is the one on top, and what the stored keys and the   *)
(* staged packet look like.  How the stack is made up does not matter.     *)
FollowsTop ==
  /\ g_PlayingAppId = Followed(stack)
  /\ g_HaveSelfCached \in BOOLEAN
  /\ g_InjectPending \in BOOLEAN
  /\ g_RPKvsByAppId \in [Unowned -> Keys]

PInv == FollowsTop /\ BannerOnItsWay /\ KeysOnTheirWay

(* A packet built for one of our games names it, and carries its keys if   *)
(* there are any.                                                          *)
LEMMA FieldsNameTheGame ==
  ASSUME NEW a \in Unowned, NEW kvs \in [Unowned -> Keys], NEW before
  PROVE  /\ Shown(before, GameFields(a, kvs)).app = a
         /\ kvs[a] # Empty => Shown(before, GameFields(a, kvs)).keys = kvs[a]
<1>1. a # NoApp
  BY PresenceAssumption DEF Apps
<1>2. kvs[a] # Untouched
  BY PresenceAssumption DEF Keys, Apps, Empty, Untouched
<1> QED
  BY <1>1, <1>2 DEF Shown, GameFields

LEMMA FollowedIsTop ==
  ASSUME NEW s
  PROVE  Followed(s) # NoApp <=> Top(s) \in Unowned
BY PresenceAssumption DEF Followed, Apps

LEMMA InitPInv == PresenceInit => PInv
<1> SUFFICES ASSUME PresenceInit PROVE PInv
  OBVIOUS
<1>1. Followed(stack) = NoApp
  BY PresenceAssumption DEF PresenceInit, Followed, Top, Apps
<1>2. g_RPKvsByAppId \in [Unowned -> Keys]
  BY DEF PresenceInit, Keys
<1> QED
  BY <1>1, <1>2 DEF PresenceInit, PInv, FollowsTop, BannerOnItsWay, KeysOnTheirWay

(* A GamesPlayed frame, whatever stack it lists.                           *)
LEMMA GamesPlayedPInv ==
  ASSUME PInv, NEW s, GamesPlayed(s)
  PROVE  PInv'
<1> USE DEF PInv
<1>1. /\ stack' = s /\ g_PlayingAppId' = Followed(s)
      /\ banner' = banner /\ g_RPKvsByAppId' = g_RPKvsByAppId
      /\ g_HaveSelfCached' = g_HaveSelfCached
  BY DEF GamesPlayed, TrackSend
<1>2. CASE g_PlayingAppId # Followed(s) /\ Top(s) \in Unowned /\ g_HaveSelfCached
  <2>1. /\ g_InjectPkt' = GameFields(Followed(s), g_RPKvsByAppId)
        /\ g_InjectPending' = TRUE
    BY <1>2 DEF GamesPlayed, TrackSend, Stage
  <2>2. Followed(s) = Top(s) /\ Followed(s) \in Unowned
    BY <1>2 DEF Followed
  <2>3. Coming' = Shown(banner', g_InjectPkt')
    BY <2>1 DEF Coming
  <2>4. /\ Coming'.app = Top(s)
        /\ g_RPKvsByAppId[Followed(s)] # Empty
             => Coming'.keys = g_RPKvsByAppId[Followed(s)]
    BY <2>1, <2>2, <2>3, FieldsNameTheGame DEF FollowsTop
  <2>5. FollowsTop'
    BY <1>1, <2>1 DEF FollowsTop
  <2>6. BannerOnItsWay'
    BY <1>1, <2>4 DEF BannerOnItsWay
  <2>7. KeysOnTheirWay'
    BY <1>1, <2>4 DEF KeysOnTheirWay
  <2> QED
    BY <2>5, <2>6, <2>7
<1>3. CASE g_PlayingAppId = Followed(s)
  <2>1. UNCHANGED <<g_InjectPkt, g_InjectPending>>
    BY <1>3 DEF GamesPlayed, TrackSend
  <2>2. Coming' = Coming
    BY <1>1, <2>1 DEF Coming
  <2>3. Top(s) \in Unowned => Top(stack) = Top(s)
    BY <1>3, FollowedIsTop DEF FollowsTop, Followed
  <2> QED
    BY <1>1, <1>3, <2>1, <2>2, <2>3
    DEF FollowsTop, BannerOnItsWay, KeysOnTheirWay
<1>4. CASE ~ (Top(s) \in Unowned /\ g_HaveSelfCached)
  <2>1. g_InjectPending' \in BOOLEAN
    BY DEF GamesPlayed, TrackSend, Stage, FollowsTop
  <2>2. g_PlayingAppId' # NoApp => Top(s) \in Unowned
    BY <1>1, FollowedIsTop
  <2> QED
    BY <1>1, <1>4, <2>1, <2>2 DEF FollowsTop, BannerOnItsWay, KeysOnTheirWay
<1> QED
  BY <1>2, <1>3, <1>4

LEMMA UploadPInv ==
  ASSUME PInv, NEW a \in Apps, Upload(a)
  PROVE  PInv'
<1> USE DEF PInv
<1> DEFINE on == g_PlayingAppId
<1>1. PICK keys \in {a, Empty} :
        g_RPKvsByAppId' = [g_RPKvsByAppId EXCEPT ![on] = keys]
  BY DEF Upload
<1>2. g_RPKvsByAppId' \in [Unowned -> Keys]
  BY <1>1 DEF FollowsTop, Keys
<1>3. /\ UNCHANGED <<stack, g_PlayingAppId, g_HaveSelfCached, banner>>
      /\ on # NoApp
  BY DEF Upload
<1>4. on = Top(stack) /\ on \in Unowned
  BY <1>3, FollowedIsTop DEF FollowsTop, Followed
<1>5. g_InjectPending' \in BOOLEAN
  BY DEF Upload, Stage, FollowsTop
<1>6. CASE g_HaveSelfCached
  <2>1. g_InjectPkt' = GameFields(on, g_RPKvsByAppId') /\ g_InjectPending' = TRUE
    BY <1>6 DEF Upload, Stage
  <2>2. Coming' = Shown(banner', g_InjectPkt')
    BY <2>1 DEF Coming
  <2>3. /\ Coming'.app = on
        /\ g_RPKvsByAppId'[on] # Empty => Coming'.keys = g_RPKvsByAppId'[on]
    BY <1>2, <1>4, <2>1, <2>2, FieldsNameTheGame
  <2> QED
    BY <1>2, <1>3, <1>4, <1>5, <2>3
    DEF FollowsTop, BannerOnItsWay, KeysOnTheirWay
<1>7. CASE ~g_HaveSelfCached
  BY <1>2, <1>3, <1>5, <1>7 DEF FollowsTop, BannerOnItsWay, KeysOnTheirWay
<1> QED
  BY <1>6, <1>7 DEF FollowsTop

LEMMA RecvOtherPInv ==
  ASSUME PInv, RecvOther
  PROVE  PInv'
<1>1. banner' = Coming /\ g_InjectPending' = FALSE
  BY DEF RecvOther, Injected, Coming
<1>2. Coming' = Coming
  BY <1>1 DEF Coming
<1> QED
  BY <1>1, <1>2
  DEF PInv, RecvOther, FollowsTop, BannerOnItsWay, KeysOnTheirWay

LEMMA RecvPushPInv ==
  ASSUME PInv, RecvPush
  PROVE  PInv'
<1> USE DEF PInv
<1>1. /\ g_InjectPending' = FALSE /\ g_HaveSelfCached' = TRUE
      /\ UNCHANGED <<stack, g_PlayingAppId, g_RPKvsByAppId>>
  BY DEF RecvPush
<1>2. Coming' = banner'
  BY <1>1 DEF Coming
<1>3. CASE g_PlayingAppId # NoApp
  <2>1. g_PlayingAppId = Top(stack) /\ g_PlayingAppId \in Unowned
    BY <1>3, FollowedIsTop DEF FollowsTop, Followed
  <2>2. banner' = Shown(Injected, GameFields(g_PlayingAppId, g_RPKvsByAppId))
    BY <1>3 DEF RecvPush
  <2>3. /\ banner'.app = g_PlayingAppId
        /\ g_RPKvsByAppId[g_PlayingAppId] # Empty
             => banner'.keys = g_RPKvsByAppId[g_PlayingAppId]
    BY <2>1, <2>2, FieldsNameTheGame DEF FollowsTop
  <2> QED
    BY <1>1, <1>2, <2>1, <2>3 DEF FollowsTop, BannerOnItsWay, KeysOnTheirWay
<1>4. CASE g_PlayingAppId = NoApp
  <2>1. Top(stack) \notin Unowned
    BY <1>4, FollowedIsTop DEF FollowsTop
  <2> QED
    BY <1>1, <1>4, <2>1 DEF FollowsTop, BannerOnItsWay, KeysOnTheirWay
<1> QED
  BY <1>3, <1>4

LEMMA NextPInv == PInv /\ [PresenceNext]_presence => PInv'
<1> SUFFICES ASSUME PInv, [PresenceNext]_presence PROVE PInv'
  OBVIOUS
<1>1. ASSUME NEW a \in Apps, Launch(a) \/ Quit(a)
      PROVE  PInv'
  BY <1>1, GamesPlayedPInv DEF Launch, Quit
<1>2. ASSUME NEW a \in Apps, Upload(a)
      PROVE  PInv'
  BY <1>2, UploadPInv
<1>3. CASE RecvOther
  BY <1>3, RecvOtherPInv
<1>4. CASE RecvPush
  BY <1>4, RecvPushPInv
<1>5. CASE UNCHANGED presence
  BY <1>5 DEF presence, PInv, FollowsTop, BannerOnItsWay, KeysOnTheirWay, Coming
<1> QED
  BY <1>1, <1>2, <1>3, <1>4, <1>5 DEF PresenceNext

LEMMA AlwaysPInv == PresenceSpec => []PInv
BY InitPInv, NextPInv, PTL DEF PresenceSpec

(* From the first real push on, the game of ours on top is on the banner   *)
(* or in the packet the next receive delivers.                             *)
THEOREM BannerNeverLost == PresenceSpec => []BannerOnItsWay
<1>1. PInv => BannerOnItsWay
  BY DEF PInv
<1> QED
  BY <1>1, AlwaysPInv, PTL

(* The same for the rich presence stored for it.                           *)
THEOREM KeysNeverLost == PresenceSpec => []KeysOnTheirWay
<1>1. PInv => KeysOnTheirWay
  BY DEF PInv
<1> QED
  BY <1>1, AlwaysPInv, PTL

(* Both at once.                                                           *)
THEOREM PresenceNeverLost == PresenceSpec => []PresenceOnItsWay
BY BannerNeverLost, KeysNeverLost, PTL DEF PresenceOnItsWay

-----------------------------------------------------------------------------

(* A start.  The inductive invariant says whose functions the files are    *)
(* that are kept, fetched and in use, and where a component that ought to  *)
(* be loaded is: in the cache until it is fetched, then in the file        *)
(* fetched, then in use.                                                   *)
Files == [of : Int, has : SUBSET Functions]

StartupTypeOK ==
  /\ client \in 1..MaxBuild
  /\ kept \in [Components -> [1..MaxBuild -> Files]]
  /\ phase \in {"off", "fetch", "keep", "parse", "hook", "report", "ready"}
  /\ work \in Components
  /\ fetched \in Files
  /\ inUse \in [Components -> Files]
  /\ hooked \subseteq Functions /\ owed \subseteq Components

IsFor(f, b) == f.has # {} => f.of = b

FilesInv ==
  /\ \A c \in Components, b \in 1..MaxBuild : IsFor(kept[c][b], b)
  /\ phase # "off" => /\ IsFor(fetched, client)
                      /\ \A c \in Components : inUse[c].of \in {0, client}
                      /\ \A c \in Components : inUse[c].of = 0 <=> inUse[c] = NoSpec

ToFetch == {c \in Components : \/ phase = "fetch" /\ c = work
                               \/ /\ phase \in {"fetch", "keep", "parse"}
                                  /\ c = "ipc" /\ work = "pattern"}
InWork == IF phase \in {"keep", "parse"} THEN {work} ELSE {}

OwedInv == phase # "off" => \A c \in owed :
  /\ c \in ToFetch => Usable(kept[c][client])
  /\ c \in InWork => Usable(fetched)
  /\ c \notin ToFetch \cup InWork => Usable(inUse[c])

(* A file in use has functions; the user has been told that the addresses  *)
(* are missing exactly once they are, and Required is hooked unless some   *)
(* function of it is.                                                      *)
ToldInv == phase # "off" =>
  /\ "pattern" \notin ToFetch \cup InWork => told = {} <=> Usable(inUse["pattern"])
  /\ "pattern" \in ToFetch \cup InWork => told = {} /\ ~Usable(inUse["pattern"])
  /\ phase \in {"report", "ready"} => hooked = inUse["pattern"].has
  /\ Usable(inUse["pattern"]) => inUse["pattern"].of # 0

StartInv == StartupTypeOK /\ FilesInv /\ OwedInv /\ (phase # "ready" => ToldInv) /\ ToldIffOff

LEMMA InitStartInv == StartupInit => StartInv
<1> SUFFICES ASSUME StartupInit PROVE StartInv
  OBVIOUS
<1>1. 1 \in 1..MaxBuild /\ NoSpec \in Files
  BY StartupAssumption DEF Files, NoSpec
<1>2. StartupTypeOK
  BY <1>1 DEF StartupInit, StartupTypeOK, AllKept, Components
<1>3. FilesInv
  BY DEF StartupInit, FilesInv, AllKept, IsFor, NoSpec
<1> QED
  BY <1>2, <1>3 DEF StartupInit, StartInv, OwedInv, ToldInv, ToldIffOff

LEMMA FilesOfTheClient ==
  ASSUME StartupTypeOK
  PROVE  /\ File(client) \in Files /\ Usable(File(client)) /\ IsFor(File(client), client)
         /\ Derived(client) \in Files /\ Usable(Derived(client)) /\ IsFor(Derived(client), client)
         /\ NoSpec \in Files /\ ~Usable(NoSpec) /\ Junk \in Files /\ ~Usable(Junk)
         /\ client \in Nat \ {0}
BY StartupAssumption DEF StartupTypeOK, Files, File, Derived, NoSpec, Junk, Usable, IsFor, Functions

(* Writing over one file of the cache.                                     *)
LEMMA KeepOne ==
  ASSUME StartupTypeOK, FilesInv, NEW f \in Files, IsFor(f, client),
         kept' = [kept EXCEPT ![work][client] = f]
  PROVE  /\ kept' \in [Components -> [1..MaxBuild -> Files]]
         /\ \A c \in Components, b \in 1..MaxBuild : IsFor(kept'[c][b], b)
         /\ kept'[work][client] = f
         /\ \A c \in Components \ {work} : kept'[c] = kept[c]
<1> DEFINE row == [kept[work] EXCEPT ![client] = f]
<1>1. /\ client \in 1..MaxBuild /\ work \in Components
      /\ kept \in [Components -> [1..MaxBuild -> Files]]
      /\ kept[work] \in [1..MaxBuild -> Files]
  BY DEF StartupTypeOK
<1>2. /\ row \in [1..MaxBuild -> Files] /\ row[client] = f
      /\ \A b \in (1..MaxBuild) \ {client} : row[b] = kept[work][b]
  BY <1>1
<1>3. kept' = [kept EXCEPT ![work] = row]
  OBVIOUS
<1> HIDE DEF row
<1>4. kept' \in [Components -> [1..MaxBuild -> Files]]
  BY <1>1, <1>2, <1>3
<1>5. kept'[work] = row /\ \A c \in Components \ {work} : kept'[c] = kept[c]
  BY <1>1, <1>3
<1>6. \A c \in Components, b \in 1..MaxBuild : IsFor(kept'[c][b], b)
  BY <1>1, <1>2, <1>5 DEF FilesInv
<1> QED
  BY <1>2, <1>4, <1>5, <1>6

LEMMA StartClientInv == StartInv /\ StartClient => StartInv'
<1> SUFFICES ASSUME StartInv, StartClient PROVE StartInv'
  OBVIOUS
<1>1. StartupTypeOK /\ FilesInv /\ NoSpec \in Files
  BY FilesOfTheClient DEF StartInv
<1>2. StartupTypeOK'
  BY <1>1 DEF StartClient, StartupTypeOK, World, Components
<1>3. FilesInv'
  BY <1>1 DEF StartClient, FilesInv, IsFor, World, NoSpec
<1>4. ToFetch' = Components /\ InWork' = {}
  BY DEF StartClient, ToFetch, InWork, Components
<1>5. OwedInv'
  BY <1>4 DEF StartClient, OwedInv, Usable, World
<1>6. ToldInv'
  BY <1>4 DEF StartClient, ToldInv, Components, Usable, NoSpec
<1> QED
  BY <1>2, <1>3, <1>5, <1>6 DEF StartInv, StartClient, ToldIffOff

(* While no client runs, it may be updated; upstream publishes any time.   *)
LEMMA WorldStartInv ==
  ASSUME StartInv, UpdateClient \/ (\E c \in Components : PublishFile(c)) \/ UNCHANGED startup
  PROVE  StartInv'
<1>1. CASE UpdateClient
  <2>1. client' \in 1..MaxBuild
    BY <1>1, StartupAssumption DEF UpdateClient, StartInv, StartupTypeOK
  <2> QED
    BY <1>1, <2>1 DEF UpdateClient, StartInv, StartupTypeOK, FilesInv, OwedInv, ToldInv, ToldIffOff
<1>2. CASE UNCHANGED <<client, kept, phase, work, fetched, retried, inUse, hooked, told, owed>>
  BY <1>2 DEF StartInv, StartupTypeOK, FilesInv, OwedInv, ToldInv, ToldIffOff, ToFetch, InWork
<1> QED
  BY <1>1, <1>2 DEF PublishFile, startup

(* The first mirror that answers with status 200 is the one taken.         *)
LEMMA FirstAnswerWins ==
  ASSUME NEW reply \in [Chain -> Answers(work)], NEW i \in Chain,
         Is200(reply[i]), \A j \in 1..(i - 1) : ~Is200(reply[j])
  PROVE  Winner200(reply) = reply[i]
<1> DEFINE hits == {j \in Chain : Is200(reply[j])}
<1>1. i \in hits /\ i \in Nat
  BY DEF Chain
<1>2. \A j \in hits : j \in Nat /\ i <= j
  BY <1>1 DEF Chain
<1>3. Min(hits) = i
  <2>1. \A m \in hits : (\A j \in hits : m <= j) => m = i
    BY <1>1, <1>2
  <2> HIDE DEF hits
  <2> QED
    BY <1>1, <1>2, <2>1 DEF Min
<1> QED
  BY <1>1, <1>3 DEF Winner200

LEMMA FetchInv == StartInv /\ Fetch => StartInv'
<1> SUFFICES ASSUME StartInv, Fetch PROVE StartInv'
  OBVIOUS
<1>1. StartupTypeOK /\ FilesInv /\ OwedInv /\ ToldInv /\ phase = "fetch"
  BY DEF StartInv, Fetch
<1>2. PICK reply \in [Chain -> Answers(work)] :
       LET got == Winner200(reply)
           use == IF got = "file" THEN File(client)
                  ELSE IF got = "page" THEN Junk ELSE KeptFor(work)
       IN /\ fetched' = use
          /\ phase' = IF got \in {"file", "page"} THEN "keep" ELSE "parse"
          /\ \E cut \in Starts(use) :
               kept' = IF got \in {"file", "page"}
                         THEN [kept EXCEPT ![work][client] = cut] ELSE kept
          /\ owed' = IF \E i \in Chain : reply[i] = "file" /\ \A j \in 1..(i - 1) : ~Is200(reply[j])
                       THEN owed \cup {work}
                     ELSE IF got = "page" THEN owed \ {work} ELSE owed
  BY DEF Fetch
<1> DEFINE got == Winner200(reply)
<1>3. fetched' \in Files /\ IsFor(fetched', client)
  <2>1. KeptFor(work) \in Files /\ IsFor(KeptFor(work), client)
    BY <1>1 DEF KeptFor, StartupTypeOK, FilesInv
  <2>2. IsFor(Junk, client)
    BY DEF Junk, IsFor
  <2> QED
    BY <1>1, <1>2, <2>1, <2>2, FilesOfTheClient
<1>4. PICK cut \in Starts(fetched') :
        kept' = IF got \in {"file", "page"} THEN [kept EXCEPT ![work][client] = cut] ELSE kept
  BY <1>2
<1>5. cut \in Files /\ IsFor(cut, client)
  <2>1. CASE cut = NoSpec
    BY <1>1, <2>1, FilesOfTheClient DEF NoSpec, IsFor
  <2>2. CASE \E part \in SUBSET fetched'.has \ {{}} : cut = [fetched' EXCEPT !.has = part]
    BY <1>3, <2>2 DEF Files, IsFor
  <2> QED
    BY <1>4, <2>1, <2>2 DEF Starts
<1>6. /\ kept' \in [Components -> [1..MaxBuild -> Files]]
      /\ \A c \in Components, b \in 1..MaxBuild : IsFor(kept'[c][b], b)
      /\ \A c \in Components \ {work} : kept'[c] = kept[c]
  <2>1. CASE got \in {"file", "page"}
    BY <1>1, <1>4, <1>5, <2>1, KeepOne
  <2>2. CASE got \notin {"file", "page"}
    BY <1>1, <1>4, <2>2 DEF StartupTypeOK, FilesInv
  <2> QED
    BY <2>1, <2>2
<1>7. UNCHANGED <<client, work, retried, inUse, hooked, told>>
  BY DEF Fetch, World
<1>8. phase' \in {"keep", "parse"}
  BY <1>2
<1>9. owed' \subseteq owed \cup {work} /\ work \in Components
  BY <1>1, <1>2 DEF StartupTypeOK
<1>10. StartupTypeOK'
  BY <1>1, <1>3, <1>6, <1>7, <1>8, <1>9 DEF StartupTypeOK
<1>11. FilesInv'
  BY <1>1, <1>3, <1>6, <1>7, <1>8 DEF FilesInv
<1>12. work \in owed' => Usable(fetched')
  <2>1. CASE \E i \in Chain : reply[i] = "file" /\ \A j \in 1..(i - 1) : ~Is200(reply[j])
    <3>1. got = "file"
      BY <2>1, FirstAnswerWins DEF Is200
    <3>2. fetched' = File(client)
      BY <1>2, <3>1
    <3> QED
      BY <1>1, <3>2, FilesOfTheClient
  <2>2. CASE /\ ~\E i \in Chain : reply[i] = "file" /\ \A j \in 1..(i - 1) : ~Is200(reply[j])
             /\ got # "page"
    <3>1. owed' = owed
      BY <1>2, <2>2
    <3>2. fetched' \in {File(client), kept[work][client]}
      BY <1>2, <2>2 DEF KeptFor
    <3>3. work \in owed => Usable(kept[work][client])
      BY <1>1 DEF OwedInv, ToFetch, StartupTypeOK
    <3> QED
      BY <1>1, <3>1, <3>2, <3>3, FilesOfTheClient
  <2>3. CASE /\ ~\E i \in Chain : reply[i] = "file" /\ \A j \in 1..(i - 1) : ~Is200(reply[j])
             /\ got = "page"
    BY <1>2, <2>3
  <2> QED
    BY <2>1, <2>2, <2>3
<1>13. /\ InWork' = {work} /\ InWork = {}
       /\ work \in ToFetch /\ ToFetch' = ToFetch \ {work}
  BY <1>1, <1>7, <1>8, <1>9 DEF ToFetch, InWork
<1>14. OwedInv'
  <2> SUFFICES ASSUME NEW c \in owed'
               PROVE  /\ c \in ToFetch' => Usable(kept'[c][client])
                      /\ c \in InWork' => Usable(fetched')
                      /\ c \notin ToFetch' \cup InWork' => Usable(inUse[c])
    BY <1>7 DEF OwedInv
  <2>1. CASE c = work
    BY <1>12, <1>13, <2>1
  <2>2. CASE c # work
    <3>1. c \in owed /\ kept'[c] = kept[c]
      BY <1>1, <1>6, <1>9, <2>2 DEF StartupTypeOK
    <3> QED
      BY <1>1, <1>13, <2>2, <3>1 DEF OwedInv
  <2> QED
    BY <2>1, <2>2
<1>15. ToldInv'
  <2>1. ToFetch' \cup InWork' = ToFetch \cup InWork
    BY <1>13
  <2> QED
    BY <1>1, <1>7, <1>8, <2>1 DEF ToldInv
<1> QED
  BY <1>8, <1>10, <1>11, <1>14, <1>15 DEF StartInv, ToldIffOff

LEMMA KeepInv == StartInv /\ Keep => StartInv'
<1> SUFFICES ASSUME StartInv, Keep PROVE StartInv'
  OBVIOUS
<1>1. /\ StartupTypeOK /\ FilesInv /\ OwedInv /\ ToldInv /\ phase = "keep"
      /\ fetched \in Files /\ IsFor(fetched, client)
  BY DEF StartInv, Keep, StartupTypeOK, FilesInv
<1>2. /\ kept' \in [Components -> [1..MaxBuild -> Files]]
      /\ \A c \in Components, b \in 1..MaxBuild : IsFor(kept'[c][b], b)
      /\ \A c \in Components \ {work} : kept'[c] = kept[c]
  BY <1>1, KeepOne DEF Keep
<1>3. /\ UNCHANGED <<client, work, fetched, retried, inUse, hooked, told, owed>>
      /\ phase' = "parse"
  BY DEF Keep, World
<1>4. StartupTypeOK'
  BY <1>1, <1>2, <1>3 DEF StartupTypeOK
<1>5. FilesInv'
  BY <1>1, <1>2, <1>3 DEF FilesInv
<1>6. ToFetch' = ToFetch /\ InWork' = InWork /\ work \notin ToFetch
  BY <1>1, <1>3 DEF ToFetch, InWork
<1>7. OwedInv'
  <2>1. \A c \in ToFetch : kept'[c] = kept[c]
    BY <1>2, <1>6 DEF ToFetch
  <2> QED
    BY <1>1, <1>3, <1>6, <2>1 DEF OwedInv
<1>8. ToldInv'
  BY <1>1, <1>3, <1>6 DEF ToldInv
<1> QED
  BY <1>3, <1>4, <1>5, <1>7, <1>8 DEF StartInv, ToldIffOff

(* The file is taken into use, or not, and the next component's turn comes.*)
LEMMA NextWork ==
  ASSUME StartInv, phase = "parse", NextComponent
  PROVE  /\ phase' \in {"fetch", "hook"} /\ work' \in Components
         /\ work \in Components /\ InWork = {work} /\ InWork' = {}
         /\ ToFetch' = ToFetch /\ work \notin ToFetch
BY DEF NextComponent, StartInv, StartupTypeOK, InWork, ToFetch, Components

LEMMA LoadStartInv == StartInv /\ LoadOK => StartInv'
<1> SUFFICES ASSUME StartInv, LoadOK PROVE StartInv'
  OBVIOUS
<1>1. /\ StartupTypeOK /\ FilesInv /\ OwedInv /\ ToldInv /\ phase = "parse"
      /\ fetched \in Files /\ Usable(fetched)
  BY DEF StartInv, LoadOK, StartupTypeOK
<1>2. /\ phase' \in {"fetch", "hook"} /\ work' \in Components
      /\ work \in Components /\ InWork = {work} /\ InWork' = {}
      /\ ToFetch' = ToFetch /\ work \notin ToFetch
  BY NextWork DEF LoadOK
<1>3. UNCHANGED <<client, kept, fetched, retried, hooked, told, owed>>
  BY DEF LoadOK, World
<1>4. /\ inUse' \in [Components -> Files] /\ inUse'[work] = fetched
      /\ \A c \in Components \ {work} : inUse'[c] = inUse[c]
  BY <1>1, <1>2 DEF LoadOK, StartupTypeOK
<1>5. fetched.of = client /\ client # 0 /\ fetched # NoSpec
  BY <1>1, FilesOfTheClient DEF FilesInv, IsFor, Usable
<1>6. StartupTypeOK'
  BY <1>1, <1>2, <1>3, <1>4 DEF StartupTypeOK
<1>7. FilesInv'
  BY <1>1, <1>2, <1>3, <1>4, <1>5 DEF FilesInv
<1>8. OwedInv'
  BY <1>1, <1>2, <1>3, <1>4 DEF OwedInv, StartupTypeOK
<1>9. ToldInv'
  <2>1. "pattern" \in Components
    BY DEF Components
  <2>2. CASE work = "pattern"
    BY <1>1, <1>2, <1>3, <1>4, <1>5, <2>2 DEF ToldInv
  <2>3. CASE work # "pattern"
    BY <1>1, <1>2, <1>3, <1>4, <2>1, <2>3 DEF ToldInv
  <2> QED
    BY <2>2, <2>3
<1> QED
  BY <1>2, <1>6, <1>7, <1>8, <1>9 DEF StartInv, ToldIffOff

LEMMA LoadFailsInv == StartInv /\ LoadFails => StartInv'
<1> SUFFICES ASSUME StartInv, LoadFails PROVE StartInv'
  OBVIOUS
<1>1. /\ StartupTypeOK /\ FilesInv /\ OwedInv /\ ToldInv /\ phase = "parse"
      /\ ~Usable(fetched)
  BY DEF StartInv, LoadFails
<1>2. /\ phase' \in {"fetch", "hook"} /\ work' \in Components
      /\ work \in Components /\ InWork = {work} /\ InWork' = {}
      /\ ToFetch' = ToFetch /\ work \notin ToFetch
  BY NextWork DEF LoadFails
<1>3. UNCHANGED <<client, kept, fetched, retried, inUse, hooked, owed>>
  BY DEF LoadFails, World
<1>4. StartupTypeOK' /\ FilesInv'
  BY <1>1, <1>2, <1>3 DEF StartupTypeOK, FilesInv
<1>5. OwedInv'
  BY <1>1, <1>2, <1>3 DEF OwedInv
<1>6. ToldInv'
  <2>1. CASE work = "pattern"
    BY <1>1, <1>2, <1>3, <2>1 DEF ToldInv, LoadFails
  <2>2. CASE work # "pattern"
    BY <1>1, <1>2, <1>3, <2>2 DEF ToldInv, LoadFails
  <2> QED
    BY <2>1, <2>2
<1> QED
  BY <1>2, <1>4, <1>5, <1>6 DEF StartInv, ToldIffOff

LEMMA RegenerateInv == StartInv /\ Regenerate => StartInv'
<1> SUFFICES ASSUME StartInv, Regenerate PROVE StartInv'
  OBVIOUS
<1>1. /\ StartupTypeOK /\ FilesInv /\ OwedInv /\ ToldInv /\ phase = "parse"
      /\ ~Usable(fetched) /\ work = "pattern" /\ work \in Components
  BY DEF StartInv, Regenerate, StartupTypeOK
<1>2. /\ UNCHANGED <<client, work, fetched, inUse, hooked, told>>
      /\ phase' = "fetch"
  BY DEF Regenerate, World
<1>3. /\ ToFetch' = ToFetch \cup {work} /\ InWork = {work} /\ InWork' = {}
  BY <1>1, <1>2 DEF ToFetch, InWork, Components
<1>4. work \notin owed
  BY <1>1, <1>3 DEF OwedInv, ToFetch
<1>5. CASE kept' = [kept EXCEPT ![work][client] = Derived(client)] /\ owed' = owed \cup {work}
  <2>1. /\ kept' \in [Components -> [1..MaxBuild -> Files]]
        /\ \A c \in Components, b \in 1..MaxBuild : IsFor(kept'[c][b], b)
        /\ kept'[work][client] = Derived(client)
        /\ \A c \in Components \ {work} : kept'[c] = kept[c]
    BY <1>1, <1>5, KeepOne, FilesOfTheClient
  <2>2. Usable(Derived(client))
    BY <1>1, FilesOfTheClient
  <2>3. StartupTypeOK'
    BY <1>1, <1>2, <1>5, <2>1 DEF StartupTypeOK
  <2>4. FilesInv'
    BY <1>1, <1>2, <2>1 DEF FilesInv
  <2>5. OwedInv'
    BY <1>1, <1>2, <1>3, <1>5, <2>1, <2>2 DEF OwedInv, StartupTypeOK
  <2>6. ToldInv'
    BY <1>1, <1>2, <1>3 DEF ToldInv
  <2> QED
    BY <1>2, <2>3, <2>4, <2>5, <2>6 DEF StartInv, ToldIffOff
<1>6. CASE UNCHANGED <<kept, owed>>
  <2>1. StartupTypeOK' /\ FilesInv'
    BY <1>1, <1>2, <1>6 DEF StartupTypeOK, FilesInv
  <2>2. OwedInv'
    BY <1>1, <1>2, <1>3, <1>4, <1>6 DEF OwedInv
  <2>3. ToldInv'
    BY <1>1, <1>2, <1>3 DEF ToldInv
  <2> QED
    BY <1>2, <2>1, <2>2, <2>3 DEF StartInv, ToldIffOff
<1> QED
  BY <1>5, <1>6 DEF Regenerate

LEMMA HookStartInv == StartInv /\ CoreHook => StartInv'
<1> SUFFICES ASSUME StartInv, CoreHook PROVE StartInv'
  OBVIOUS
<1>1. StartupTypeOK /\ FilesInv /\ OwedInv /\ ToldInv /\ phase = "hook"
  BY DEF StartInv, CoreHook
<1>2. /\ UNCHANGED <<client, kept, work, fetched, retried, inUse, told, owed>>
      /\ phase' = "report" /\ hooked' = inUse["pattern"].has
  BY DEF CoreHook, World, Attached
<1>3. inUse["pattern"] \in Files
  BY <1>1 DEF StartupTypeOK, Components
<1>4. StartupTypeOK' /\ FilesInv'
  BY <1>1, <1>2, <1>3 DEF StartupTypeOK, FilesInv, Files
<1>5. ToFetch' = ToFetch /\ InWork' = InWork
  BY <1>1, <1>2 DEF ToFetch, InWork
<1>6. OwedInv'
  BY <1>1, <1>2, <1>5 DEF OwedInv
<1>7. ToldInv'
  BY <1>1, <1>2, <1>5 DEF ToldInv
<1> QED
  BY <1>2, <1>4, <1>6, <1>7 DEF StartInv, ToldIffOff

LEMMA ReportStartInv == StartInv /\ ReportMissingFunctions => StartInv'
<1> SUFFICES ASSUME StartInv, ReportMissingFunctions PROVE StartInv'
  OBVIOUS
<1>1. StartupTypeOK /\ FilesInv /\ OwedInv /\ ToldInv /\ phase = "report"
  BY DEF StartInv, ReportMissingFunctions
<1>2. /\ UNCHANGED <<client, kept, work, fetched, retried, inUse, hooked, owed>>
      /\ phase' = "ready"
  BY DEF ReportMissingFunctions, World
<1>3. ToFetch' = {} /\ InWork' = {} /\ ToFetch = {} /\ InWork = {}
  BY <1>1, <1>2 DEF ToFetch, InWork
<1>4. StartupTypeOK' /\ FilesInv' /\ OwedInv'
  BY <1>1, <1>2, <1>3 DEF StartupTypeOK, FilesInv, OwedInv
<1> DEFINE used == inUse["pattern"]
<1>5. /\ told = {} <=> Usable(used)
      /\ hooked = used.has /\ (Usable(used) => used # NoSpec)
  BY <1>1, <1>3 DEF ToldInv, NoSpec, Usable
<1>6. told' # {} <=> ~(Required \subseteq hooked)
  <2>1. CASE Usable(used)
    <3>1. Missing = Functions \ hooked
      BY <1>5, <2>1 DEF Missing
    <3>2. Missing \cap Required # {} <=> ~(Required \subseteq hooked)
      BY <3>1 DEF Functions
    <3>3. told = {}
      BY <1>5, <2>1
    <3>4. told' = IF Missing \cap Required # {} THEN told \cup {"missing"} ELSE told
      BY DEF ReportMissingFunctions
    <3> QED
      BY <3>2, <3>3, <3>4
  <2>2. CASE ~Usable(used)
    <3>1. told # {} /\ told \subseteq told'
      BY <1>5, <2>2 DEF ReportMissingFunctions
    <3>2. hooked = {} /\ Required # {}
      BY <1>5, <2>2, StartupAssumption DEF Usable
    <3> QED
      BY <3>1, <3>2
  <2> QED
    BY <2>1, <2>2
<1> QED
  BY <1>2, <1>4, <1>6 DEF StartInv, ToldIffOff

LEMMA StopStartInv == StartInv /\ StopClient => StartInv'
BY DEF StartInv, StopClient, World, StartupTypeOK, FilesInv, OwedInv, ToldInv, ToldIffOff

(* Whatever Steam's updates, the mirrors, the pages in their place, the    *)
(* generator and kills between two steps do: a start loads what there is   *)
(* for the client that runs, and tells the user what it lacks.             *)
THEOREM StartsAreWhole == StartupSpec => []StartIsWhole
<1>1. StartInv /\ [StartupNext]_startup => StartInv'
  BY StartClientInv, WorldStartInv, FetchInv, KeepInv, LoadStartInv, LoadFailsInv,
     RegenerateInv, HookStartInv, ReportStartInv, StopStartInv DEF StartupNext
<1>2. StartInv => StartIsWhole
  <2> SUFFICES ASSUME StartInv PROVE StartIsWhole
    OBVIOUS
  <2>1. LoadedForThisClient
    BY DEF StartInv, FilesInv, LoadedForThisClient
  <2>2. WhatIsThereIsLoaded
    BY DEF StartInv, OwedInv, WhatIsThereIsLoaded, ToFetch, InWork
  <2> QED
    BY <2>1, <2>2 DEF StartIsWhole, StartInv
<1> QED
  BY <1>1, <1>2, InitStartInv, PTL DEF StartupSpec

-----------------------------------------------------------------------------

(* The staged update.  The module is whole under its own name until it is  *)
(* moved aside, and under the other from there until the swap has ended.   *)
StagedInv ==
  /\ AWholeModuleIsLeft
  /\ step \in {"check", "ask", "fetch", "aside"} => self \in Builds
  /\ step \in {"open", "write", "restore"} => old \in Builds

LEMMA InitStagedInv == StagedInit => StagedInv
BY StagedAssumption DEF StagedInit, StagedInv, AWholeModuleIsLeft

LEMMA StepStagedInv ==
  ASSUME StagedInv, [StagedNext]_staged
  PROVE  StagedInv'
<1> USE DEF StagedInv, AWholeModuleIsLeft
<1>1. CASE StartModule
  BY <1>1 DEF StartModule
<1>2. ASSUME NEW b \in Builds, PublishBuild(b) PROVE StagedInv'
  BY <1>2 DEF PublishBuild
<1>3. CASE CleanupStagedBackup
  BY <1>3 DEF CleanupStagedBackup
<1>4. CASE Check
  BY <1>4 DEF Check
<1>5. CASE Download
  BY <1>5 DEF Download
<1>6. CASE MoveAside
  BY <1>6 DEF MoveAside
<1>7. CASE OpenModule
  BY <1>7 DEF OpenModule
<1>8. CASE WriteModule
  BY <1>8 DEF WriteModule
<1>9. CASE RestoreModule
  BY <1>9 DEF RestoreModule
<1>10. CASE StopModule
  BY <1>10 DEF StopModule
<1>11. CASE UNCHANGED staged
  BY <1>11 DEF staged
<1> QED
  BY <1>1, <1>2, <1>3, <1>4, <1>5, <1>6, <1>7, <1>8, <1>9, <1>10, <1>11 DEF StagedNext

(* Whatever is published, however a mirror answers and wherever a swap is  *)
(* cut off, a whole module is left under one of the two names.             *)
THEOREM SwapsLeaveAModule == StagedSpec => []AWholeModuleIsLeft
<1>1. StagedInv => AWholeModuleIsLeft
  BY DEF StagedInv
<1> QED
  BY InitStagedInv, StepStagedInv, <1>1, PTL DEF StagedSpec

-----------------------------------------------------------------------------

(* Updating.  Steam's keys are those on disk as long as no helper writes   *)
(* under it, and none does under a Steam that did not come up that way:    *)
(* what it writes at its exit is then what was on disk.                    *)
Writing == {h \in Helpers : helper[h] = "writing"}
KeysInv ==
  /\ under \in BOOLEAN
  /\ steam /\ ~under => loadedKeys = keyed /\ Writing = {}

UInv == UpdateTypeOK /\ KeysInv /\ clicks \in Nat /\ trouble \in Nat

LEMMA ReleasesInOrder ==
  /\ DOMAIN Releases \subseteq Nat /\ 1 \in DOMAIN Releases
  /\ \A v \in DOMAIN Releases : v < Len(Releases) => v + 1 \in DOMAIN Releases
BY UpdateAssumption

LEMMA InitUInv == UpdateInit => UInv
<1> SUFFICES ASSUME UpdateInit PROVE UInv
  OBVIOUS
<1>1. UpdateTypeOK
  BY ReleasesInOrder DEF UpdateInit, UpdateTypeOK, Helpers, NoStatus, NoVersion
<1>2. KeysInv
  BY DEF UpdateInit, KeysInv
<1> QED
  BY <1>1, <1>2 DEF UInv, UpdateInit

(* The checkout is where it was, or at the newest version.                 *)
LEMMA PulledIsBetween ==
  ASSUME UInv, NEW reachable \in BOOLEAN
  PROVE  Pulled(reachable) \in {source, remote}
BY DEF Pulled

HelperStates == [Helpers -> {"idle", "started", "closing", "work", "writing"}]

(* A helper that is started, or is not.                                    *)
LEMMA LaunchTypes ==
  ASSUME UInv, NEW h \in Helpers, LaunchHelper(h)
  PROVE  helper' \in HelperStates /\ Writing' \subseteq Writing /\ trouble' \in Nat
BY DEF UInv, UpdateTypeOK, LaunchHelper, Trouble, HelperStates, Writing

LEMMA SyncTypes ==
  ASSUME UInv, MaybeSyncDepotKeys
  PROVE  helper' \in HelperStates /\ Writing' \subseteq Writing /\ trouble' \in Nat
<1>1. "keys" \in Helpers
  BY DEF Helpers
<1> QED
  BY <1>1, LaunchTypes DEF MaybeSyncDepotKeys, UInv, UpdateTypeOK, HelperStates, Writing

(* Steam, games, manifests, the branch and the switches.                   *)
LEMMA SessionUInv ==
  ASSUME UInv,
         \/ StartSteam \/ StartUnderHelper \/ QuitSteam \/ StartGame \/ StopGame
         \/ PublishVersion \/ (\E d \in Depots : AddManifest(d)) \/ JsonAutoInstall
  PROVE  UInv'
<1> USE DEF UInv
<1>1. CASE StartSteam \/ StartUnderHelper
  <2>1. UpdateTypeOK' /\ clicks' \in Nat /\ trouble' \in Nat
    <3>1. CASE StartSteam
      BY <3>1 DEF StartSteam, SteamUp, UpdateTypeOK, Trees, Switches
    <3>2. CASE StartUnderHelper
      BY <3>2 DEF StartUnderHelper, SteamUp, UpdateTypeOK, Trees, Switches, Click
    <3> QED
      BY <1>1, <3>1, <3>2
  <2>2. KeysInv'
    BY <1>1 DEF StartSteam, StartUnderHelper, SteamUp, KeysInv, Writing
  <2> QED
    BY <2>1, <2>2
<1>2. CASE QuitSteam
  BY <1>2 DEF QuitSteam, SteamDown, UpdateTypeOK, KeysInv, Trees, Switches
<1>3. CASE StartGame \/ StopGame \/ JsonAutoInstall
  BY <1>3 DEF StartGame, StopGame, JsonAutoInstall, UpdateTypeOK, KeysInv, Writing, Trees,
              Switches, KeyState, Click
<1>4. CASE PublishVersion
  <2>1. remote' \in DOMAIN Releases
    BY <1>4, ReleasesInOrder DEF PublishVersion, UpdateTypeOK
  <2> QED
    BY <1>4, <2>1 DEF PublishVersion, UpdateTypeOK, KeysInv, Writing, KeyState
<1>5. CASE \E d \in Depots : AddManifest(d)
  BY <1>5 DEF AddManifest, UpdateTypeOK, KeysInv, Writing, Trees, Switches
<1> QED
  BY <1>1, <1>2, <1>3, <1>4, <1>5

(* The thread and the two buttons: they start helpers, and none writes.    *)
LEMMA ThreadUInv ==
  ASSUME UInv, LookAround \/ Looks \/ Pull \/ JsonSourceApply \/ JsonKeySync
  PROVE  UInv' /\ KeyState' = KeyState
<1> USE DEF UInv
<1> DEFINE Kept == UNCHANGED <<remote, installed, running, steam, status, KeyState>>
<1>0. "keys" \in Helpers /\ "update" \in Helpers /\ \A r \in BOOLEAN : Pulled(r) \in {source, remote}
  BY PulledIsBetween DEF Helpers
<1>1. SUFFICES /\ Kept /\ source' \in {source, remote}
               /\ thread' = thread \/ (thread # "off" /\ thread' \in {"off", "check", "pull"})
               /\ helper' \in HelperStates /\ Writing' \subseteq Writing
               /\ clicks' \in Nat /\ trouble' \in Nat
  <2>1. ASSUME /\ Kept /\ source' \in {source, remote}
               /\ thread' = thread \/ (thread # "off" /\ thread' \in {"off", "check", "pull"})
               /\ helper' \in HelperStates /\ Writing' \subseteq Writing
               /\ clicks' \in Nat /\ trouble' \in Nat
        PROVE  UInv' /\ KeyState' = KeyState
    <3>1. UpdateTypeOK'
      BY <2>1 DEF UpdateTypeOK, KeyState, HelperStates
    <3>2. KeysInv'
      BY <2>1 DEF KeysInv, KeyState
    <3> QED
      BY <2>1, <3>1, <3>2
  <2> QED
    BY <2>1
<1>2. CASE LookAround
  <2>1. helper' \in HelperStates /\ Writing' \subseteq Writing /\ trouble' \in Nat
    BY <1>2, SyncTypes DEF LookAround, UpdateTypeOK, HelperStates, Writing
  <2> QED
    BY <1>2, <2>1 DEF LookAround, ThreadOnly, KeyState
<1>3. CASE Looks
  <2>1. PICK net \in {"version", "commit", "nothing"} : CheckSource(net)
    BY <1>3 DEF Looks
  <2>2. helper' \in HelperStates /\ Writing' \subseteq Writing /\ trouble' \in Nat
    BY <2>1, SyncTypes DEF CheckSource, UpdateTypeOK, HelperStates, Trouble, Writing
  <2> QED
    BY <2>1, <2>2 DEF CheckSource, ThreadOnly, KeyState
<1>4. CASE Pull
  <2>1. PICK reachable \in BOOLEAN : PullSource(reachable)
    BY <1>4 DEF Pull
  <2>2. helper' \in HelperStates /\ Writing' \subseteq Writing /\ trouble' \in Nat
    BY <1>0, <2>1, SyncTypes, LaunchTypes DEF PullSource, UpdateTypeOK, HelperStates, Trouble, Writing
  <2> QED
    BY <1>0, <2>1, <2>2 DEF PullSource, ThreadOnly, KeyState
<1>5. CASE JsonSourceApply
  <2>1. helper' \in HelperStates /\ Writing' \subseteq Writing /\ trouble' \in Nat
    BY <1>0, <1>5, LaunchTypes DEF JsonSourceApply, UpdateTypeOK, HelperStates, Writing
  <2>2. source' \in {source, remote}
    BY <1>0, <1>5 DEF JsonSourceApply
  <2>3. clicks' \in Nat
    BY <1>5 DEF JsonSourceApply, Click
  <2> QED
    BY <1>5, <2>1, <2>2, <2>3 DEF JsonSourceApply, KeyState
<1>6. CASE JsonKeySync
  <2>1. helper' \in HelperStates /\ Writing' \subseteq Writing /\ trouble' \in Nat
    BY <1>0, <1>6, LaunchTypes DEF JsonKeySync
  <2> QED
    BY <1>6, <2>1 DEF JsonKeySync, KeyState, Trees, Click
<1> QED
  BY <1>2, <1>3, <1>4, <1>5, <1>6

(* The end of a helper: Steam is up, as it was if it was and else with the *)
(* keys on disk; and one that was writing under it is not reckoned with.   *)
LEMMA EndKeepsInv ==
  ASSUME UInv, NEW h \in Helpers, NEW result \in {"ok", "failed"}, helper[h] = "writing",
         Restarted(h), FinishWith(h, result), installed' \in {installed, source},
         keyed \subseteq keyed', keyed' \subseteq wanted,
         UNCHANGED <<remote, source, wanted>>, clicks' \in Nat, trouble' \in Nat
  PROVE  UInv'
<1> USE DEF UInv
<1>1. UpdateTypeOK'
  BY DEF UpdateTypeOK, Restarted, FinishWith
<1>2. Writing' = Writing \ {h}
  BY DEF Writing, FinishWith, UpdateTypeOK
<1>3. CASE steam
  <2>1. under
    BY <1>3 DEF KeysInv, Writing
  <2> QED
    BY <1>1, <1>3, <2>1 DEF KeysInv, Restarted
<1>4. CASE ~steam
  <2>1. under' = (Writing \ {h} # {}) /\ loadedKeys' = keyed'
    BY <1>4 DEF Restarted, Writing
  <2> QED
    BY <1>1, <1>2, <2>1 DEF KeysInv
<1> QED
  BY <1>3, <1>4

(* The helpers: no key is taken from the disk but by the Steam they close. *)
LEMMA HelperUInv ==
  ASSUME UInv, HelperSteps
  PROVE  UInv' /\ (keyed \subseteq keyed' \/ under)
<1> USE DEF UInv
<1>0. /\ source \in DOMAIN Releases /\ "keys" \in Helpers /\ "update" \in Helpers
      /\ keyed \subseteq wanted /\ helper \in HelperStates
  BY DEF UpdateTypeOK, Helpers, HelperStates
<1>1. ASSUME NEW h \in Helpers, HelperStarts(h) PROVE UInv' /\ keyed' = keyed
  <2>1. Writing' = Writing
    BY <1>0, <1>1 DEF HelperStarts, Writing, HelperStates
  <2> QED
    BY <1>1, <2>1 DEF HelperStarts, UpdateTypeOK, KeysInv, Trees, Switches, KeyState, NoVersion
<1>2. ASSUME NEW h \in Helpers, SteamCloses(h) PROVE UInv' /\ (keyed \subseteq keyed' \/ under)
  <2>1. UpdateTypeOK'
    BY <1>2 DEF SteamCloses, SteamDown, UpdateTypeOK, Trees, Switches
  <2>2. CASE steam
    BY <1>2, <2>1, <2>2 DEF SteamCloses, SteamDown, KeysInv
  <2>3. CASE ~steam
    BY <1>2, <2>1, <2>3 DEF SteamCloses, KeysInv
  <2> QED
    BY <2>2, <2>3
<1>3. ASSUME NEW h \in Helpers, SteamStays(h) \/ HelperRefuses(h) PROVE UInv' /\ keyed' = keyed
  <2>1. Writing' \subseteq Writing
    BY <1>0, <1>3 DEF SteamStays, HelperRefuses, FinishWith, Writing, HelperStates
  <2> QED
    BY <1>3, <2>1 DEF SteamStays, HelperRefuses, FinishWith, UpdateTypeOK, KeysInv, Trees,
                      Switches, KeyState, Trouble
<1>4. ASSUME NEW h \in Helpers, HelperBegins(h) PROVE UInv' /\ keyed' = keyed
  BY <1>4 DEF HelperBegins, UpdateTypeOK, KeysInv, Trees, Switches, KeyState
<1>5. keyed \subseteq Synced /\ (wanted' = wanted => Synced \subseteq wanted')
  BY <1>0 DEF Synced
<1>6. ASSUME InstallerDone PROVE UInv' /\ keyed \subseteq keyed'
  <2>1. keyed' \in {keyed, Synced} /\ trouble' \in Nat
    BY <1>6 DEF InstallerDone, KeysInInstaller, Trouble
  <2> QED
    BY <1>0, <1>5, <1>6, <2>1, EndKeepsInv DEF InstallerDone
<1>7. ASSUME BuildFails PROVE UInv' /\ keyed \subseteq keyed'
  BY <1>0, <1>7, EndKeepsInv DEF BuildFails
<1>8. ASSUME InstallerFails PROVE UInv' /\ keyed \subseteq keyed'
  <2>1. keyed' \in {keyed, Synced} /\ trouble' \in Nat
    BY <1>8 DEF InstallerFails, Trouble
  <2> QED
    BY <1>0, <1>5, <1>8, <2>1, EndKeepsInv DEF InstallerFails
<1>9. ASSUME KeysWritten PROVE UInv' /\ keyed \subseteq keyed'
  BY <1>0, <1>5, <1>9, EndKeepsInv DEF KeysWritten
<1>10. ASSUME KeysFail PROVE UInv' /\ keyed \subseteq keyed'
  <2>1. trouble' \in Nat
    BY <1>10 DEF KeysFail, Trouble
  <2> QED
    BY <1>0, <1>10, <2>1, EndKeepsInv DEF KeysFail
<1> QED
  BY <1>1, <1>2, <1>3, <1>4, <1>6, <1>7, <1>8, <1>9, <1>10 DEF HelperSteps

LEMMA NextUInv == UInv /\ [UpdateNext]_update => UInv'
<1> SUFFICES ASSUME UInv, [UpdateNext]_update PROVE UInv'
  OBVIOUS
<1>1. CASE UNCHANGED update
  BY <1>1 DEF update, UInv, UpdateTypeOK, KeysInv, Writing
<1> QED
  BY <1>1, SessionUInv, ThreadUInv, HelperUInv DEF UpdateNext

LEMMA AlwaysUInv == UpdateSteps => []UInv
BY InitUInv, NextUInv, PTL DEF UpdateSteps

(* Whatever is published, pressed, added or failing, whoever starts Steam  *)
(* and whichever helper the other one crosses: a key that was written is   *)
(* there after every exit of Steam, but of one that came up under a writer.*)
THEOREM KeysAreKept == UpdateSteps => KeysStayWritten
<1>1. ASSUME UInv, UpdateNext PROVE keyed \subseteq keyed' \/ under
  <2>1. CASE StartSteam \/ StartUnderHelper \/ StartGame \/ StopGame \/ PublishVersion
             \/ (\E d \in Depots : AddManifest(d)) \/ JsonAutoInstall
    BY <2>1 DEF StartSteam, StartUnderHelper, StartGame, StopGame, PublishVersion, AddManifest,
                JsonAutoInstall, KeyState
  <2>2. CASE QuitSteam
    BY <1>1, <2>2 DEF QuitSteam, SteamDown, UInv, KeysInv
  <2>3. CASE LookAround \/ Looks \/ Pull \/ JsonSourceApply \/ JsonKeySync
    BY <1>1, <2>3, ThreadUInv DEF KeyState
  <2>4. CASE HelperSteps
    BY <1>1, <2>4, HelperUInv
  <2> QED
    BY <1>1, <2>1, <2>2, <2>3, <2>4 DEF UpdateNext
<1>2. UInv /\ [UpdateNext]_update => [keyed \subseteq keyed' \/ under]_update
  BY <1>1
<1> QED
  BY <1>2, AlwaysUInv, PTL DEF UpdateSteps, KeysStayWritten

Resting == [h \in Helpers |-> "idle"]

(* A helper started, or a start that failed.                               *)
LEMMA SyncIsSeen ==
  ASSUME UInv, autoSync, Pending # {}, MaybeSyncDepotKeys
  PROVE  helper' # Resting \/ trouble' # trouble
<1>1. LaunchHelper("keys") /\ "keys" \in Helpers
  BY DEF MaybeSyncDepotKeys, Helpers
<1>2. CASE helper' = [helper EXCEPT !["keys"] = "started"]
  <2>1. helper'["keys"] = "started" /\ Resting["keys"] = "idle"
    BY <1>1, <1>2 DEF UInv, UpdateTypeOK, Resting
  <2> QED
    BY <2>1
<1>3. CASE Trouble
  BY <1>3 DEF Trouble, UInv
<1> QED
  BY <1>1, <1>2, <1>3 DEF LaunchHelper

(* The thread ends with the keys waiting only where a helper is under way  *)
(* or starting one failed, whatever it met on the way to its end.          *)
THEOREM KeysAreLookedAt == UpdateSteps => KeysAreNotForgotten
<1>1. ASSUME UInv, [UpdateNext]_update, thread # "off", thread' = "off", steam',
             autoSync, Pending # {}, ~game
      PROVE  helper' # Resting \/ trouble' # trouble
  <2> USE <1>1
  <2>1. thread' # thread
    OBVIOUS
  <2>2. LookAround \/ Looks \/ Pull
    <3>1. ~UNCHANGED thread
      BY <2>1
    <3>2. ~(StartSteam \/ StartUnderHelper \/ QuitSteam)
      BY DEF StartSteam, StartUnderHelper, QuitSteam, SteamUp, SteamDown
    <3>3. ~(StartGame \/ StopGame \/ PublishVersion \/ JsonAutoInstall)
      BY <3>1 DEF StartGame, StopGame, PublishVersion, JsonAutoInstall
    <3>4. ~(JsonSourceApply \/ JsonKeySync \/ \E d \in Depots : AddManifest(d))
      BY <3>1 DEF AddManifest, JsonSourceApply, JsonKeySync
    <3>5. ~\E h \in Helpers : \/ HelperStarts(h) \/ SteamCloses(h) \/ SteamStays(h)
                              \/ HelperRefuses(h) \/ HelperBegins(h)
      BY <3>1 DEF HelperStarts, SteamCloses, SteamDown, SteamStays, HelperRefuses, HelperBegins
    <3>6. ~(InstallerDone \/ BuildFails \/ InstallerFails \/ KeysWritten \/ KeysFail)
      BY <3>1 DEF InstallerDone, BuildFails, InstallerFails, KeysWritten, KeysFail, Restarted
    <3> QED
      BY <3>1, <3>2, <3>3, <3>4, <3>5, <3>6 DEF UpdateNext, HelperSteps, update
  <2>3. Trouble => trouble' # trouble
    BY DEF Trouble, UInv
  <2>4. CASE LookAround
    BY <2>4, SyncIsSeen DEF LookAround
  <2>5. CASE Looks
    BY <2>3, <2>5, SyncIsSeen DEF Looks, CheckSource
  <2>6. CASE Pull
    <3>1. PICK reachable \in BOOLEAN : PullSource(reachable)
      BY <2>6 DEF Pull
    <3>2. CASE Pulls(reachable)
      <4>1. LaunchHelper("update") /\ "update" \in Helpers
        BY <3>1, <3>2 DEF PullSource, Helpers
      <4>2. CASE helper' = [helper EXCEPT !["update"] = "started"]
        <5>1. helper'["update"] = "started" /\ Resting["update"] = "idle"
          BY <4>1, <4>2 DEF UInv, UpdateTypeOK, Resting
        <5> QED
          BY <5>1
      <4> QED
        BY <2>3, <4>1, <4>2 DEF LaunchHelper
    <3>3. CASE ~Pulls(reachable)
      BY <2>3, <3>1, <3>3, SyncIsSeen DEF PullSource
    <3> QED
      BY <3>2, <3>3
  <2> QED
    BY <2>2, <2>4, <2>5, <2>6
<1>2. UInv /\ [UpdateNext]_update =>
        [(thread # "off" /\ thread' = "off" /\ steam' /\ autoSync /\ Pending # {} /\ ~game)
           => helper' # [h \in Helpers |-> "idle"] \/ trouble' # trouble]_update
  BY <1>1 DEF Resting
<1> QED
  BY <1>2, AlwaysUInv, PTL DEF UpdateSteps, KeysAreNotForgotten

(* With the switch off, only the button starts a key sync.                 *)
THEOREM OnlyTheButtonCloses == UpdateSteps => NobodyIsClosedUnasked
<1>1. ASSUME UInv, [UpdateNext]_update, helper["keys"] = "idle",
             helper'["keys"] = "started", ~autoSync
      PROVE  clicks' # clicks
  <2> USE <1>1
  <2>1. "keys" \in Helpers /\ "update" \in Helpers /\ helper \in HelperStates
    BY DEF Helpers, UInv, UpdateTypeOK, HelperStates
  <2>2. Click => clicks' # clicks
    BY DEF Click, UInv
  <2>3. ~UNCHANGED helper
    OBVIOUS
  <2>4. ~MaybeSyncDepotKeys
    BY <2>3 DEF MaybeSyncDepotKeys
  <2>5. ~LaunchHelper("update")
    BY <2>1, <2>3 DEF LaunchHelper, HelperStates
  <2>6. CASE StartSteam \/ StartUnderHelper \/ QuitSteam \/ StartGame \/ StopGame \/ PublishVersion
    BY <2>3, <2>6 DEF StartSteam, StartUnderHelper, QuitSteam, StartGame, StopGame,
                      PublishVersion
  <2>7. CASE (\E d \in Depots : AddManifest(d)) \/ JsonAutoInstall
    BY <2>3, <2>7 DEF AddManifest, JsonAutoInstall
  <2>8. CASE JsonSourceApply \/ JsonKeySync
    BY <2>2, <2>8 DEF JsonSourceApply, JsonKeySync
  <2>9. CASE LookAround \/ Looks \/ Pull
    BY <2>3, <2>4, <2>5, <2>9 DEF LookAround, Looks, Pull, CheckSource, PullSource
  <2>10. ASSUME NEW h \in Helpers,
                \/ HelperStarts(h) \/ SteamCloses(h) \/ SteamStays(h)
                \/ HelperRefuses(h) \/ HelperBegins(h)
         PROVE  FALSE
    <3>1. helper' \in {[helper EXCEPT ![h] = "work"], [helper EXCEPT ![h] = "idle"],
                       [helper EXCEPT ![h] = "writing"], [helper EXCEPT ![h] = "closing"]}
      BY <2>10 DEF HelperStarts, SteamCloses, SteamStays, HelperRefuses, HelperBegins, FinishWith
    <3> QED
      BY <2>1, <3>1 DEF HelperStates
  <2>11. CASE InstallerDone \/ BuildFails \/ InstallerFails \/ KeysWritten \/ KeysFail
    <3>1. helper' \in {[helper EXCEPT !["update"] = "idle"], [helper EXCEPT !["keys"] = "idle"]}
      BY <2>11 DEF InstallerDone, BuildFails, InstallerFails, KeysWritten, KeysFail, FinishWith
    <3> QED
      BY <2>1, <3>1 DEF HelperStates
  <2> QED
    BY <2>3, <2>6, <2>7, <2>8, <2>9, <2>10, <2>11 DEF UpdateNext, HelperSteps, update
<1>2. UInv /\ [UpdateNext]_update =>
        [(helper["keys"] = "idle" /\ helper'["keys"] = "started" /\ ~autoSync)
           => clicks' # clicks]_update
  BY <1>1
<1> QED
  BY <1>2, AlwaysUInv, PTL DEF UpdateSteps, NobodyIsClosedUnasked

-----------------------------------------------------------------------------

(* Pipes.  A process key is never used again, so what is kept under one    *)
(* stays true of the process that has it.  The inductive invariant says    *)
(* that of the snapshots, of the handshake in progress and of the contexts *)
(* made; that the flags of -onlinefix are those of the game that plays;    *)
(* and that a library was tried once exactly where it was claimed.         *)
AppIds == GameApps \cup {Unbound}
Processes == [birth : Nat, game : AppIds, env : AppIds, lag : 0 .. kAppIdResolveRetries,
              fix : BOOLEAN, flag : BOOLEAN, p2p : BOOLEAN]
ProcessKeys == Pids \X Nat
Hands == {Idle} \cup [pid : Pids, key : ProcessKeys, env : AppIds, samples : 0 .. kAppIdResolveRetries]
Contexts == [key : ProcessKeys, app : AppIds, tracked : BOOLEAN, game : BOOLEAN, flag : BOOLEAN]
Tries == Pids \X (1 .. MaxBirths) \X {"dllA", "dllB"}

PipeTypeOK ==
  ipc \in [procs : [Pids -> Processes], births : Nat, pipes : Nat,
           cache : SUBSET [key : ProcessKeys, env : AppIds], hand : Hands,
           injected : SUBSET (Pids \X Nat \X {"dllA", "dllB"}), tries : [Tries -> {0, 1}],
           real : AppIds, sockets : BOOLEAN, pending : SUBSET Nat, owed : SUBSET Nat,
           done : SUBSET Nat, owned : SUBSET GameApps, seen : SUBSET Contexts,
           told : AppIds \cup {kOnlineFixAppId}]

ProcsInv == \A p \in Pids :
  /\ Live(p) => ipc.procs[p].birth \in 1 .. ipc.births
  /\ ipc.procs[p].env \in {Unbound, ipc.procs[p].game}
  /\ IsGame(p) => IF ipc.procs[p].fix
                    THEN ipc.real = ipc.procs[p].game /\ (ipc.sockets <=> ipc.procs[p].p2p)
                    ELSE ipc.real = Unbound
  /\ \A q \in Pids : IsGame(p) /\ IsGame(q) => p = q

CacheInv == \A s \in ipc.cache :
  /\ s.key[2] <= ipc.births
  /\ \A p \in Pids : Live(p) /\ s.key = ProcessKey(p) => s.env = ipc.procs[p].env

HandInv == ipc.hand # Idle =>
  LET h == ipc.hand IN
  /\ h.key[1] = h.pid /\ h.key[2] <= ipc.births
  /\ Live(h.pid) => /\ h.key = ProcessKey(h.pid)
                    /\ h.env = ipc.procs[h.pid].env
                    /\ IsGame(h.pid) /\ h.env = Unbound => h.samples <= ipc.procs[h.pid].lag

SeenInv == (\A c \in ipc.seen : c.key[2] <= ipc.births) /\ PipesKnowTheirGame

Wanted(k) == \E c \in ipc.seen, dll \in Dlls :
  /\ c.key = <<k[1], k[2]>> /\ dll.path = k[3] /\ c.game
  /\ Matches(dll, c.app, c.tracked, c.flag)

InjectInv == \A k \in Tries :
  /\ k \in ipc.injected <=> ipc.tries[k] = 1
  /\ k \in ipc.injected <=> Wanted(k)

OwedCallsInv == (\E n \in Nat : ipc.owed = 1 .. n) /\ OwedCallsAreKept

PipeInv == PipeTypeOK /\ ProcsInv /\ CacheInv /\ HandInv /\ SeenInv /\ InjectInv /\ OwedCallsInv

USE DEF PipeTypeOK

LEMMA InitPipeInv == PipeInit => PipeInv
<1> SUFFICES ASSUME PipeInit PROVE PipeInv
  OBVIOUS
<1>1. /\ ipc.procs = [pid \in Pids |-> Gone] /\ ipc.births = 0 /\ ipc.pipes = 0
      /\ ipc.cache = {} /\ ipc.hand = Idle /\ ipc.injected = {} /\ ipc.tries = [k \in Tries |-> 0]
      /\ ipc.real = Unbound /\ ipc.sockets = FALSE /\ ipc.pending = {} /\ ipc.owed = {}
      /\ ipc.done = {} /\ ipc.seen = {} /\ ipc.told = Unbound
  BY DEF PipeInit, Tries
<1>2. Gone \in Processes /\ \A p \in Pids : ~Live(p)
  BY <1>1, PipeAssumption DEF Processes, Gone, Live, AppIds
<1>3. PipeTypeOK
  BY <1>2, PipeAssumption DEF PipeInit, Tries, Hands, AppIds
<1>4. ProcsInv
  BY <1>1, <1>2 DEF ProcsInv, IsGame, Gone
<1>5. CacheInv /\ HandInv
  BY <1>1 DEF CacheInv, HandInv
<1>6. SeenInv /\ InjectInv
  BY <1>1 DEF SeenInv, PipesKnowTheirGame, InjectInv, Wanted, Tries
<1>7. OwedCallsInv
  <2>1. ipc.owed = 1 .. 0
    BY <1>1
  <2> QED
    BY <1>1, <2>1 DEF OwedCallsInv, OwedCallsAreKept
<1> QED
  BY <1>3, <1>4, <1>5, <1>6, <1>7 DEF PipeInv

(* A process key stands for one process, for good: what is kept under the  *)
(* keys given so far says nothing of a process that is born now.           *)
LEMMA BornPipeInv ==
  ASSUME PipeInv, NEW pid \in Pids, NEW process \in Processes, ~Live(pid), pid # ipc.hand.pid,
         process.birth = ipc.births + 1, process.env \in {Unbound, process.game},
         ipc'.procs = [ipc.procs EXCEPT ![pid] = process],
         ipc'.births = ipc.births + 1, PipeTypeOK',
         ipc'.cache = ipc.cache, ipc'.hand = ipc.hand, ipc'.injected = ipc.injected,
         ipc'.tries = ipc.tries, ipc'.pending = ipc.pending, ipc'.owed = ipc.owed,
         ipc'.done = ipc.done, ipc'.seen = ipc.seen,
         process.game # Unbound =>
           /\ Playing = {}
           /\ IF process.fix THEN ipc'.real = process.game /\ (ipc'.sockets <=> process.p2p)
                             ELSE ipc'.real = Unbound,
         process.game = Unbound => UNCHANGED <<ipc.real, ipc.sockets>>
  PROVE  PipeInv'
<1> USE DEF PipeInv
<1>1. /\ ipc'.procs[pid] = process
      /\ \A q \in Pids \ {pid} : ipc'.procs[q] = ipc.procs[q]
      /\ ipc.births \in Nat
  OBVIOUS
<1>2. ASSUME NEW q \in Pids \ {pid}
      PROVE  /\ Live(q)' <=> Live(q)
             /\ IsGame(q)' <=> IsGame(q)
             /\ ProcessKey(q)' = ProcessKey(q)
  BY <1>1, <1>2 DEF Live, IsGame, ProcessKey
<1>3. IsGame(pid)' => process.game # Unbound
  BY <1>1 DEF IsGame
<1>4. ProcessKey(pid)' = <<pid, ipc.births + 1>>
  BY <1>1 DEF ProcessKey
<1>5. ProcsInv'
  <2> SUFFICES ASSUME NEW p \in Pids
               PROVE  /\ Live(p)' => ipc'.procs[p].birth \in 1 .. ipc'.births
                      /\ ipc'.procs[p].env \in {Unbound, ipc'.procs[p].game}
                      /\ IsGame(p)' => IF ipc'.procs[p].fix
                           THEN ipc'.real = ipc'.procs[p].game /\ (ipc'.sockets <=> ipc'.procs[p].p2p)
                           ELSE ipc'.real = Unbound
                      /\ \A q \in Pids : IsGame(p)' /\ IsGame(q)' => p = q
    BY DEF ProcsInv
  <2>1. CASE p = pid
    <3>1. ASSUME NEW q \in Pids \ {pid}, IsGame(pid)', IsGame(q)' PROVE FALSE
      BY <1>2, <1>3, <3>1 DEF Playing
    <3> QED
      BY <1>1, <1>3, <2>1, <3>1
  <2>2. CASE p # pid
    <3>1. ASSUME IsGame(p)
          PROVE  UNCHANGED <<ipc.real, ipc.sockets>> /\ process.game = Unbound
      BY <3>1 DEF Playing
    <3>2. /\ Live(p) => ipc.procs[p].birth \in 1 .. ipc.births
          /\ ipc.procs[p].env \in {Unbound, ipc.procs[p].game}
          /\ IsGame(p) => IF ipc.procs[p].fix
               THEN ipc.real = ipc.procs[p].game /\ (ipc.sockets <=> ipc.procs[p].p2p)
               ELSE ipc.real = Unbound
          /\ \A q \in Pids : IsGame(p) /\ IsGame(q) => p = q
      BY DEF ProcsInv
    <3>3. Live(p)' => ipc'.procs[p].birth \in 1 .. ipc'.births
      BY <1>1, <1>2, <2>2, <3>2
    <3>4. \A q \in Pids : IsGame(p)' /\ IsGame(q)' => p = q
      BY <1>2, <1>3, <2>2, <3>1, <3>2
    <3> QED
      BY <1>1, <1>2, <2>2, <3>1, <3>2, <3>3, <3>4
  <2> QED
    BY <2>1, <2>2
<1>6. \A p \in Pids, k \in ProcessKeys :
        k[2] <= ipc.births /\ Live(p)' /\ k = ProcessKey(p)'
          => p # pid /\ Live(p) /\ k = ProcessKey(p)
  BY <1>1, <1>2, <1>4 DEF ProcessKeys
<1>7. CacheInv'
  <2>1. \A c \in ipc.cache : c.key \in ProcessKeys /\ c.key[2] \in Nat
    BY DEF ProcessKeys
  <2> QED
    BY <1>1, <1>6, <2>1 DEF CacheInv
<1>8. HandInv'
  <2> SUFFICES ASSUME ipc.hand # Idle PROVE HandInv'
    BY DEF HandInv
  <2>1. ipc.hand.pid \in Pids \ {pid} /\ ipc.hand.key \in ProcessKeys /\ ipc.hand.key[2] \in Nat
    BY DEF Hands, ProcessKeys
  <2> QED
    BY <1>1, <1>2, <2>1 DEF HandInv
<1>9. SeenInv'
  <2>1. \A c \in ipc.seen : c.key \in ProcessKeys /\ c.key[2] \in Nat
    BY DEF ProcessKeys, Contexts
  <2>2. \A c \in ipc.seen : c.key[2] <= ipc'.births
    BY <1>1, <2>1 DEF SeenInv
  <2>3. ASSUME NEW c \in ipc.seen, NEW p \in Pids, IsGame(p)', c.key = ProcessKey(p)'
        PROVE  p # pid /\ IsGame(p) /\ c.key = ProcessKey(p)
    BY <1>2, <1>6, <2>1, <2>3 DEF SeenInv, IsGame
  <2> QED
    BY <1>1, <2>2, <2>3 DEF SeenInv, PipesKnowTheirGame, Playing
<1>10. InjectInv' /\ OwedCallsInv'
  BY DEF InjectInv, Wanted, OwedCallsInv, OwedCallsAreKept
<1> QED
  BY <1>5, <1>7, <1>8, <1>9, <1>10

LEMMA SpawnPipeInv ==
  ASSUME PipeInv, NEW pid \in Pids, SpawnGame(pid)
  PROVE  PipeInv'
<1>1. PipeTypeOK /\ ~Live(pid) /\ Playing = {} /\ pid # ipc.hand.pid
  BY DEF PipeInv, SpawnGame
<1>2. PICK app \in GameApps, exported \in BOOLEAN, onlinefix \in BOOLEAN, flag \in BOOLEAN,
           lag \in 0 .. kAppIdResolveRetries :
        ipc' = [SpawnFlags(app, onlinefix) EXCEPT
                  !.births = @ + 1, !.told = Unbound,
                  !.procs[pid] = Process(pid, app, SpawnedEnv(app, exported), lag, onlinefix, flag)]
  BY ZenonT(30) DEF SpawnGame
<1> DEFINE born == Process(pid, app, SpawnedEnv(app, exported), lag, onlinefix, flag)
           procs == [ipc.procs EXCEPT ![pid] = born]
           real == IF onlinefix THEN app ELSE Unbound
           sockets == IF onlinefix THEN FALSE ELSE ipc.sockets
           births == ipc.births + 1
<1>3. /\ born \in Processes /\ born.birth = ipc.births + 1 /\ born.game = app
      /\ born.env \in {Unbound, app} /\ born.fix = onlinefix /\ born.p2p = FALSE
  BY <1>1 DEF Process, SpawnedEnv, Processes, AppIds
<1>4. app # Unbound /\ app \in AppIds
  BY PipeAssumption DEF AppIds
<1>5. ipc' = [ipc EXCEPT !.real = real, !.sockets = sockets, !.births = births,
                         !.told = Unbound, !.procs = procs]
  <2>1. CASE onlinefix
    BY <1>1, <1>2, <2>1 DEF SpawnFlags
  <2>2. CASE ~onlinefix
    BY <1>1, <1>2, <2>2 DEF SpawnFlags
  <2> QED
    BY <2>1, <2>2
<1> HIDE DEF born
<1>6. /\ procs \in [Pids -> Processes] /\ real \in AppIds /\ sockets \in BOOLEAN /\ births \in Nat
      /\ Unbound \in AppIds
  <2>1. procs \in [Pids -> Processes] /\ births \in Nat
    BY <1>1, <1>3
  <2>2. sockets \in BOOLEAN
    BY <1>1
  <2> QED
    BY <1>4, <2>1, <2>2 DEF AppIds
<1>7. (onlinefix => real = app /\ sockets = FALSE) /\ (~onlinefix => real = Unbound)
  OBVIOUS
<1> HIDE DEF procs, real, sockets, births
<1>8. PipeTypeOK'
  BY <1>1, <1>5, <1>6
<1>9. /\ ipc'.real = real /\ ipc'.sockets = sockets /\ ipc'.births = births /\ ipc'.procs = procs
      /\ ipc'.cache = ipc.cache /\ ipc'.hand = ipc.hand /\ ipc'.injected = ipc.injected
      /\ ipc'.tries = ipc.tries /\ ipc'.pending = ipc.pending /\ ipc'.owed = ipc.owed
      /\ ipc'.done = ipc.done /\ ipc'.seen = ipc.seen
  BY <1>1, <1>5
<1> QED
  BY <1>1, <1>3, <1>4, <1>7, <1>8, <1>9, BornPipeInv DEF procs, births

LEMMA HelperPipeInv ==
  ASSUME PipeInv, NEW pid \in Pids, StartHelper(pid)
  PROVE  PipeInv'
<1>1. PipeTypeOK /\ ~Live(pid) /\ pid # ipc.hand.pid
  BY DEF PipeInv, StartHelper
<1> DEFINE born == Process(pid, Unbound, Unbound, 0, FALSE, FALSE)
           procs == [ipc.procs EXCEPT ![pid] = born]
           births == ipc.births + 1
<1>2. born \in Processes /\ born.birth = births /\ born.game = Unbound /\ born.env = Unbound
  BY <1>1, PipeAssumption DEF Process, Processes, AppIds
<1>3. ipc' = [ipc EXCEPT !.births = births, !.procs = procs]
  BY <1>1 DEF StartHelper
<1> HIDE DEF born
<1>4. procs \in [Pids -> Processes] /\ births \in Nat
  BY <1>1, <1>2
<1> HIDE DEF procs, births
<1>5. PipeTypeOK'
  BY <1>1, <1>3, <1>4
<1>6. /\ ipc'.real = ipc.real /\ ipc'.sockets = ipc.sockets /\ ipc'.births = births
      /\ ipc'.procs = procs
      /\ ipc'.cache = ipc.cache /\ ipc'.hand = ipc.hand /\ ipc'.injected = ipc.injected
      /\ ipc'.tries = ipc.tries /\ ipc'.pending = ipc.pending /\ ipc'.owed = ipc.owed
      /\ ipc'.done = ipc.done /\ ipc'.seen = ipc.seen
  BY <1>1, <1>3
<1> QED
  BY <1>1, <1>2, <1>5, <1>6, BornPipeInv DEF procs, births

LEMMA ExitPipeInv ==
  ASSUME PipeInv, NEW pid \in Pids, Exit(pid)
  PROVE  PipeInv'
<1> DEFINE procs == [ipc.procs EXCEPT ![pid] = Gone]
<1>1. Gone \in Processes
  BY PipeAssumption DEF Gone, Processes, AppIds
<1>2. /\ procs \in [Pids -> Processes] /\ procs[pid] = Gone
      /\ \A q \in Pids \ {pid} : procs[q] = ipc.procs[q]
  BY <1>1 DEF PipeInv
<1>3. ipc' = [ipc EXCEPT !.procs = procs]
  BY DEF Exit
<1> HIDE DEF procs
<1>4. /\ ipc'.procs = procs /\ ipc'.births = ipc.births /\ ipc'.cache = ipc.cache
      /\ ipc'.hand = ipc.hand /\ ipc'.injected = ipc.injected /\ ipc'.tries = ipc.tries
      /\ ipc'.real = ipc.real /\ ipc'.sockets = ipc.sockets /\ ipc'.pending = ipc.pending
      /\ ipc'.owed = ipc.owed /\ ipc'.done = ipc.done /\ ipc'.seen = ipc.seen
      /\ PipeTypeOK'
  BY <1>2, <1>3 DEF PipeInv
<1>5. ~Live(pid)' /\ ~IsGame(pid)'
  BY <1>2, <1>4 DEF Live, IsGame
<1>6. ASSUME NEW q \in Pids \ {pid}
      PROVE  /\ Live(q)' <=> Live(q)
             /\ IsGame(q)' <=> IsGame(q)
             /\ ProcessKey(q)' = ProcessKey(q)
  BY <1>2, <1>4, <1>6 DEF Live, IsGame, ProcessKey
<1>7. ProcsInv'
  <2> SUFFICES ASSUME NEW p \in Pids
               PROVE  /\ Live(p)' => ipc'.procs[p].birth \in 1 .. ipc'.births
                      /\ ipc'.procs[p].env \in {Unbound, ipc'.procs[p].game}
                      /\ IsGame(p)' => IF ipc'.procs[p].fix
                           THEN ipc'.real = ipc'.procs[p].game /\ (ipc'.sockets <=> ipc'.procs[p].p2p)
                           ELSE ipc'.real = Unbound
                      /\ \A q \in Pids : IsGame(p)' /\ IsGame(q)' => p = q
    BY DEF ProcsInv
  <2>1. CASE p = pid
    BY <1>2, <1>4, <1>5, <2>1 DEF Gone
  <2>2. CASE p # pid
    BY <1>2, <1>4, <1>5, <1>6, <2>2 DEF PipeInv, ProcsInv
  <2> QED
    BY <2>1, <2>2
<1>8. CacheInv'
  BY <1>2, <1>4, <1>5, <1>6 DEF PipeInv, CacheInv
<1>9. HandInv'
  <2> SUFFICES ASSUME ipc.hand # Idle PROVE HandInv'
    BY <1>4 DEF HandInv
  <2>1. ipc.hand.pid \in Pids
    BY DEF PipeInv, Hands
  <2>2. CASE ipc.hand.pid = pid
    BY <1>4, <1>5, <2>2 DEF PipeInv, HandInv
  <2>3. CASE ipc.hand.pid # pid
    BY <1>2, <1>4, <1>6, <2>1, <2>3 DEF PipeInv, HandInv
  <2> QED
    BY <2>2, <2>3
<1>10. SeenInv'
  BY <1>2, <1>4, <1>5, <1>6 DEF PipeInv, SeenInv, PipesKnowTheirGame, Playing
<1>11. InjectInv' /\ OwedCallsInv'
  BY <1>4 DEF PipeInv, InjectInv, Wanted, OwedCallsInv, OwedCallsAreKept
<1> QED
  BY <1>4, <1>7, <1>8, <1>9, <1>10, <1>11 DEF PipeInv

(* The snapshot of a process, kept or taken now, is of that process.       *)
LEMMA ResolvedIsTrue ==
  ASSUME PipeInv, NEW pid \in Pids, Live(pid)
  PROVE  ResolveProcess(pid) = Snapshot(pid)
<1>1. \A s \in Cached(pid) : s = Snapshot(pid)
  BY DEF Cached, Snapshot, PipeInv, CacheInv
<1> QED
  BY <1>1 DEF ResolveProcess

LEMMA HandshakePipeInv ==
  ASSUME PipeInv, NEW pid \in Pids, OnHandshake(pid)
  PROVE  PipeInv'
<1> DEFINE s == Snapshot(pid)
           hand == [pid |-> pid, key |-> ProcessKey(pid), env |-> s.env, samples |-> 0]
           cache == ipc.cache \cup {s}
           pipes == ipc.pipes + 1
<1>1. ipc' = [ipc EXCEPT !.cache = cache, !.pipes = pipes, !.hand = hand] /\ Live(pid)
  BY ResolvedIsTrue DEF OnHandshake
<1>2. /\ s.key = ProcessKey(pid) /\ s.env = ipc.procs[pid].env
      /\ ProcessKey(pid) \in ProcessKeys /\ s.env \in AppIds
      /\ ProcessKey(pid)[1] = pid /\ ProcessKey(pid)[2] = ipc.procs[pid].birth
      /\ ipc.procs[pid].birth \in 1 .. ipc.births
  BY <1>1 DEF Snapshot, ProcessKey, ProcessKeys, Processes, PipeInv, ProcsInv
<1>3. s \in [key : ProcessKeys, env : AppIds]
  BY <1>2 DEF Snapshot
<1>4. /\ hand \in Hands
      /\ hand.pid = pid /\ hand.key = ProcessKey(pid) /\ hand.env = ipc.procs[pid].env
      /\ hand.samples = 0
  BY <1>2, PipeAssumption DEF Hands
<1> HIDE DEF s, hand
<1>5. cache \in SUBSET [key : ProcessKeys, env : AppIds] /\ pipes \in Nat
  BY <1>3 DEF PipeInv
<1> HIDE DEF pipes
<1>6. /\ ipc'.procs = ipc.procs /\ ipc'.births = ipc.births /\ ipc'.cache = cache
      /\ ipc'.hand = hand /\ ipc'.injected = ipc.injected /\ ipc'.tries = ipc.tries
      /\ ipc'.real = ipc.real /\ ipc'.sockets = ipc.sockets /\ ipc'.pending = ipc.pending
      /\ ipc'.owed = ipc.owed /\ ipc'.done = ipc.done /\ ipc'.seen = ipc.seen
      /\ PipeTypeOK'
  <2> HIDE DEF cache
  <2> QED
    BY <1>1, <1>4, <1>5 DEF PipeInv
<1>7. \A p \in Pids : (Live(p)' <=> Live(p)) /\ (IsGame(p)' <=> IsGame(p)) /\ ProcessKey(p)' = ProcessKey(p)
  BY <1>6 DEF Live, IsGame, ProcessKey
<1>8. ProcsInv'
  BY <1>6, <1>7 DEF PipeInv, ProcsInv
<1>9. CacheInv'
  <2>1. ASSUME NEW p \in Pids, s.key = ProcessKey(p) PROVE s.env = ipc.procs[p].env
    BY <1>2, <2>1 DEF ProcessKey
  <2>2. s.key[2] <= ipc.births
    BY <1>2
  <2> QED
    BY <1>6, <1>7, <2>1, <2>2 DEF PipeInv, CacheInv
<1>10. HandInv'
  <2>1. IsGame(pid) => 0 <= ipc.procs[pid].lag
    BY DEF PipeInv, Processes
  <2> QED
    BY <1>2, <1>4, <1>6, <1>7, <2>1 DEF HandInv
<1>11. SeenInv'
  BY <1>6, <1>7 DEF PipeInv, SeenInv, PipesKnowTheirGame, Playing
<1>12. InjectInv' /\ OwedCallsInv'
  BY <1>6 DEF PipeInv, InjectInv, Wanted, OwedCallsInv, OwedCallsAreKept
<1> QED
  BY <1>6, <1>8, <1>9, <1>10, <1>11, <1>12 DEF PipeInv

(* The end of a handshake, given the right app: the context is true, and   *)
(* each library it asks for is tried unless it was before.                 *)
LEMMA ApplyPipeInv ==
  ASSUME PipeInv, ipc.hand # Idle, NEW app \in AppIds,
         NEW isGame \in BOOLEAN, NEW tracked \in BOOLEAN, NEW flag \in BOOLEAN,
         ipc' = Apply(ipc.hand.key, app, isGame, tracked, flag),
         LET process == ipc.procs[ipc.hand.pid]
         IN  /\ IsGame(ipc.hand.pid)
             /\ \/ process.env # Unbound \/ process.lag < kAppIdResolveRetries
                \/ process.game \in Named
             => app = process.game
  PROVE  PipeInv'
<1> DEFINE key == ipc.hand.key
           claimed == Claimed(key, app, tracked, flag)
           paths == IF isGame THEN {dll.path : dll \in claimed} ELSE {}
           c == [key |-> key, app |-> app, tracked |-> tracked, game |-> isGame, flag |-> flag]
           new == {InjectionKey(key, path) : path \in paths}
           tries == [k \in DOMAIN ipc.tries |->
                       ipc.tries[k] + IF <<k[1], k[2]>> = key /\ k[3] \in paths THEN 1 ELSE 0]
           contexts == ipc.seen \cup {c}
           injected == ipc.injected \cup new
<1>1. ipc' = [ipc EXCEPT !.hand = Idle, !.seen = contexts, !.injected = injected, !.tries = tries]
  BY DEF Apply
<1>2. /\ PipeTypeOK /\ ProcsInv /\ CacheInv /\ HandInv /\ SeenInv /\ InjectInv /\ OwedCallsInv
      /\ ipc.hand.pid \in Pids
      /\ key \in ProcessKeys /\ key = <<key[1], key[2]>> /\ key[1] = ipc.hand.pid
      /\ key[1] \in Pids /\ key[2] \in Nat /\ key[2] <= ipc.births
  BY DEF PipeInv, Hands, HandInv, ProcessKeys
<1>3. \A dll \in Dlls : dll.path \in {"dllA", "dllB"}
  BY PipeAssumption DEF Dll
<1>4. /\ c \in Contexts /\ c.key = key /\ c.app = app /\ c.tracked = tracked
      /\ c.game = isGame /\ c.flag = flag
  BY <1>2 DEF Contexts
<1>5. paths \subseteq {"dllA", "dllB"}
  BY <1>3 DEF Claimed
<1>6. new \subseteq Pids \X Nat \X {"dllA", "dllB"}
  BY <1>2, <1>5 DEF InjectionKey
<1>7. \A k \in Tries : k = <<k[1], k[2], k[3]>> /\ k[3] \in {"dllA", "dllB"}
  BY DEF Tries
<1>8. \A path \in paths : \E dll \in Dlls :
        /\ dll.path = path /\ isGame /\ Matches(dll, app, tracked, flag)
        /\ InjectionKey(key, path) \notin ipc.injected
  BY DEF Claimed
<1>9. ASSUME isGame, NEW dll \in Dlls, Matches(dll, app, tracked, flag),
             InjectionKey(key, dll.path) \notin ipc.injected
      PROVE  dll.path \in paths
  BY <1>9 DEF Claimed
<1> HIDE DEF c, claimed, paths
<1>10. ASSUME NEW k \in Tries
       PROVE  /\ tries[k] = ipc.tries[k] + IF <<k[1], k[2]>> = key /\ k[3] \in paths THEN 1 ELSE 0
              /\ k \in new <=> <<k[1], k[2]>> = key /\ k[3] \in paths
              /\ k \in new => k \notin ipc.injected
  <2>1. tries[k] = ipc.tries[k] + IF <<k[1], k[2]>> = key /\ k[3] \in paths THEN 1 ELSE 0
    BY <1>2
  <2>2. k \in new <=> <<k[1], k[2]>> = key /\ k[3] \in paths
    BY <1>2, <1>7 DEF InjectionKey
  <2>3. k \in new => k \notin ipc.injected
    BY <1>8 DEF InjectionKey
  <2> QED
    BY <2>1, <2>2, <2>3
<1>11. \A k \in Tries : ipc.tries[k] \in {0, 1} /\ (k \in ipc.injected <=> ipc.tries[k] = 1)
  BY <1>2 DEF InjectInv
<1>12. tries \in [Tries -> {0, 1}]
  <2>1. DOMAIN ipc.tries = Tries
    BY <1>2
  <2>2. \A k \in Tries : tries[k] \in {0, 1}
    BY <1>10, <1>11
  <2> QED
    BY <2>1, <2>2
<1> HIDE DEF tries, new
<1>13. contexts \in SUBSET Contexts /\ injected \in SUBSET (Pids \X Nat \X {"dllA", "dllB"})
  BY <1>2, <1>4, <1>6
<1>14. /\ ipc'.procs = ipc.procs /\ ipc'.births = ipc.births /\ ipc'.cache = ipc.cache
       /\ ipc'.hand = Idle /\ ipc'.injected = injected /\ ipc'.tries = tries
       /\ ipc'.real = ipc.real /\ ipc'.sockets = ipc.sockets /\ ipc'.pending = ipc.pending
       /\ ipc'.owed = ipc.owed /\ ipc'.done = ipc.done /\ ipc'.seen = contexts
       /\ PipeTypeOK'
  <2> HIDE DEF contexts, injected
  <2>1. Idle \in Hands
    BY DEF Hands
  <2> QED
    BY <1>1, <1>2, <1>12, <1>13, <2>1, ZenonT(30)
<1>15. \A p \in Pids : (Live(p)' <=> Live(p)) /\ (IsGame(p)' <=> IsGame(p)) /\ ProcessKey(p)' = ProcessKey(p)
  BY <1>14 DEF Live, IsGame, ProcessKey
<1>16. ProcsInv' /\ CacheInv' /\ HandInv' /\ OwedCallsInv'
  BY <1>2, <1>14, <1>15 DEF ProcsInv, CacheInv, HandInv, OwedCallsInv, OwedCallsAreKept
<1>17. SeenInv'
  <2>1. ASSUME NEW p \in Pids, IsGame(p), c.key = ProcessKey(p),
               \/ ipc.procs[p].env # Unbound \/ ipc.procs[p].lag < kAppIdResolveRetries
               \/ ipc.procs[p].game \in Named
        PROVE  c.app = ipc.procs[p].game
    <3>1. p = ipc.hand.pid
      BY <1>2, <1>4, <2>1 DEF ProcessKey
    <3> QED
      BY <1>4, <2>1, <3>1
  <2>2. c.key[2] <= ipc.births
    BY <1>2, <1>4
  <2> QED
    BY <1>2, <1>14, <1>15, <2>1, <2>2 DEF SeenInv, PipesKnowTheirGame, Playing
<1>18. InjectInv'
  <2> SUFFICES ASSUME NEW k \in Tries
               PROVE  /\ k \in injected <=> tries[k] = 1
                      /\ k \in injected <=> Wanted(k)'
    BY <1>14 DEF InjectInv
  <2>1. k \in injected <=> tries[k] = 1
    BY <1>10, <1>11
  <2>2. Wanted(k)' <=>
          \/ Wanted(k)
          \/ /\ key = <<k[1], k[2]>> /\ isGame
             /\ \E dll \in Dlls : dll.path = k[3] /\ Matches(dll, app, tracked, flag)
    BY <1>4, <1>14 DEF Wanted
  <2>3. k \in new => Wanted(k)'
    BY <1>8, <1>10, <2>2
  <2>4. ASSUME key = <<k[1], k[2]>>, isGame, NEW dll \in Dlls, dll.path = k[3],
               Matches(dll, app, tracked, flag)
        PROVE  k \in injected
    <3>1. InjectionKey(key, dll.path) = k
      BY <1>2, <1>7, <2>4 DEF InjectionKey
    <3> QED
      BY <1>9, <1>10, <2>4, <3>1
  <2>5. k \in ipc.injected <=> Wanted(k)
    BY <1>2 DEF InjectInv
  <2> QED
    BY <2>1, <2>2, <2>3, <2>4, <2>5
<1> QED
  BY <1>14, <1>16, <1>17, <1>18 DEF PipeInv

LEMMA FinishPipeInv ==
  ASSUME PipeInv, ipc.hand # Idle, NEW app \in AppIds, Finish(app),
         LET process == ipc.procs[ipc.hand.pid]
         IN  /\ IsGame(ipc.hand.pid)
             /\ \/ process.env # Unbound \/ process.lag < kAppIdResolveRetries
                \/ process.game \in Named
             => app = process.game
  PROVE  PipeInv'
<1> DEFINE tracked == HasDepot(app, FALSE)
           flag == Live(ipc.hand.pid) /\ ipc.procs[ipc.hand.pid].flag
           isGame == ipc.hand.env # Unbound \/ tracked
<1>1. ipc' = Apply(ipc.hand.key, app, isGame, tracked, flag)
  BY DEF Finish
<1>2. tracked \in BOOLEAN /\ flag \in BOOLEAN /\ isGame \in BOOLEAN
  BY DEF HasDepot
<1> HIDE DEF tracked, flag, isGame
<1> QED
  BY <1>1, <1>2, ApplyPipeInv

(* A game is found by its environment, by the app its pipe is bound to     *)
(* once Steam has done that, or by the name of its executable.             *)
LEMMA ResolvePipeInv ==
  ASSUME PipeInv, FromEnvironment \/ Sample \/ FromName
  PROVE  PipeInv'
<1> DEFINE h == ipc.hand
           process == ipc.procs[h.pid]
<1>1. /\ PipeTypeOK /\ HandInv /\ h # Idle /\ h.pid \in Pids /\ h.env \in AppIds
      /\ process \in Processes /\ h.samples \in 0 .. kAppIdResolveRetries
  BY DEF PipeInv, FromEnvironment, Sample, FromName, Hands
<1>2. /\ process.env \in {Unbound, process.game} /\ process.game \in AppIds
      /\ process.lag \in 0 .. kAppIdResolveRetries
      /\ IsGame(h.pid) => Live(h.pid) /\ process.game # Unbound /\ ipc.real \in {Unbound, process.game}
      /\ Live(h.pid) => h.env = process.env /\ h.key = ProcessKey(h.pid)
      /\ IsGame(h.pid) /\ h.env = Unbound => h.samples <= process.lag
  BY <1>1 DEF PipeInv, ProcsInv, HandInv, IsGame, Processes
<1>3. Unbound \in AppIds /\ ipc.real \in AppIds
  BY <1>1 DEF AppIds
<1>4. PipeApp \in AppIds
  BY <1>2, <1>3 DEF PipeApp, ResolveAppId, BoundApp
<1>5. CASE FromEnvironment
  <2>1. Finish(h.env) /\ h.env # Unbound
    BY <1>5 DEF FromEnvironment
  <2> QED
    BY <1>1, <1>2, <2>1, FinishPipeInv
<1>6. CASE Sample /\ PipeApp # Unbound
  <2>1. Finish(PipeApp)
    BY <1>6 DEF Sample
  <2>2. IsGame(h.pid) => PipeApp = process.game
    BY <1>2, <1>6 DEF PipeApp, ResolveAppId, BoundApp
  <2> QED
    BY <1>1, <1>4, <2>1, <2>2, FinishPipeInv
<1>7. CASE Sample /\ PipeApp = Unbound
  <2> DEFINE hand == [h EXCEPT !.samples = @ + 1]
  <2>1. ipc' = [ipc EXCEPT !.hand = hand] /\ h.samples < kAppIdResolveRetries
    BY <1>7 DEF Sample
  <2>2. /\ h \in [pid : Pids, key : ProcessKeys, env : AppIds, samples : 0 .. kAppIdResolveRetries]
        /\ h.samples + 1 \in 0 .. kAppIdResolveRetries
    BY <1>1, <2>1, PipeAssumption DEF Hands
  <2>3. /\ hand \in Hands /\ hand.pid = h.pid /\ hand.key = h.key /\ hand.env = h.env
        /\ hand.samples = h.samples + 1
    BY <2>2 DEF Hands
  <2> HIDE DEF hand
  <2>4. /\ ipc'.procs = ipc.procs /\ ipc'.births = ipc.births /\ ipc'.cache = ipc.cache
        /\ ipc'.hand = hand /\ ipc'.injected = ipc.injected /\ ipc'.tries = ipc.tries
        /\ ipc'.real = ipc.real /\ ipc'.sockets = ipc.sockets /\ ipc'.pending = ipc.pending
        /\ ipc'.owed = ipc.owed /\ ipc'.done = ipc.done /\ ipc'.seen = ipc.seen
        /\ PipeTypeOK'
    BY <1>1, <2>1, <2>3
  <2>5. \A p \in Pids : (Live(p)' <=> Live(p)) /\ (IsGame(p)' <=> IsGame(p)) /\ ProcessKey(p)' = ProcessKey(p)
    BY <2>4 DEF Live, IsGame, ProcessKey
  <2>6. ProcsInv' /\ CacheInv' /\ SeenInv'
    BY <2>4, <2>5 DEF PipeInv, ProcsInv, CacheInv, SeenInv, PipesKnowTheirGame, Playing
  <2>7. IsGame(h.pid) => h.samples < process.lag
    BY <1>1, <1>2, <1>7 DEF PipeApp, ResolveAppId, BoundApp
  <2>8. HandInv'
    BY <1>1, <1>2, <2>2, <2>3, <2>4, <2>5, <2>7 DEF HandInv
  <2>9. InjectInv' /\ OwedCallsInv'
    BY <2>4 DEF PipeInv, InjectInv, Wanted, OwedCallsInv, OwedCallsAreKept
  <2> QED
    BY <2>4, <2>6, <2>8, <2>9 DEF PipeInv
<1>8. CASE FromName
  <2> DEFINE played == IF Live(h.pid) THEN process.game ELSE Unbound
             app == IF played \in Named THEN played ELSE Unbound
  <2>1. Finish(app) /\ h.env = Unbound /\ h.samples = kAppIdResolveRetries
    BY <1>8 DEF FromName
  <2>2. app \in AppIds
    BY <1>2, <1>3
  <2>3. IsGame(h.pid) => process.env = Unbound /\ ~(process.lag < kAppIdResolveRetries)
    BY <1>2, <2>1, PipeAssumption
  <2>4. IsGame(h.pid) /\ process.game \in Named => app = process.game
    BY <1>2
  <2> HIDE DEF app
  <2> QED
    BY <1>1, <2>1, <2>2, <2>3, <2>4, FinishPipeInv
<1> QED
  BY <1>5, <1>6, <1>7, <1>8

LEMMA SocketsPipeInv ==
  ASSUME PipeInv, NEW pid \in Pids, UseSockets(pid)
  PROVE  PipeInv'
<1> DEFINE process == ipc.procs[pid]
           after == [process EXCEPT !.p2p = TRUE]
           procs == [ipc.procs EXCEPT ![pid] = after]
           sockets == ipc.sockets \/ ipc.real # Unbound
<1>1. PipeTypeOK /\ process \in Processes /\ IsGame(pid) /\ Live(pid) /\ ipc.hand = Idle
  BY DEF PipeInv, UseSockets, IsGame
<1>2. /\ after \in Processes /\ after.birth = process.birth /\ after.game = process.game
      /\ after.env = process.env /\ after.lag = process.lag /\ after.fix = process.fix
      /\ after.flag = process.flag /\ after.p2p = TRUE
  BY <1>1 DEF Processes
<1>3. ipc' = [ipc EXCEPT !.sockets = sockets, !.procs = procs]
  BY <1>1 DEF UseSockets
<1>4. sockets \in BOOLEAN /\ (sockets <=> ipc.sockets \/ ipc.real # Unbound)
  BY <1>1
<1> HIDE DEF after, sockets
<1>5. /\ procs \in [Pids -> Processes] /\ procs[pid] = after
      /\ \A q \in Pids \ {pid} : procs[q] = ipc.procs[q]
  BY <1>1, <1>2
<1> HIDE DEF procs
<1>6. /\ ipc'.procs = procs /\ ipc'.births = ipc.births /\ ipc'.cache = ipc.cache
      /\ ipc'.hand = ipc.hand /\ ipc'.injected = ipc.injected /\ ipc'.tries = ipc.tries
      /\ ipc'.real = ipc.real /\ ipc'.sockets = sockets /\ ipc'.pending = ipc.pending
      /\ ipc'.owed = ipc.owed /\ ipc'.done = ipc.done /\ ipc'.seen = ipc.seen
      /\ PipeTypeOK'
  BY <1>1, <1>3, <1>4, <1>5
<1>7. Live(pid)' /\ IsGame(pid)'
  <2>1. process.birth \in 1 .. ipc.births /\ process.game # Unbound
    BY <1>1 DEF PipeInv, ProcsInv, IsGame
  <2>2. after # Gone
    BY <1>1, <1>2, <2>1 DEF Gone
  <2> QED
    BY <1>2, <1>5, <1>6, <2>1, <2>2 DEF Live, IsGame
<1>8. \A p \in Pids : (Live(p)' <=> Live(p)) /\ (IsGame(p)' <=> IsGame(p)) /\ ProcessKey(p)' = ProcessKey(p)
  BY <1>1, <1>2, <1>5, <1>6, <1>7 DEF Live, IsGame, ProcessKey
<1>9. \A p \in Pids : /\ procs[p].birth = ipc.procs[p].birth /\ procs[p].game = ipc.procs[p].game
                      /\ procs[p].env = ipc.procs[p].env /\ procs[p].lag = ipc.procs[p].lag
                      /\ procs[p].fix = ipc.procs[p].fix
  BY <1>2, <1>5
<1>10. ProcsInv'
  <2> SUFFICES ASSUME NEW p \in Pids
               PROVE  /\ Live(p) => procs[p].birth \in 1 .. ipc.births
                      /\ procs[p].env \in {Unbound, procs[p].game}
                      /\ IsGame(p) => IF procs[p].fix
                           THEN ipc.real = procs[p].game /\ (sockets <=> procs[p].p2p)
                           ELSE ipc.real = Unbound
                      /\ \A q \in Pids : IsGame(p) /\ IsGame(q) => p = q
    BY <1>6, <1>8 DEF ProcsInv
  <2>1. IsGame(p) => p = pid
    BY <1>1 DEF PipeInv, ProcsInv
  <2>2. process.game # Unbound
    BY <1>1 DEF IsGame
  <2>3. IF procs[pid].fix THEN ipc.real = procs[pid].game /\ (sockets <=> procs[pid].p2p)
                          ELSE ipc.real = Unbound
    BY <1>1, <1>2, <1>4, <1>5, <2>2 DEF PipeInv, ProcsInv
  <2>4. (Live(p) => procs[p].birth \in 1 .. ipc.births) /\ procs[p].env \in {Unbound, procs[p].game}
    BY <1>9 DEF PipeInv, ProcsInv
  <2> QED
    BY <2>1, <2>3, <2>4 DEF PipeInv, ProcsInv
<1>11. CacheInv'
  BY <1>6, <1>8, <1>9 DEF PipeInv, CacheInv
<1>12. HandInv'
  BY <1>1, <1>6 DEF HandInv
<1>13. SeenInv'
  BY <1>6, <1>8, <1>9 DEF PipeInv, SeenInv, PipesKnowTheirGame, Playing
<1>14. InjectInv' /\ OwedCallsInv'
  BY <1>6 DEF PipeInv, InjectInv, Wanted, OwedCallsInv, OwedCallsAreKept
<1> QED
  BY <1>6, <1>10, <1>11, <1>12, <1>13, <1>14 DEF PipeInv

(* What is answered to GetAppID: the game's own id until it uses sockets   *)
(* under -onlinefix.                                                       *)
LEMMA ToldTheGame ==
  ASSUME PipeInv, NEW pid \in Pids, GetAppID(pid)
  PROVE  LET process == ipc.procs[pid]
             answered == IF process.fix THEN kOnlineFixAppId ELSE process.game
         IN  /\ ipc'.told = IF process.fix /\ process.p2p /\ Dispatched(pid) THEN kOnlineFixAppId
                            ELSE IF Dispatched(pid) THEN process.game ELSE answered
             /\ Dispatched(pid) <=> process.game \in Configured \ ipc.owned
             /\ ipc' = [ipc EXCEPT !.told = ipc'.told]
             /\ ipc'.told \in AppIds \cup {kOnlineFixAppId}
<1> DEFINE process == ipc.procs[pid]
           native == IF process.fix THEN kOnlineFixAppId ELSE process.game
           answered == IF ~Dispatched(pid) \/ ShouldReportOnlineFixAppId THEN native ELSE CallApp(pid)
<1>1. PipeTypeOK /\ IsGame(pid) /\ process.game \in AppIds /\ process.game # Unbound
  BY DEF PipeInv, GetAppID, IsGame, Processes
<1>2. IF process.fix THEN ipc.real = process.game /\ (ipc.sockets <=> process.p2p)
                     ELSE ipc.real = Unbound
  BY <1>1 DEF PipeInv, ProcsInv
<1>3. CallApp(pid) = process.game
  BY <1>1, <1>2 DEF CallApp, ResolveAppId
<1>4. ShouldReportOnlineFixAppId <=> process.fix /\ process.p2p
  BY <1>1, <1>2 DEF ShouldReportOnlineFixAppId
<1>5. ipc' = [ipc EXCEPT !.told = answered]
  BY DEF GetAppID
<1>6. answered = IF process.fix /\ process.p2p /\ Dispatched(pid) THEN kOnlineFixAppId
             ELSE IF Dispatched(pid) THEN process.game ELSE native
  BY <1>3, <1>4
<1>7. answered \in AppIds \cup {kOnlineFixAppId}
  BY <1>1, <1>6
<1>8. Dispatched(pid) <=> process.game \in Configured \ ipc.owned
  BY <1>3 DEF Dispatched, HasDepot
<1> HIDE DEF answered
<1>9. ipc'.told = answered
  BY <1>1, <1>5
<1> QED
  BY <1>5, <1>6, <1>7, <1>8, <1>9

(* The facts about processes, handshakes and injections outlast a step that *)
(* changes none of what they speak of.                                      *)
LEMMA KeptPipeInv ==
  ASSUME PipeInv, PipeTypeOK',
         ipc'.procs = ipc.procs, ipc'.births = ipc.births, ipc'.cache = ipc.cache, ipc'.hand = ipc.hand,
         ipc'.injected = ipc.injected, ipc'.tries = ipc.tries, ipc'.real = ipc.real,
         ipc'.sockets = ipc.sockets, ipc'.seen = ipc.seen
  PROVE  PipeTypeOK' /\ ProcsInv' /\ CacheInv' /\ HandInv' /\ SeenInv' /\ InjectInv'
<1>1. \A p \in Pids : /\ Live(p)' <=> Live(p)
                      /\ IsGame(p)' <=> IsGame(p)
                      /\ ProcessKey(p)' = ProcessKey(p)
  BY DEF Live, IsGame, ProcessKey
<1>2. ProcsInv' /\ CacheInv'
  BY <1>1 DEF PipeInv, ProcsInv, CacheInv
<1>3. SeenInv'
  BY <1>1 DEF PipeInv, SeenInv, PipesKnowTheirGame, Playing
<1>4. InjectInv'
  BY DEF PipeInv, InjectInv, Wanted
<1>5. ipc.hand # Idle => ipc.hand.pid \in Pids
  BY DEF PipeInv, Hands
<1>6. HandInv'
  BY <1>1, <1>5 DEF PipeInv, HandInv
<1> QED
  BY <1>2, <1>3, <1>4, <1>6

LEMMA OwnedPipeInv ==
  ASSUME PipeInv, NEW app \in GameApps, MarkOwned(app)
  PROVE  PipeInv'
<1> DEFINE owned == ipc.owned \cup {app}
<1>1. PipeTypeOK /\ OwedCallsInv /\ ipc' = [ipc EXCEPT !.owned = owned]
  BY DEF PipeInv, MarkOwned
<1>2. owned \in SUBSET GameApps
  BY <1>1
<1> HIDE DEF owned
<1>3. /\ ipc'.procs = ipc.procs /\ ipc'.births = ipc.births /\ ipc'.cache = ipc.cache
      /\ ipc'.hand = ipc.hand /\ ipc'.injected = ipc.injected /\ ipc'.tries = ipc.tries
      /\ ipc'.real = ipc.real /\ ipc'.sockets = ipc.sockets /\ ipc'.pending = ipc.pending
      /\ ipc'.owed = ipc.owed /\ ipc'.done = ipc.done /\ ipc'.seen = ipc.seen
      /\ PipeTypeOK'
  BY <1>1, <1>2
<1> QED
  BY <1>1, <1>3, KeptPipeInv DEF PipeInv, OwedCallsInv, OwedCallsAreKept

(* Calls only add to what is owed and answered.                            *)
LEMMA CallPipeInv ==
  ASSUME PipeInv, NEW pid \in Pids,
         GetAppID(pid) \/ RequestEncryptedAppTicket(pid) \/ GetAPICallResult(pid)
  PROVE  PipeInv'
<1> DEFINE Others == /\ ipc'.procs = ipc.procs /\ ipc'.births = ipc.births
                     /\ ipc'.cache = ipc.cache /\ ipc'.hand = ipc.hand
                     /\ ipc'.injected = ipc.injected /\ ipc'.tries = ipc.tries
                     /\ ipc'.real = ipc.real /\ ipc'.sockets = ipc.sockets
                     /\ ipc'.seen = ipc.seen /\ PipeTypeOK'
<1>1. PipeTypeOK /\ OwedCallsInv
  BY DEF PipeInv
<1>2. SUFFICES Others /\ OwedCallsInv'
  BY KeptPipeInv DEF PipeInv
<1>3. CASE GetAppID(pid)
  <2>1. ipc' = [ipc EXCEPT !.told = ipc'.told] /\ ipc'.told \in AppIds \cup {kOnlineFixAppId}
    BY <1>3, ToldTheGame
  <2>2. Others /\ UNCHANGED <<ipc.owed, ipc.pending, ipc.done>>
    BY <1>1, <2>1
  <2> QED
    BY <1>1, <2>2 DEF OwedCallsInv, OwedCallsAreKept
<1>4. CASE RequestEncryptedAppTicket(pid)
  <2>1. PICK n \in Nat : ipc.owed = 1 .. n
    BY <1>1 DEF OwedCallsInv
  <2>2. Cardinality(ipc.owed) = n
    <3>1. Cardinality(1 .. n) = IF 1 > n THEN 0 ELSE n - 1 + 1
      BY FS_Interval
    <3> QED
      BY <2>1, <3>1
  <2>3. ipc' = [ipc EXCEPT !.pending = @ \cup {n + 1}, !.owed = @ \cup {n + 1}]
    BY <1>4, <2>2 DEF RequestEncryptedAppTicket
  <2>4. /\ Others /\ ipc'.owed = ipc.owed \cup {n + 1}
        /\ ipc'.pending = ipc.pending \cup {n + 1} /\ ipc'.done = ipc.done
    <3> DEFINE owing == ipc.owed \cup {n + 1}
               pending == ipc.pending \cup {n + 1}
    <3>1. owing \in SUBSET Nat /\ pending \in SUBSET Nat
      BY <1>1, <2>1
    <3>2. ipc' = [ipc EXCEPT !.pending = pending, !.owed = owing]
      BY <2>3
    <3> HIDE DEF owing, pending
    <3>3. /\ Others /\ ipc'.owed = owing /\ ipc'.pending = pending /\ ipc'.done = ipc.done
      BY <1>1, <3>1, <3>2
    <3> QED
      BY <3>3 DEF owing, pending
  <2>5. ipc'.owed = 1 .. (n + 1) /\ n + 1 \notin ipc.owed /\ n + 1 \in Nat
    BY <2>1, <2>4
  <2> QED
    BY <1>1, <2>4, <2>5 DEF OwedCallsInv, OwedCallsAreKept
<1>5. CASE GetAPICallResult(pid)
  <2>1. PICK call \in ipc.pending, fits \in BOOLEAN : ipc' = AnswerCall(call, fits)
    BY <1>5 DEF GetAPICallResult
  <2>2. CASE fits
    <3>1. ipc' = [ipc EXCEPT !.pending = @ \ {call}, !.done = @ \cup {call}]
      BY <2>1, <2>2 DEF AnswerCall
    <3>2. /\ Others /\ ipc'.owed = ipc.owed /\ ipc'.pending = ipc.pending \ {call}
          /\ ipc'.done = ipc.done \cup {call}
      BY <1>1, <3>1
    <3> QED
      BY <1>1, <3>2 DEF OwedCallsInv, OwedCallsAreKept
  <2>3. CASE ~fits
    BY <1>1, <2>1, <2>3 DEF AnswerCall, OwedCallsInv, OwedCallsAreKept
  <2> QED
    BY <2>2, <2>3
<1> QED
  BY <1>3, <1>4, <1>5

LEMMA NextPipeInv == PipeInv /\ [PipeNext]_ipc => PipeInv'
<1> SUFFICES ASSUME PipeInv, [PipeNext]_ipc PROVE PipeInv'
  OBVIOUS
<1>1. CASE UNCHANGED ipc
  BY <1>1, ZenonT(30) DEF PipeInv, ProcsInv, CacheInv, HandInv, SeenInv, InjectInv, OwedCallsInv, Wanted,
              PipesKnowTheirGame, OwedCallsAreKept, Live, IsGame, ProcessKey, Playing
<1>2. ASSUME NEW pid \in Pids, SpawnGame(pid) \/ StartHelper(pid) \/ Exit(pid) PROVE PipeInv'
  BY <1>2, SpawnPipeInv, HelperPipeInv, ExitPipeInv
<1>3. ASSUME NEW pid \in Pids, OnHandshake(pid) \/ UseSockets(pid) PROVE PipeInv'
  BY <1>3, HandshakePipeInv, SocketsPipeInv
<1>4. ASSUME NEW pid \in Pids,
             GetAppID(pid) \/ RequestEncryptedAppTicket(pid) \/ GetAPICallResult(pid)
      PROVE  PipeInv'
  BY <1>4, CallPipeInv
<1>5. CASE FromEnvironment \/ Sample \/ FromName
  BY <1>5, ResolvePipeInv
<1>6. ASSUME NEW app \in GameApps, MarkOwned(app) PROVE PipeInv'
  BY <1>6, OwnedPipeInv
<1> QED
  BY <1>1, <1>2, <1>3, <1>4, <1>5, <1>6 DEF PipeNext

LEMMA AlwaysPipeInv == PipeSpec => []PipeInv
BY InitPipeInv, NextPipeInv, PTL DEF PipeSpec

(* Only GetAppID answers: every other step leaves the answer, or a new     *)
(* game takes it back.                                                     *)
LEMMA AnswersAreOfTheGame ==
  ASSUME PipeInv, PipeNext, NEW pid \in Playing, ipc'.told # ipc.told, ipc'.told # Unbound,
         ipc.procs[pid].game \in Configured \ ipc.owned
  PROVE  ipc'.told = IF ipc.procs[pid].fix /\ ipc.procs[pid].p2p
                     THEN kOnlineFixAppId ELSE ipc.procs[pid].game
<1>1. PipeTypeOK /\ pid \in Pids /\ IsGame(pid)
  BY DEF PipeInv, Playing
<1>2. ASSUME NEW p \in Pids, GetAppID(p)
      PROVE  ipc'.told = IF ipc.procs[pid].fix /\ ipc.procs[pid].p2p
                         THEN kOnlineFixAppId ELSE ipc.procs[pid].game
  <2>1. p = pid
    BY <1>1, <1>2 DEF GetAppID, PipeInv, ProcsInv
  <2> QED
    BY <1>2, <2>1, ToldTheGame
<1>3. ASSUME NEW p \in Pids, SpawnGame(p) PROVE FALSE
  BY <1>1, <1>3 DEF SpawnGame
<1>4. ASSUME NEW p \in Pids, StartHelper(p) \/ Exit(p) \/ OnHandshake(p) \/ UseSockets(p)
      PROVE  FALSE
  BY <1>1, <1>4 DEF StartHelper, Exit, OnHandshake, UseSockets
<1>5. ASSUME NEW p \in Pids, RequestEncryptedAppTicket(p) \/ GetAPICallResult(p) PROVE FALSE
  BY <1>1, <1>5 DEF RequestEncryptedAppTicket, GetAPICallResult, AnswerCall
<1>7. ASSUME NEW app \in GameApps, MarkOwned(app) PROVE FALSE
  BY <1>1, <1>7 DEF MarkOwned
<1>6. ASSUME FromEnvironment \/ Sample \/ FromName PROVE FALSE
  BY <1>1, <1>6 DEF FromEnvironment, Sample, FromName, Finish, Apply
<1> QED
  BY <1>2, <1>3, <1>4, <1>5, <1>6, <1>7 DEF PipeNext

(* However processes, pipes and calls follow each other, and however often *)
(* process ids are used again: a pipe is its own game's, a library is      *)
(* injected once into each process that asks for it, a promised call is    *)
(* answered once, and a game is told the id it should be told.             *)
THEOREM GamesAreToldApart == PipeSpec => PipesAreKnown
<1>1. PipeInv => PipesKnowTheirGame /\ InjectedExactlyOnce /\ OwedCallsAreKept
  <2> SUFFICES ASSUME PipeInv PROVE InjectedExactlyOnce
    BY DEF PipeInv, SeenInv, OwedCallsInv
  <2>1. \A k \in Tries : ipc.tries[k] = IF Wanted(k) THEN 1 ELSE 0
    <3>1. \A k \in Tries : ipc.tries[k] \in {0, 1} /\ (ipc.tries[k] = 1 <=> Wanted(k))
      BY DEF PipeInv, InjectInv
    <3> QED
      BY <3>1
  <2>2. DOMAIN ipc.tries = Tries
    BY DEF PipeInv
  <2> QED
    BY <2>1, <2>2 DEF InjectedExactlyOnce, Wanted
<1>2. PipeInv /\ [PipeNext]_ipc =>
        [\A pid \in Playing :
           (ipc'.told # ipc.told /\ ipc'.told # Unbound /\ ipc.procs[pid].game \in Configured \ ipc.owned)
           => ipc'.told = IF ipc.procs[pid].fix /\ ipc.procs[pid].p2p
                          THEN kOnlineFixAppId ELSE ipc.procs[pid].game]_ipc
  BY AnswersAreOfTheGame
<1> QED
  BY <1>1, <1>2, AlwaysPipeInv, PTL DEF PipeSpec, PipesAreKnown, ToldItsOwnId

-----------------------------------------------------------------------------

(* The two watcher threads.  The inductive invariant says which thread     *)
(* objects are joinable in each phase of the start, of a restart and of    *)
(* the exit.                                                               *)
Watchers == {"lua", "config"}
Both     == <<"lua", "config">>
LuaOnly  == <<"lua">>

Shaped ==
  /\ {"running", "object", "handlers", "init", "main", "lua", "config", "aborted"}
       \subseteq DOMAIN life
  /\ life.running \in [Watchers -> BOOLEAN]
  /\ life.object \in [Watchers -> {"empty", "alive", "finished"}]

(* InitThread starts the Lua watcher, then the config watcher; until it is *)
(* done nobody exits.                                                      *)
Starting ==
  life.init # "done" =>
    /\ life.main = "up" /\ life.config = "open" /\ life.object["config"] = "empty"
    /\ \/ /\ life.init \in {"parse", "start1"} /\ life.handlers = <<>>
          /\ ~life.running["lua"] /\ ~life.running["config"] /\ life.object["lua"] = "empty"
       \/ /\ life.init = "spawn1" /\ life.handlers = LuaOnly
          /\ life.running["lua"] /\ ~life.running["config"] /\ life.object["lua"] = "empty"
       \/ /\ life.init = "start2" /\ life.handlers = LuaOnly
          /\ life.running["lua"] /\ ~life.running["config"] /\ life.object["lua"] # "empty"
       \/ /\ life.init = "spawn2" /\ life.handlers = Both
          /\ life.running["lua"] /\ life.running["config"] /\ life.object["lua"] # "empty"

(* Who holds the Lua watcher's object while the config watcher restarts it.*)
Restarting ==
  \/ /\ life.config \in {"open", "wait", "load", "stop"}
     /\ life.running["lua"] /\ life.object["lua"] # "empty"
  \/ /\ life.config = "join"
     /\ ~life.running["lua"] /\ life.object["lua"] # "empty"
  \/ /\ life.config \in {"reload", "start"}
     /\ ~life.running["lua"] /\ life.object["lua"] = "empty"
  \/ /\ life.config = "spawn"
     /\ life.running["lua"] /\ life.object["lua"] = "empty"

(* Each exit handler leaves its watcher's object empty.                    *)
Exiting ==
  life.init = "done" =>
    /\ life.object["config"] # "alive" => life.config \in {"open", "wait"}
    /\ \/ /\ life.handlers = Both /\ life.main \in {"up", "exit", "join"}
          /\ life.object["config"] # "empty"
          /\ life.running["config"] <=> life.main # "join"
          /\ Restarting
       \/ /\ life.handlers = LuaOnly /\ life.main \in {"exit", "join"}
          /\ life.object["config"] = "empty" /\ life.object["lua"] # "empty"
          /\ life.running["lua"] <=> life.main # "join"
       \/ /\ life.handlers = <<>> /\ life.main \in {"exit", "gone"}
          /\ life.object["config"] = "empty" /\ life.object["lua"] = "empty"

LInv == Shaped /\ Starting /\ Exiting /\ ~life.aborted

LEMMA InitLInv == LifeInit => LInv
BY DEF LifeInit, LInv, Shaped, Starting, Exiting, Watchers

(* Steps that leave the threads' lives alone.                              *)
LEMMA Unaffected ==
  ASSUME LInv, DOMAIN life' = DOMAIN life,
         life'.running = life.running, life'.object = life.object,
         life'.handlers = life.handlers, life'.init = life.init,
         life'.main = life.main, life'.config = life.config, life'.aborted = life.aborted
  PROVE  LInv'
BY DEF LInv, Shaped, Starting, Exiting, Restarting

LEMMA EditsLInv ==
  ASSUME LInv, EditLuaPaths \/ \E f \in WatchedFiles : EditLuaFile(f)
  PROVE  LInv'
<1>1. CASE EditLuaPaths
  BY <1>1, Unaffected DEF EditLuaPaths, LInv, Shaped
<1>2. ASSUME NEW f \in WatchedFiles, EditLuaFile(f)
      PROVE  LInv'
  BY <1>2, Unaffected DEF EditLuaFile, LInv, Shaped
<1> QED
  BY <1>1, <1>2

LEMMA LuaLInv ==
  ASSUME LInv, LuaSteps
  PROVE  LInv'
<1>1. life.object["lua"] = "alive"
  BY DEF LuaSteps
<1>2. CASE life' = Closed(life)
  <2>1. /\ DOMAIN life' = DOMAIN life
        /\ life'.object = [life.object EXCEPT !["lua"] = "finished"]
        /\ life'.running = life.running /\ life'.handlers = life.handlers
        /\ life'.init = life.init /\ life'.main = life.main
        /\ life'.config = life.config /\ life'.aborted = life.aborted
    BY <1>2 DEF Closed, LInv, Shaped
  <2>2. /\ life'.object \in [Watchers -> {"empty", "alive", "finished"}]
        /\ life'.object["lua"] = "finished" /\ life'.object["config"] = life.object["config"]
    BY <2>1 DEF LInv, Shaped, Watchers
  <2> QED
    BY <1>1, <2>1, <2>2 DEF LInv, Shaped, Starting, Exiting, Restarting
<1>3. CASE life' # Closed(life)
  BY <1>3, Unaffected
  DEF LuaSteps, LuaOpens, LuaWaits, LuaDebounces, LuaProcesses, Merged, Parsed, LInv, Shaped
<1> QED
  BY <1>2, <1>3

LEMMA AppendSecond ==
  ASSUME NEW S, NEW s \in Seq(S), NEW e \in S, Len(s) = 1
  PROVE  /\ Append(s, e) \in Seq(S) /\ Len(Append(s, e)) = 2
         /\ Append(s, e)[1] = s[1] /\ Append(s, e)[2] = e
<1>1. Append(s, e)[Len(s) + 1] = e
  BY AppendProperties
<1>2. Append(s, e)[2] = e
  BY <1>1
<1>3. Append(s, e) \in Seq(S) /\ Len(Append(s, e)) = 2
  OBVIOUS
<1>4. Append(s, e)[1] = s[1]
  OBVIOUS
<1> QED
  BY <1>2, <1>3, <1>4

(* The names are two different positions of Both.                          *)
LEMMA Orders ==
  /\ StartOrder[1] = "lua" /\ StartOrder[2] = "config"
  /\ Last(Both) = "config" /\ Front(Both) = LuaOnly
  /\ Last(LuaOnly) = "lua" /\ Front(LuaOnly) = <<>>
  /\ Both # LuaOnly /\ Both # <<>> /\ LuaOnly # <<>>
  /\ Append(<<>>, "lua") = LuaOnly /\ Append(LuaOnly, "config") = Both
  /\ "lua" \in {Both[i] : i \in DOMAIN Both}
  /\ "config" \notin {LuaOnly[i] : i \in DOMAIN LuaOnly}
  /\ "lua" \notin {<<>>[i] : i \in DOMAIN <<>>}
<1>1. StartOrder[1] = "lua" /\ StartOrder[2] = "config"
  BY DEF StartOrder
<1>2. Both # LuaOnly /\ Both # <<>> /\ LuaOnly # <<>>
  BY DEF Both, LuaOnly
<1>3. Append(<<>>, "lua") = LuaOnly
  BY DEF LuaOnly
<1>4. Append(LuaOnly, "config") = Both
  <2>1. LuaOnly \in Seq(Watchers) /\ Both \in Seq(Watchers) /\ Len(LuaOnly) = 1 /\ Len(Both) = 2
        /\ LuaOnly[1] = "lua" /\ Both[1] = "lua" /\ Both[2] = "config"
    BY DEF LuaOnly, Both, Watchers
  <2>2. /\ Append(LuaOnly, "config") \in Seq(Watchers) /\ Len(Append(LuaOnly, "config")) = 2
        /\ Append(LuaOnly, "config")[1] = "lua" /\ Append(LuaOnly, "config")[2] = "config"
    <3>1. "config" \in Watchers
      BY DEF Watchers
    <3> QED
      BY <2>1, <3>1, AppendSecond
  <2>3. \A i \in 1 .. Len(Append(LuaOnly, "config")) : Append(LuaOnly, "config")[i] = Both[i]
    BY <2>1, <2>2
  <2> QED
    BY <2>1, <2>2, <2>3, SeqEqual
<1>5. Last(Both) = "config" /\ Last(LuaOnly) = "lua"
  BY DEF Last, Both, LuaOnly
<1>6. Front(Both) = LuaOnly
  <2>1. LuaOnly \in Seq(Watchers) /\ Both \in Seq(Watchers) /\ Len(LuaOnly) = 1 /\ Len(Both) = 2
        /\ LuaOnly[1] = "lua" /\ Both[1] = "lua"
    BY DEF LuaOnly, Both, Watchers
  <2>2. /\ Front(Both) \in Seq(Watchers) /\ Len(Front(Both)) = 1 /\ Front(Both)[1] = "lua"
    BY <2>1 DEF Front
  <2> QED
    BY <2>1, <2>2, SeqEqual
<1>7. Front(LuaOnly) = <<>>
  BY DEF Front, LuaOnly
<1>8. Both[1] = "lua" /\ 1 \in DOMAIN Both
  BY DEF Both
<1>9. "config" \notin {LuaOnly[i] : i \in DOMAIN LuaOnly}
  BY DEF LuaOnly
<1>10. "lua" \notin {<<>>[i] : i \in DOMAIN <<>>}
  OBVIOUS
<1> QED
  BY <1>1, <1>2, <1>3, <1>4, <1>5, <1>6, <1>7, <1>8, <1>9, <1>10

(* Start's first step registers an exit handler once.                      *)
LEMMA Flags ==
  ASSUME Shaped, NEW w \in Watchers, ~life.running[w]
  PROVE  /\ DOMAIN Flagged(life, w) = DOMAIN life
         /\ Flagged(life, w).running = [life.running EXCEPT ![w] = TRUE]
         /\ w \in {life.handlers[i] : i \in DOMAIN life.handlers} =>
              Flagged(life, w).handlers = life.handlers
         /\ w \notin {life.handlers[i] : i \in DOMAIN life.handlers} =>
              Flagged(life, w).handlers = Append(life.handlers, w)
         /\ \A field \in {"object", "init", "main", "lua", "config", "aborted"} :
              Flagged(life, w)[field] = life[field]
<1> DEFINE once  == w \in {life.handlers[i] : i \in DOMAIN life.handlers}
           flags == [life EXCEPT !.running = [life.running EXCEPT ![w] = TRUE]]
<1>1. Flagged(life, w) = [flags EXCEPT !.handlers = IF once THEN life.handlers
                                                     ELSE Append(life.handlers, w)]
  BY DEF Flagged, Shaped
<1>2. DOMAIN flags = DOMAIN life /\ flags.running = [life.running EXCEPT ![w] = TRUE]
  BY DEF Shaped
<1>3. \A field \in {"object", "init", "main", "lua", "config", "aborted"} :
        flags[field] = life[field]
  BY DEF Shaped
<1> HIDE DEF once, flags
<1>4. /\ DOMAIN Flagged(life, w) = DOMAIN flags
      /\ Flagged(life, w).running = flags.running
      /\ Flagged(life, w).handlers = IF once THEN life.handlers ELSE Append(life.handlers, w)
      /\ \A field \in {"object", "init", "main", "lua", "config", "aborted"} :
           Flagged(life, w)[field] = flags[field]
  BY <1>1, <1>2 DEF Shaped
<1> QED
  BY <1>2, <1>3, <1>4 DEF once

(* InitThread's steps, one by one.                                         *)
LEMMA StartSteps ==
  ASSUME InitSteps
  PROVE  \/ life.init = "parse" /\ life' = [Parsed(life, WatchedFiles) EXCEPT !.init = "start1"]
         \/ life.init = "start1" /\ life' = [Flagged(life, "lua") EXCEPT !.init = "spawn1"]
         \/ life.init = "spawn1" /\ life' = [Spawned(life, "lua") EXCEPT !.init = "start2"]
         \/ life.init = "start2" /\ life' = [Flagged(life, "config") EXCEPT !.init = "spawn2"]
         \/ life.init = "spawn2" /\ life' = [Spawned(life, "config") EXCEPT !.init = "done"]
<1>1. CASE life.init = "parse" /\ life' = [Parsed(life, WatchedFiles) EXCEPT !.init = "start1"]
  BY <1>1
<1>2. ASSUME NEW i \in 1 .. 2, life.init = <<"start1", "start2">>[i],
             life' = [Flagged(life, StartOrder[i]) EXCEPT !.init = <<"spawn1", "spawn2">>[i]]
      PROVE  \/ life.init = "start1" /\ life' = [Flagged(life, "lua") EXCEPT !.init = "spawn1"]
             \/ life.init = "start2" /\ life' = [Flagged(life, "config") EXCEPT !.init = "spawn2"]
  <2>1. CASE i = 1
    BY <1>2, <2>1, Orders
  <2>2. CASE i = 2
    BY <1>2, <2>2, Orders
  <2> QED
    BY <2>1, <2>2
<1>3. ASSUME NEW i \in 1 .. 2, life.init = <<"spawn1", "spawn2">>[i],
             life' = [Spawned(life, StartOrder[i]) EXCEPT !.init = <<"start2", "done">>[i]]
      PROVE  \/ life.init = "spawn1" /\ life' = [Spawned(life, "lua") EXCEPT !.init = "start2"]
             \/ life.init = "spawn2" /\ life' = [Spawned(life, "config") EXCEPT !.init = "done"]
  <2>1. CASE i = 1
    BY <1>3, <2>1, Orders
  <2>2. CASE i = 2
    BY <1>3, <2>2, Orders
  <2> QED
    BY <2>1, <2>2
<1> QED
  BY <1>1, <1>2, <1>3 DEF InitSteps

LEMMA InitThreadLInv ==
  ASSUME LInv, InitSteps
  PROVE  LInv'
<1> USE DEF LInv
<1>1. CASE life.init = "parse"
  <2>1. /\ DOMAIN life' = DOMAIN life /\ life'.init = "start1"
        /\ life'.object = life.object /\ life'.running = life.running
        /\ life'.handlers = life.handlers /\ life'.main = life.main
        /\ life'.config = life.config /\ life'.aborted = life.aborted
    BY <1>1, Orders, StartSteps DEF Parsed, Shaped
  <2> QED
    BY <1>1, <2>1 DEF Shaped, Starting, Exiting
<1>2. CASE life.init = "start1"
  <2>1. /\ DOMAIN life' = DOMAIN life /\ life'.init = "spawn1"
        /\ life'.object = life.object /\ life'.running = [life.running EXCEPT !["lua"] = TRUE]
        /\ life'.handlers = LuaOnly /\ life'.main = life.main
        /\ life'.config = life.config /\ life'.aborted = life.aborted
    <3>1. life' = [Flagged(life, "lua") EXCEPT !.init = "spawn1"] /\ ~life.running["lua"]
      BY <1>2, StartSteps DEF Starting
    <3>2. "lua" \notin {life.handlers[i] : i \in DOMAIN life.handlers}
      BY <1>2, Orders DEF Starting
    <3>3. Flagged(life, "lua").handlers = LuaOnly
      BY <1>2, <3>1, <3>2, Flags, Orders DEF Starting, Watchers
    <3> QED
      BY <3>1, <3>3, Flags DEF Shaped, Watchers
  <2> QED
    BY <1>2, <2>1 DEF Shaped, Starting, Exiting, Watchers
<1>3. CASE life.init = "spawn1"
  <2>1. /\ DOMAIN life' = DOMAIN life /\ life'.init = "start2"
        /\ life'.object = [life.object EXCEPT !["lua"] = "alive"] /\ life'.running = life.running
        /\ life'.handlers = life.handlers /\ life'.main = life.main
        /\ life'.config = life.config /\ life'.aborted = life.aborted
    BY <1>3, Orders, StartSteps DEF Spawned, Joinable, Shaped, Starting
  <2> QED
    BY <1>3, <2>1 DEF Shaped, Starting, Exiting, Watchers
<1>4. CASE life.init = "start2"
  <2>1. /\ DOMAIN life' = DOMAIN life /\ life'.init = "spawn2"
        /\ life'.object = life.object /\ life'.running = [life.running EXCEPT !["config"] = TRUE]
        /\ life'.handlers = Both /\ life'.main = life.main
        /\ life'.config = life.config /\ life'.aborted = life.aborted
    <3>1. life' = [Flagged(life, "config") EXCEPT !.init = "spawn2"] /\ ~life.running["config"]
      BY <1>4, StartSteps DEF Starting
    <3>2. "config" \notin {life.handlers[i] : i \in DOMAIN life.handlers}
      BY <1>4, Orders DEF Starting
    <3>3. Flagged(life, "config").handlers = Both
      BY <1>4, <3>1, <3>2, Flags, Orders DEF Starting, Watchers
    <3> QED
      BY <3>1, <3>3, Flags DEF Shaped, Watchers
  <2> QED
    BY <1>4, <2>1 DEF Shaped, Starting, Exiting, Watchers
<1>5. CASE life.init = "spawn2"
  <2>1. /\ DOMAIN life' = DOMAIN life /\ life'.init = "done"
        /\ life'.object = [life.object EXCEPT !["config"] = "alive"] /\ life'.running = life.running
        /\ life'.handlers = life.handlers /\ life'.main = life.main
        /\ life'.config = "open" /\ life'.aborted = life.aborted
    BY <1>5, Orders, StartSteps DEF Spawned, Joinable, Shaped, Starting
  <2> QED
    BY <1>5, <2>1 DEF Shaped, Starting, Exiting, Restarting, Watchers
<1> QED
  BY <1>1, <1>2, <1>3, <1>4, <1>5, StartSteps

LEMMA ConfigLInv ==
  ASSUME LInv, ConfigSteps
  PROVE  LInv'
<1> USE DEF LInv
<1>0. /\ life.object["config"] = "alive" /\ life.init = "done"
      /\ life.handlers = Both /\ Restarting
  BY DEF ConfigSteps, Starting, Exiting
<1>1. CASE life.config \in {"open", "wait", "load"}
  <2>1. /\ DOMAIN life' = DOMAIN life /\ life'.init = life.init
        /\ life'.running = life.running
        /\ life'.handlers = life.handlers /\ life'.main = life.main
        /\ life'.aborted = life.aborted
        /\ life'.config \in {"open", "wait", "load", "stop"}
        /\ \/ life'.object = life.object
           \/ /\ life'.object = [life.object EXCEPT !["config"] = "finished"]
              /\ life'.config \in {"open", "wait"}
    BY <1>1
    DEF ConfigSteps, ConfigOpens, ConfigWaits, ReloadConfig, StopLua, ReloadDirectories, StartLua,
        Shaped
  <2> QED
    BY <1>0, <1>1, <2>1 DEF Shaped, Starting, Exiting, Restarting, Watchers
<1>2. CASE life.config = "stop"
  <2>1. /\ DOMAIN life' = DOMAIN life /\ life'.init = life.init
        /\ life'.running = [life.running EXCEPT !["lua"] = FALSE]
        /\ life'.handlers = life.handlers /\ life'.main = life.main
        /\ life'.object = life.object /\ life'.aborted = life.aborted
        /\ life'.config = "join"
    BY <1>0, <1>2
    DEF ConfigSteps, ConfigOpens, ConfigWaits, ReloadConfig, StopLua, ReloadDirectories, StartLua,
        Unflagged, Shaped, Restarting
  <2> QED
    BY <1>0, <1>2, <2>1 DEF Shaped, Starting, Exiting, Restarting, Watchers
<1>3. CASE life.config = "join"
  <2>1. /\ DOMAIN life' = DOMAIN life /\ life'.init = life.init
        /\ life'.running = life.running
        /\ life'.handlers = life.handlers /\ life'.main = life.main
        /\ life'.object = [life.object EXCEPT !["lua"] = "empty"] /\ life'.aborted = life.aborted
        /\ life'.config = "reload"
    BY <1>0, <1>3
    DEF ConfigSteps, ConfigOpens, ConfigWaits, ReloadConfig, StopLua, ReloadDirectories, StartLua,
        CanJoin, Joined, Shaped, Restarting, Watchers
  <2> QED
    BY <1>0, <1>3, <2>1 DEF Shaped, Starting, Exiting, Restarting, Watchers
<1>4. CASE life.config = "reload"
  <2>1. /\ DOMAIN life' = DOMAIN life /\ life'.init = life.init
        /\ life'.running = life.running
        /\ life'.handlers = life.handlers /\ life'.main = life.main
        /\ life'.object = life.object /\ life'.aborted = life.aborted
        /\ life'.config = "start"
    BY <1>0, <1>4
    DEF ConfigSteps, ConfigOpens, ConfigWaits, ReloadConfig, StopLua, ReloadDirectories, StartLua,
        Parsed, Shaped
  <2> QED
    BY <1>0, <1>4, <2>1 DEF Shaped, Starting, Exiting, Restarting, Watchers
<1>5. CASE life.config = "start"
  <2>1. /\ DOMAIN life' = DOMAIN life /\ life'.init = life.init
        /\ life'.running = [life.running EXCEPT !["lua"] = TRUE]
        /\ life'.handlers = life.handlers /\ life'.main = life.main
        /\ life'.object = life.object /\ life'.aborted = life.aborted
        /\ life'.config = "spawn"
    <3>1. ~life.running["lua"]
      BY <1>0, <1>5 DEF Restarting
    <3>2. life' = [Flagged(life, "lua") EXCEPT !.config = "spawn"]
      BY <1>5, <3>1
      DEF ConfigSteps, ConfigOpens, ConfigWaits, ReloadConfig, StopLua, ReloadDirectories, StartLua
    <3>3. Flagged(life, "lua").handlers = life.handlers
      BY <1>0, <3>1, Flags, Orders DEF Watchers
    <3> QED
      BY <3>1, <3>2, <3>3, Flags DEF Shaped, Watchers
  <2> QED
    BY <1>0, <1>5, <2>1 DEF Shaped, Starting, Exiting, Restarting, Watchers
<1>6. CASE life.config = "spawn"
  <2>1. /\ DOMAIN life' = DOMAIN life /\ life'.init = life.init
        /\ life'.running = life.running
        /\ life'.handlers = life.handlers /\ life'.main = life.main
        /\ life'.object = [life.object EXCEPT !["lua"] = "alive"] /\ life'.aborted = life.aborted
        /\ life'.config = "wait"
    BY <1>0, <1>6
    DEF ConfigSteps, ConfigOpens, ConfigWaits, ReloadConfig, StopLua, ReloadDirectories, StartLua,
        Spawned, Joinable, Shaped, Restarting
  <2> QED
    BY <1>0, <1>6, <2>1 DEF Shaped, Starting, Exiting, Restarting, Watchers
<1> QED
  BY <1>0, <1>1, <1>2, <1>3, <1>4, <1>5, <1>6 DEF Restarting

LEMMA ExitSteamLInv ==
  ASSUME ~EarlyExit, LInv, ExitSteam
  PROVE  LInv'
<1>1. /\ DOMAIN life' = DOMAIN life /\ life'.init = life.init /\ life.init = "done"
      /\ life'.running = life.running /\ life'.object = life.object
      /\ life'.handlers = life.handlers /\ life.main = "up" /\ life'.main = "exit"
      /\ life'.config = life.config /\ life'.aborted = life.aborted
  BY DEF ExitSteam, LInv, Shaped
<1> QED
  BY <1>1 DEF LInv, Shaped, Starting, Exiting, Restarting

LEMMA ExitLInv ==
  ASSUME LInv, ExitSteps
  PROVE  LInv'
<1> USE DEF LInv
<1>0. life.init = "done"
  BY DEF ExitSteps, RunHandler, HandlerJoins, DestroyThreads, Starting
<1>1. CASE RunHandler
  <2>1. life.handlers \in {Both, LuaOnly} /\ life.running[Last(life.handlers)]
    BY <1>0, <1>1, Orders DEF RunHandler, Exiting
  <2>2. /\ DOMAIN life' = DOMAIN life /\ life'.init = life.init
        /\ life'.running = [life.running EXCEPT ![Last(life.handlers)] = FALSE]
        /\ life'.object = life.object /\ life'.handlers = life.handlers
        /\ life.main = "exit" /\ life'.main = "join"
        /\ life'.config = life.config /\ life'.aborted = life.aborted
    BY <1>1, <2>1 DEF RunHandler, Stopping, Unflagged, Shaped
  <2> QED
    BY <1>0, <2>1, <2>2, Orders DEF Shaped, Starting, Exiting, Restarting, Watchers
<1>2. CASE HandlerJoins
  <2>1. life.handlers \in {Both, LuaOnly} /\ life.object[Last(life.handlers)] = "finished"
    BY <1>0, <1>2, Orders DEF HandlerJoins, CanJoin, Stopping, Exiting, Shaped, Watchers
  <2>2. /\ DOMAIN life' = DOMAIN life /\ life'.init = life.init
        /\ life'.running = life.running
        /\ life'.object = [life.object EXCEPT ![Last(life.handlers)] = "empty"]
        /\ life'.handlers = Front(life.handlers)
        /\ life.main = "join" /\ life'.main = "exit"
        /\ life'.config = life.config /\ life'.aborted = life.aborted
    BY <1>2, <2>1 DEF HandlerJoins, Stopping, Joined, Shaped
  <2> QED
    BY <1>0, <2>1, <2>2, Orders DEF Shaped, Starting, Exiting, Restarting, Watchers
<1>3. CASE DestroyThreads
  <2>1. life.object["lua"] = "empty" /\ life.object["config"] = "empty"
    BY <1>0, <1>3, Orders DEF DestroyThreads, Exiting
  <2>2. /\ DOMAIN life' = DOMAIN life /\ life'.init = life.init
        /\ life'.running = life.running /\ life'.object = life.object
        /\ life'.handlers = life.handlers /\ life.handlers = <<>> /\ life'.main = "gone"
        /\ life'.config = life.config /\ life'.aborted = life.aborted
    BY <1>3, <2>1 DEF DestroyThreads, Joinable, Shaped
  <2> QED
    BY <1>0, <2>1, <2>2, Orders DEF Shaped, Starting, Exiting
<1> QED
  BY <1>1, <1>2, <1>3 DEF ExitSteps

LEMMA NextLInv ==
  ASSUME ~EarlyExit
  PROVE  LInv /\ [LifeNext]_life => LInv'
<1> SUFFICES ASSUME LInv, [LifeNext]_life PROVE LInv'
  OBVIOUS
<1>1. CASE UNCHANGED life
  BY <1>1, Unaffected
<1>2. CASE LifeNext
  BY <1>2, EditsLInv, LuaLInv, InitThreadLInv, ConfigLInv, ExitSteamLInv, ExitLInv DEF LifeNext
<1> QED
  BY <1>1, <1>2

(* "Stop() gets to join while the object is still alive"                   *)
(* (LuaFileWatcher.cpp:218): whatever is edited, however a restart meets   *)
(* the exit and whichever thread ended by itself, std::terminate is not    *)
(* called, and the reload never shares LuaConfig with the Lua watcher.     *)
THEOREM ThreadsStaySafe ==
  ASSUME ~EarlyExit
  PROVE  LifeSpec => []ThreadsAreSafe
<1>1. LInv => ThreadsAreSafe
  BY Orders DEF LInv, Starting, Exiting, Restarting, ThreadsAreSafe, NeverAborted, OneReader
<1> QED
  BY InitLInv, NextLInv, <1>1, PTL DEF LifeSpec
=============================================================================
