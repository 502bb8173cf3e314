------------------------------- MODULE Trap -------------------------------
(***************************************************************************)
(* Soft breakpoints on the first byte of Steam's functions: the sites of   *)
(* VehCommon.cpp driven by the trap handler of SFPlatform (Linux/Trap.cpp, *)
(* Windows/Trap.cpp), while Steam's threads call those functions.  A       *)
(* one-shot site captures the callee's object once; a persistent one is    *)
(* armed again by the single step over the instruction it replaced.        *)
(***************************************************************************)
EXTENDS Integers

CONSTANTS
  Callers,      \* Steam's threads
  OneShot,      \* sites of ARM_CAPTURE
  Persistent,   \* sites of ARM_INT3 with persistent = true
  MaxCalls      \* bound: calls made to the trapped functions

Sites == OneShot \cup Persistent

ASSUME TrapAssumption == OneShot \cap Persistent = {} /\ MaxCalls \in Nat

VARIABLE trap   \* the bytes, the registry, and where each thread is

(* int3     the sites whose first byte is 0xCC; registered is g_sites       *)
(* handler  the shared handler is installed; ended is set by DisarmAll      *)
(* next     the site being armed and how far Arm has come                   *)
(* threads  where a thread is: outside; at the first instruction of a site; *)
(*          stopped by the breakpoint or the step there; in the function;   *)
(*          or dead of a trap nobody took.  tf is its trap flag             *)
(* hits     the sites whose onHit has run; calls counts the calls           *)
Outside == [where |-> "outside", site |-> "none", tf |-> FALSE]

TrapInit ==
  trap = [int3 |-> {}, registered |-> {}, handler |-> FALSE, ended |-> FALSE,
          arming |-> {}, threads |-> [t \in Callers |-> Outside], hits |-> {}, calls |-> 0]

At(t, where) == trap.threads[t].where = where
Put(t, where, tf) == [trap.threads EXCEPT ![t] = [@ EXCEPT !.where = where, !.tf = tf]]

-----------------------------------------------------------------------------
(* Arm: the handler is there before the site, and the site before its byte. *)
(* The threads go on meanwhile, between its steps too.                      *)
(* Mutant: the byte is written first.                                       *)
ArmByteFirst(s) ==
  /\ ~trap.ended /\ s \notin trap.registered
  /\ IF s \notin trap.arming
     THEN trap' = [trap EXCEPT !.arming = @ \cup {s}, !.int3 = @ \cup {s}]
     ELSE trap' = [trap EXCEPT !.arming = @ \ {s}, !.handler = TRUE, !.registered = @ \cup {s}]

Arm(s) ==
  /\ ~trap.ended
  /\ \/ /\ s \notin trap.registered /\ trap.arming = {}
        /\ trap' = [trap EXCEPT !.handler = TRUE, !.registered = @ \cup {s}, !.arming = {s}]
     \/ /\ s \in trap.arming
        /\ trap' = [trap EXCEPT !.arming = @ \ {s}, !.int3 = @ \cup {s}]

Call(t, s) ==
  /\ At(t, "outside") /\ trap.calls < MaxCalls
  /\ trap' = [trap EXCEPT !.calls = @ + 1,
                          !.threads[t] = [where |-> "before", site |-> s, tf |-> FALSE]]

(* The processor at the first instruction: the breakpoint, or the           *)
(* instruction itself and then the step the trap flag asks for.             *)
Execute(t) ==
  /\ At(t, "before")
  /\ LET th == trap.threads[t]
     IN  trap' = [trap EXCEPT !.threads =
                    IF th.site \in trap.int3 THEN Put(t, "breakpoint", th.tf)
                    ELSE IF th.tf THEN Put(t, "step", TRUE) ELSE Put(t, "in", FALSE)]

(* Past it, the trap flag still set would stop at every instruction.        *)
Return(t) ==
  /\ At(t, "in")
  /\ trap' = [trap EXCEPT !.threads[t] = IF @.tf THEN [@ EXCEPT !.where = "dead"] ELSE Outside]

-----------------------------------------------------------------------------
(* Mutant: a persistent site is not stepped over.                           *)
OnBreakpointOnce(t) ==
  /\ At(t, "breakpoint")
  /\ LET s == trap.threads[t].site
     IN  IF trap.handler /\ s \in trap.registered
         THEN trap' = [trap EXCEPT !.int3 = @ \ {s}, !.hits = @ \cup {s}, !.threads = Put(t, "before", FALSE)]
         ELSE trap' = [trap EXCEPT !.threads = Put(t, "dead", FALSE)]

(* OnBreakpoint, reached through SignalHandler or VehThunk: the original    *)
(* byte is put back, onHit runs, and the thread resumes at it.              *)
OnBreakpoint(t) ==
  /\ At(t, "breakpoint")
  /\ LET th == trap.threads[t]
     IN  IF trap.handler /\ th.site \in trap.registered
         THEN trap' = [trap EXCEPT !.int3 = @ \ {th.site}, !.hits = @ \cup {th.site},
                                   !.threads = Put(t, "before", th.tf \/ th.site \in Persistent)]
         ELSE trap' = [trap EXCEPT !.threads = Put(t, "dead", FALSE)]

(* Mutant: the trap flag of the saved context is left set.                  *)
OnSingleStepKeepsFlag(t) ==
  /\ At(t, "step")
  /\ LET s == trap.threads[t].site
     IN  IF trap.handler /\ s \in trap.registered \cap Persistent
         THEN trap' = [trap EXCEPT !.int3 = @ \cup {s}, !.threads = Put(t, "in", TRUE)]
         ELSE trap' = [trap EXCEPT !.threads = Put(t, "dead", FALSE)]

(* OnSingleStep: the site one instruction back is armed again; the trap     *)
(* flag of the saved context is cleared.                                    *)
OnSingleStep(t) ==
  /\ At(t, "step")
  /\ LET s == trap.threads[t].site
     IN  IF trap.handler /\ s \in trap.registered \cap Persistent
         THEN trap' = [trap EXCEPT !.int3 = @ \cup {s}, !.threads = Put(t, "in", FALSE)]
         ELSE trap' = [trap EXCEPT !.threads = Put(t, "dead", FALSE)]

(* DisarmAll puts the bytes back, then forgets the sites; RemoveHandler     *)
(* follows.  A thread may still be at a step between them.                  *)
DisarmAll ==
  /\ trap.arming = {} /\ trap.registered # {}
  /\ trap' = IF ~trap.ended THEN [trap EXCEPT !.ended = TRUE, !.int3 = @ \ trap.registered]
             ELSE [trap EXCEPT !.registered = {}]

RemoveHandler ==
  /\ trap.ended /\ trap.registered = {} /\ trap.handler
  /\ trap' = [trap EXCEPT !.handler = FALSE]

TrapNext ==
  \/ \E s \in Sites : Arm(s) \/ \E t \in Callers : Call(t, s)
  \/ \E t \in Callers : Execute(t) \/ Return(t) \/ OnBreakpoint(t) \/ OnSingleStep(t)
  \/ DisarmAll \/ RemoveHandler

TrapSpec == TrapInit /\ [][TrapNext]_trap

-----------------------------------------------------------------------------
(* While the hooks are installed every trap they cause is taken: no thread  *)
(* of Steam is killed by one, whatever moment of the installation or of     *)
(* another thread's step it meets.                                          *)
TrapsAreTaken == \A t \in Callers : At(t, "dead") => trap.ended

(* Once no thread is under way at a site, a persistent one is armed, hit or *)
(* not, and a one-shot one is armed exactly until it has captured.          *)
BytesSettle ==
  ~trap.ended =>
    \A s \in trap.registered \ trap.arming :
      (\A t \in Callers : trap.threads[t].site = s => trap.threads[t].where \in {"outside", "in"})
      => (s \in trap.int3 <=> (s \in Persistent \/ s \notin trap.hits))

(* Traps neither kill a thread nor get lost.                               *)
TrapsHold == TrapsAreTaken /\ BytesSettle
=============================================================================
