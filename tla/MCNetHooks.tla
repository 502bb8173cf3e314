----------------------------- MODULE MCNetHooks -----------------------------
(***************************************************************************)
(* NetHooks under several workloads: the queues at their limit beside one  *)
(* code request, and code requests for managed and other depots, queueing  *)
(* behind each other, beside a cloud call and a key request.               *)
(***************************************************************************)
EXTENDS NetHooks

CONSTANTS c1, c2, c3, c4, k1, j1, j2, j3

VARIABLE workload   \* the jobs this behaviour may send

MCCloudJobs == {c1, c2, c3, c4}
MCCodeJobs  == {j1, j2, j3}
Workloads   == {{c1, c2, c3, c4, j1}, {c1, c2, k1, j1}, {c1, c4, k1, j1, j2}, {c1, j1, j2, j3}}

MCInit == HooksInit /\ workload \in Workloads

MCNext ==
  /\ HooksNext /\ UNCHANGED workload
  /\ forwarded' \cup InSeq(swallowed') \cup asked' \subseteq workload

(* Nobody has to send a request, so the fairness is that of HooksSpec.     *)
MCSpec ==
  /\ MCInit /\ [][MCNext]_<<hooks, workload>>
  /\ WF_hooks(Packet) /\ WF_hooks(Carry \/ OtherPacket) /\ WF_hooks(HeldUp)
  /\ \A j \in CodeJobs : WF_hooks(Fetch(j)) /\ SF_hooks(CodeAnswer(j))
=============================================================================
