------------------------------ MODULE NetHooks ------------------------------
(***************************************************************************)
(* The two hooks of Hooks_NetPacket.cpp with the features that tie them    *)
(* together: requests answered here and manifest codes.                    *)
(*                                                                         *)
(* Every receive runs on one thread of Steam.  Each packet first takes the *)
(* queued replies up with it, cloud before keys, and is looked at itself   *)
(* only then; if it is Valve's answer about a manifest code, the thread    *)
(* may be held up for as long as the fetch lasts, and with it all that is  *)
(* queued meanwhile.                                                       *)
(***************************************************************************)
EXTENDS LocalAnswers, ManifestCodes

hooks == <<answers, codes>>

HooksInit == AnswersInit /\ CodesInit

(* BBuildAndAsyncSendFrame, on any thread.                                 *)
SendFrame ==
  \/ \E j \in CloudJobs : SendCloud(j) /\ UNCHANGED codes
  \/ \E j \in KeyJobs : SendKey(j) /\ UNCHANGED codes
  \/ \E j \in CodeJobs : HandleSend(j) /\ UNCHANGED answers

FilesChange == SyncAppSet /\ UNCHANGED codes

Fetch(j) == (FetchBegins(j) \/ FetchEnds(j)) /\ UNCHANGED answers

(* RecvPkt is called, with the thread free of the last packet.             *)
Packet == phase = "idle" /\ RecvPkt /\ UNCHANGED codes

(* The replies it carries.                                                 *)
Carry ==
  /\ Deliver \/ (\E q \in Queues : Pop(q)) \/ Drained("cloud")
  /\ UNCHANGED codes

(* Then the packet itself: Valve's answer about a code, or any other.      *)
CodeAnswer(j) == Drained("key") /\ (PassThrough(j) \/ Take(j))
OtherPacket   == Drained("key") /\ UNCHANGED codes

HeldUp == (WaitEnds \/ TimeOut \/ DropEnds) /\ UNCHANGED answers

HooksNext ==
  \/ SendFrame
  \/ FilesChange
  \/ \E j \in CodeJobs : Fetch(j) \/ CodeAnswer(j)
  \/ Packet \/ Carry \/ OtherPacket
  \/ HeldUp
  \/ Tick /\ UNCHANGED answers

HooksSteps == HooksInit /\ [][HooksNext]_hooks

(* Packets keep coming and the hook runs on; Valve answers each request,   *)
(* sooner or later among the other packets; every fetch ends at last.      *)
HooksSpec ==
  /\ HooksSteps
  /\ WF_hooks(Packet) /\ WF_hooks(Carry \/ OtherPacket) /\ WF_hooks(HeldUp)
  /\ \A j \in CodeJobs : WF_hooks(Fetch(j)) /\ SF_hooks(CodeAnswer(j))

(* Replies queued here and answers of Valve all reach Steam, although they *)
(* share the one receive thread, which a fetch may hold up.                *)
RepliesGetThrough == QueuedIsDelivered /\ AnswersGetThrough
=============================================================================
