--------------------------- MODULE ManifestCodes ----------------------------
(***************************************************************************)
(* Hooks_NetPacket_Manifest: Steam asks Valve for a manifest request code, *)
(* the send hook starts fetching one elsewhere under the job of the        *)
(* request, and the receive hook, when Valve refuses, waits for the fetch  *)
(* and puts its code into Valve's answer.                                  *)
(*                                                                         *)
(* A fetch is a std::async thread.  ManifestClient runs them one at a time *)
(* under its mutex, and a fetch takes as long as the HTTP library lets it. *)
(* The receive hook holds the last reference to the future it waits for,   *)
(* and the destructor of the last reference to a std::async future waits   *)
(* for its thread.  The model counts seconds of waiting, up to one past    *)
(* the limit.                                                              *)
(***************************************************************************)
EXTENDS Naturals, FiniteSets

CONSTANTS
  CodeJobs,         \* the requests Steam makes, by job id
  Managed,          \* those for a depot LuaConfig knows
  kMaxWaitSeconds,  \* 12 in the code
  Nobody

ASSUME CodesAssumption ==
  /\ Managed \subseteq CodeJobs
  /\ kMaxWaitSeconds \in Nat \ {0}
  /\ Nobody \notin CodeJobs

VARIABLES
  asked,    \* jobs whose request went to Valve
  futures,  \* the keys of g_CodeFutures
  fetch,    \* per job: none, queued for g_mutex, running, failed, code
  job,      \* the answer in the receive hook's hands
  phase,    \* of the receive hook: idle, wait, drop (the destructor)
  waited,   \* seconds the receive hook has spent on this answer
  got       \* per job, what Steam received: nothing, plain, patched

codes == <<asked, futures, fetch, job, phase, waited, got>>

CodesInit ==
  /\ asked = {} /\ futures = {}
  /\ fetch = [j \in CodeJobs |-> "none"]
  /\ job = Nobody /\ phase = "idle" /\ waited = 0
  /\ got = [j \in CodeJobs |-> "nothing"]

Finished(j) == fetch[j] \in {"failed", "code"}

----------------------------------------------------------------------------
(* HandleSend: the fetch is started and entered in the map, then the frame *)
(* goes out unchanged.                                                     *)
HandleSendUnentered(j) ==                                          \* mutant
  /\ j \notin asked
  /\ asked' = asked \cup {j}
  /\ fetch' = [fetch EXCEPT ![j] = IF j \in Managed THEN "queued" ELSE @]
  /\ UNCHANGED <<futures, job, phase, waited, got>>

HandleSend(j) ==
  /\ j \notin asked
  /\ asked' = asked \cup {j}
  /\ fetch' = [fetch EXCEPT ![j] = IF j \in Managed THEN "queued" ELSE @]
  /\ futures' = IF j \in Managed THEN futures \cup {j} ELSE futures
  /\ UNCHANGED <<job, phase, waited, got>>

(* FetchManifestRequestCode: one caller at a time, any of those waiting.   *)
FetchBegins(j) ==
  /\ fetch[j] = "queued"
  /\ \A k \in CodeJobs : fetch[k] # "running"
  /\ fetch' = [fetch EXCEPT ![j] = "running"]
  /\ UNCHANGED <<asked, futures, job, phase, waited, got>>

(* The Lua functions or the provider yield a code, or none of them does.   *)
FetchEnds(j) ==
  /\ fetch[j] = "running"
  /\ \E outcome \in {"failed", "code"} : fetch' = [fetch EXCEPT ![j] = outcome]
  /\ UNCHANGED <<asked, futures, job, phase, waited, got>>

----------------------------------------------------------------------------
(* oRecvPkt: the answer goes up to Steam and the receive hook is free.     *)
HandOver(j, answer) ==
  /\ got' = [got EXCEPT ![j] = answer]
  /\ job' = Nobody /\ phase' = "idle" /\ waited' = 0

Arrives(j) == /\ phase = "idle"
              /\ j \in asked /\ got[j] = "nothing"

(* HandleRecv, no future under this job: the answer passes through.        *)
PassThrough(j) ==
  /\ Arrives(j)
  /\ j \notin futures
  /\ HandOver(j, "plain")
  /\ UNCHANGED <<asked, futures, fetch>>

TakeAndKeep(j) ==                                                  \* mutant
  /\ Arrives(j)
  /\ j \in futures
  /\ job' = j /\ phase' = "wait" /\ waited' = 0
  /\ UNCHANGED <<asked, futures, fetch, got>>

(* HandleRecv takes the future out of the map and waits for it.            *)
Take(j) ==
  /\ Arrives(j)
  /\ j \in futures
  /\ futures' = futures \ {j}
  /\ job' = j /\ phase' = "wait" /\ waited' = 0
  /\ UNCHANGED <<asked, fetch, got>>

WaitEnds ==
  /\ phase = "wait" /\ Finished(job)
  /\ HandOver(job, IF fetch[job] = "code" THEN "patched" ELSE "plain")
  /\ UNCHANGED <<asked, futures, fetch>>

(* wait_for gives up; leaving HandleRecv destroys the future.              *)
TimeOut ==
  /\ phase = "wait" /\ ~Finished(job)
  /\ waited = kMaxWaitSeconds
  /\ phase' = "drop"
  /\ UNCHANGED <<asked, futures, fetch, job, waited, got>>

DropEndsIfCode ==                                                  \* mutant
  /\ phase = "drop" /\ fetch[job] = "code"
  /\ HandOver(job, "plain")
  /\ UNCHANGED <<asked, futures, fetch>>

DropEnds ==
  /\ phase = "drop" /\ Finished(job)
  /\ HandOver(job, "plain")
  /\ UNCHANGED <<asked, futures, fetch>>

(* A second passes while the receive hook is held up.                      *)
Tick ==
  /\ \/ phase = "wait" /\ ~Finished(job) /\ waited < kMaxWaitSeconds
     \/ phase = "drop" /\ ~Finished(job) /\ waited = kMaxWaitSeconds
  /\ waited' = waited + 1
  /\ UNCHANGED <<asked, futures, fetch, job, phase, got>>

Receive == \/ \E j \in CodeJobs : PassThrough(j) \/ Take(j)
           \/ WaitEnds \/ TimeOut \/ DropEnds

CodesNext ==
  \/ \E j \in CodeJobs : HandleSend(j) \/ FetchBegins(j) \/ FetchEnds(j)
  \/ Receive
  \/ Tick

(* What this feature may do; when it does is up to NetHooks.              *)
CodesSteps == CodesInit /\ [][CodesNext]_codes

----------------------------------------------------------------------------
(* The state is well-formed; the receive hook is busy with exactly one     *)
(* answer or none, and ManifestClient with at most one fetch.              *)
CodesTypeOK ==
  /\ asked \subseteq CodeJobs /\ futures \subseteq Managed
  /\ fetch \in [CodeJobs -> {"none", "queued", "running", "failed", "code"}]
  /\ job \in CodeJobs \cup {Nobody} /\ phase \in {"idle", "wait", "drop"}
  /\ phase = "idle" <=> job = Nobody
  /\ waited \in 0..(kMaxWaitSeconds + 1)
  /\ got \in [CodeJobs -> {"nothing", "plain", "patched"}]
  /\ \A j, k \in CodeJobs : fetch[j] = "running" /\ fetch[k] = "running" => j = k

(* A future is in the map exactly while Valve's answer to its request is   *)
(* still to come: none is found too late, none stays behind for a later    *)
(* request of that job.                                                    *)
FutureAwaitsAnswer ==
  futures = {j \in asked \cap Managed : got[j] = "nothing" /\ job # j}

(* Every answer of Valve reaches Steam, however slow a fetch is.           *)
AnswersGetThrough == \A j \in CodeJobs : j \in asked ~> got[j] # "nothing"

(* "The recv handler waits up to 12 s for the result": no answer, and      *)
(* nothing queued behind it, is held up for longer.                        *)
WaitIsBounded == waited <= kMaxWaitSeconds

(* Steam is not refused a code that was there in time, nor given another   *)
(* request's: an answer goes up plain only if its fetch failed, or held    *)
(* the hook up to the limit.                                               *)
UsedInTime ==
  \A j \in Managed :
    got'[j] = "plain" /\ got[j] = "nothing" =>
      fetch[j] = "failed" \/ (job = j /\ waited >= kMaxWaitSeconds)

CodesAreUsed == [][FutureAwaitsAnswer /\ UsedInTime]_codes
=============================================================================
