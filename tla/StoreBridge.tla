---------------------------- MODULE StoreBridge -----------------------------
(***************************************************************************)
(* The threads behind the store and workshop tabs: the injector, which     *)
(* finds the pages Steam's browser shows, one bridge thread per page, and  *)
(* the loopback server; and the leases that say how long a tab is open.    *)
(*                                                                         *)
(* A page is its document: whether our script is in it, and the mode that  *)
(* script was told.  A bridge is its connection and what its thread is     *)
(* doing.  RouteApi's lock admits one request at a time.                   *)
(***************************************************************************)
EXTENDS Naturals, FiniteSets

CONSTANTS
  Pages,         \* browser targets
  Workshop,      \* those on the community site; the others are on the store
  kUnlockerLease,\* ticks a lease lasts without being renewed
  MaxFaults      \* bound on lost connections and navigations

ASSUME BridgeAssumption ==
  /\ Workshop \subseteq Pages /\ kUnlockerLease \in Nat \ {0} /\ MaxFaults \in Nat

VARIABLES
  tab,        \* the tabs of the client that are open
  lease,      \* ticks left of each tab's lease
  doc,        \* what each page shows
  bridge,     \* what each page's bridge thread is doing
  pushed,     \* the mode it last sent
  needPush,   \* a new document has not been told
  event,      \* navigations it has not read of
  request,    \* the state of the page's call of a binding
  holder,     \* who is inside RouteApi
  listed,     \* the pages of the injector's last list it has yet to look at
  found,      \* the main window of that list, 0 when it has been dealt with
  window,     \* the client's main window, 0 before there is one: each is a new target
  lastTarget, \* the window the injector thinks it has
  scripted,   \* the windows with the script in them
  missed,     \* history: those whose script was lost on a connection that opened
  faults

bridges == <<tab, lease, doc, bridge, pushed, needPush, event, request, holder,
             listed, found, window, lastTarget, scripted, missed, faults>>

Tabs     == {"unlocker", "workshop"}
Tab(p)   == IF p \in Workshop THEN "workshop" ELSE "unlocker"
Gone     == "gone"
Bare     == "bare"      \* a document without our script
Normal   == "normal"    \* with it, in normal mode or told nothing
Rewritten == "rewritten"
Nobody   == "nobody"
ModeOn(p) == lease[Tab(p)] > 0
Alive(p)  == bridge[p] # "none"
Scripted(p) == doc[p] \in {Normal, Rewritten}

BridgeInit ==
  /\ tab = {} /\ lease = [k \in Tabs |-> 0]
  /\ doc = [p \in Pages |-> Gone] /\ bridge = [p \in Pages |-> "none"]
  /\ pushed = [p \in Pages |-> FALSE] /\ needPush = [p \in Pages |-> FALSE]
  /\ event = {} /\ request = [p \in Pages |-> "none"] /\ holder = Nobody
  /\ listed = {} /\ found = 0 /\ window = 0 /\ lastTarget = 0 /\ scripted = {}
  /\ missed = {} /\ faults = 0

(* The client opens and leaves a tab.  It says so on its way out, or never *)
(* gets to: a crashed script, a missed close.                              *)
OpenTab(k) ==
  /\ k \notin tab /\ faults < MaxFaults
  /\ tab' = tab \cup {k} /\ faults' = faults + 1
  /\ UNCHANGED <<lease, doc, bridge, pushed, needPush, event, request, holder, listed, found, window, lastTarget, scripted, missed>>

CloseTab(k) ==
  /\ k \in tab
  /\ tab' = tab \ {k}
  /\ \/ holder = Nobody /\ lease' = [lease EXCEPT ![k] = 0]
     \/ UNCHANGED lease
  /\ UNCHANGED <<doc, bridge, pushed, needPush, event, request, holder, listed, found, window, lastTarget, scripted, missed, faults>>

(* Mutant: a lease is a flag that only a close takes back.                 *)
TickForever ==
  /\ \E k \in Tabs : lease[k] > 0
  /\ lease' = [k \in Tabs |-> lease[k]]
  /\ UNCHANGED <<tab, doc, bridge, pushed, needPush, event, request, holder, listed, found, window, lastTarget, scripted, missed, faults>>

(* JsonUnlockerMode and JsonWorkshopMode, through the server, and time.    *)
Renew(k) ==
  /\ k \in tab /\ holder = Nobody
  /\ lease' = [lease EXCEPT ![k] = kUnlockerLease]
  /\ UNCHANGED <<tab, doc, bridge, pushed, needPush, event, request, holder, listed, found, window, lastTarget, scripted, missed, faults>>

Tick ==
  /\ \E k \in Tabs : lease[k] > 0
  /\ lease' = [k \in Tabs |-> IF lease[k] > 0 THEN lease[k] - 1 ELSE 0]
  /\ UNCHANGED <<tab, doc, bridge, pushed, needPush, event, request, holder, listed, found, window, lastTarget, scripted, missed, faults>>

(* Any other request of the client occupies the API for a while.           *)
ServerBusy ==
  /\ holder = Nobody /\ faults < MaxFaults
  /\ holder' = "server" /\ faults' = faults + 1
  /\ UNCHANGED <<tab, lease, doc, bridge, pushed, needPush, event, request, listed, found, window, lastTarget, scripted, missed>>

ServerDone ==
  /\ holder = "server" /\ holder' = Nobody
  /\ UNCHANGED <<tab, lease, doc, bridge, pushed, needPush, event, request, listed, found, window, lastTarget, scripted, missed, faults>>

(* The browser: a page is opened under a target of its own, navigates,     *)
(* goes, or loses its connection.  A script added for new documents is in  *)
(* them as long as the connection that added it stands.                    *)
OpenPage(p) ==
  /\ doc[p] = Gone /\ bridge[p] = "none" /\ p \notin listed
  /\ faults < MaxFaults
  /\ doc' = [doc EXCEPT ![p] = Bare] /\ faults' = faults + 1
  /\ UNCHANGED <<tab, lease, bridge, pushed, needPush, event, request, holder, listed, found, window, lastTarget, scripted, missed>>

Navigate(p) ==
  /\ doc[p] # Gone /\ faults < MaxFaults /\ faults' = faults + 1
  /\ doc' = [doc EXCEPT ![p] = IF bridge[p] = "serving" THEN Normal ELSE Bare]
  /\ event' = IF bridge[p] = "serving" THEN event \cup {p} ELSE event
  /\ request' = [request EXCEPT ![p] = "none"]
  /\ UNCHANGED <<tab, lease, bridge, pushed, needPush, holder, listed, found, window, lastTarget, scripted, missed>>

(* A connection that is lost is noticed on the next read.                  *)
Disconnect(p) ==
  /\ bridge[p] = "serving" /\ holder # p
  /\ \/ doc' = [doc EXCEPT ![p] = Gone] /\ UNCHANGED faults
     \/ faults < MaxFaults /\ faults' = faults + 1 /\ UNCHANGED doc
  /\ bridge' = [bridge EXCEPT ![p] = "none"]
  /\ event' = event \ {p}
  /\ request' = [request EXCEPT ![p] = "none"]
  /\ UNCHANGED <<tab, lease, pushed, needPush, holder, listed, found, window, lastTarget, scripted, missed>>

ClosePage(p) ==
  /\ doc[p] # Gone /\ bridge[p] = "none"
  /\ doc' = [doc EXCEPT ![p] = Gone] /\ request' = [request EXCEPT ![p] = "none"]
  /\ UNCHANGED <<tab, lease, bridge, pushed, needPush, event, holder, listed, found, window, lastTarget, scripted, missed, faults>>

(* The injector asks for the list of targets, and acts on it.              *)
ListTargets ==
  /\ listed = {} /\ found = 0
  /\ listed' = {p \in Pages : doc[p] # Gone} /\ found' = window
  /\ UNCHANGED <<tab, lease, doc, bridge, pushed, needPush, event, request, holder, window, lastTarget, scripted, missed, faults>>

(* Mutant: a page once seen is never bridged again.                        *)
AttachOnce(p) ==
  /\ p \in listed
  /\ listed' = listed \ {p}
  /\ bridge' = IF Alive(p) \/ doc[p] # Bare THEN bridge ELSE [bridge EXCEPT ![p] = "opening"]
  /\ UNCHANGED <<tab, lease, doc, pushed, needPush, event, request, holder, found, window, lastTarget, scripted, missed, faults>>

(* A page without a bridge that is alive gets one.                         *)
Attach(p) ==
  /\ p \in listed
  /\ listed' = listed \ {p}
  /\ bridge' = IF Alive(p) THEN bridge ELSE [bridge EXCEPT ![p] = "opening"]
  /\ UNCHANGED <<tab, lease, doc, pushed, needPush, event, request, holder, found, window, lastTarget, scripted, missed, faults>>

(* Mutant: a window counts as injected although the connection failed.     *)
InjectMainUnchecked ==
  /\ found # 0 /\ listed = {}
  /\ found' = 0 /\ lastTarget' = found
  /\ \/ found = window /\ scripted' = scripted \cup {found}
     \/ UNCHANGED scripted
  /\ UNCHANGED <<tab, lease, doc, bridge, pushed, needPush, event, request, holder, listed, window, missed, faults>>

(* The main window gets the script unless it is the one that had it.  It   *)
(* may be gone by now, or not take the connection; then it is not noted.   *)
(* Once connected it is, whatever became of the calls that bring the       *)
(* script: InjectInto does not look at their answers.                      *)
InjectMain ==
  /\ found # 0 /\ listed = {}
  /\ found' = 0
  /\ \/ /\ found # lastTarget /\ found = window
        /\ lastTarget' = found /\ scripted' = scripted \cup {found}
        /\ UNCHANGED <<missed, faults>>
     \/ /\ found # lastTarget /\ faults < MaxFaults /\ faults' = faults + 1
        /\ lastTarget' = found /\ missed' = missed \cup {found}
        /\ UNCHANGED scripted
     \/ /\ found = lastTarget \/ found # window
        /\ UNCHANGED <<lastTarget, scripted, missed, faults>>
     \/ /\ found # lastTarget /\ faults < MaxFaults /\ faults' = faults + 1
        /\ UNCHANGED <<lastTarget, scripted, missed>>
  /\ UNCHANGED <<tab, lease, doc, bridge, pushed, needPush, event, request, holder, listed, window>>

(* Steam opens its main window, replaces it, or switches to Big Picture.   *)
ReplaceWindow ==
  /\ faults < MaxFaults /\ faults' = faults + 1
  /\ window' = window + 1
  /\ UNCHANGED <<tab, lease, doc, bridge, pushed, needPush, event, request, holder, listed, found, lastTarget, scripted, missed>>

(* A bridge connects and sets the page up, unless the page is gone: what   *)
(* is sent on a connection that stands, the browser runs.                  *)
SetUp(p) ==
  /\ bridge[p] = "opening"
  /\ IF doc[p] = Gone
       THEN bridge' = [bridge EXCEPT ![p] = "none"] /\ UNCHANGED <<doc, needPush>>
       ELSE /\ bridge' = [bridge EXCEPT ![p] = "serving"]
            /\ doc' = [doc EXCEPT ![p] = IF doc[p] = Bare THEN Normal ELSE @]
            /\ needPush' = [needPush EXCEPT ![p] = TRUE]
  /\ pushed' = [pushed EXCEPT ![p] = FALSE]
  /\ UNCHANGED <<tab, lease, event, request, holder, listed, found, window, lastTarget, scripted, missed, faults>>

(* Mutant: the mode is sent when it has changed, and only then.            *)
PushOnChange(p) ==
  /\ bridge[p] = "serving" /\ holder # p
  /\ ModeOn(p) # pushed[p]
  /\ doc' = [doc EXCEPT ![p] = IF ModeOn(p) THEN Rewritten ELSE Normal]
  /\ pushed' = [pushed EXCEPT ![p] = ModeOn(p)]
  /\ needPush' = [needPush EXCEPT ![p] = FALSE]
  /\ event' = event \ {p}
  /\ UNCHANGED <<tab, lease, bridge, request, holder, listed, found, window, lastTarget, scripted, missed, faults>>

(* A pass of its loop: it reads an event and sends the mode if a document  *)
(* has not been told or the mode has changed.                              *)
Push(p) ==
  /\ bridge[p] = "serving" /\ holder # p
  /\ LET need == needPush[p] \/ p \in event
     IN /\ need \/ ModeOn(p) # pushed[p]
        /\ doc' = [doc EXCEPT ![p] = IF ModeOn(p) THEN Rewritten ELSE Normal]
        /\ pushed' = [pushed EXCEPT ![p] = ModeOn(p)]
        /\ needPush' = [needPush EXCEPT ![p] = FALSE]
        /\ event' = event \ {p}
  /\ UNCHANGED <<tab, lease, bridge, request, holder, listed, found, window, lastTarget, scripted, missed, faults>>

(* The page calls its binding; the bridge answers in its own thread: one   *)
(* of the listed calls through RouteApi, when its turn comes, or a refusal.*)
CallBinding(p) ==
  /\ Scripted(p) /\ bridge[p] = "serving" /\ request[p] = "none" /\ faults < MaxFaults
  /\ \E kind \in {"allowed", "other"} : request' = [request EXCEPT ![p] = kind]
  /\ faults' = faults + 1
  /\ UNCHANGED <<tab, lease, doc, bridge, pushed, needPush, event, holder, listed, found, window, lastTarget, scripted, missed>>

Refuse(p) ==
  /\ bridge[p] = "serving" /\ request[p] = "other"
  /\ request' = [request EXCEPT ![p] = "none"]
  /\ UNCHANGED <<tab, lease, doc, bridge, pushed, needPush, event, holder, listed, found, window, lastTarget, scripted, missed, faults>>

EnterApi(p) ==
  /\ bridge[p] = "serving" /\ request[p] = "allowed" /\ holder = Nobody
  /\ holder' = p
  /\ UNCHANGED <<tab, lease, doc, bridge, pushed, needPush, event, request, listed, found, window, lastTarget, scripted, missed, faults>>

Answer(p) ==
  /\ holder = p /\ holder' = Nobody
  /\ request' = [request EXCEPT ![p] = "none"]
  /\ UNCHANGED <<tab, lease, doc, bridge, pushed, needPush, event, listed, found, window, lastTarget, scripted, missed, faults>>

Serving(p) == SetUp(p) \/ Push(p) \/ Refuse(p) \/ EnterApi(p) \/ Answer(p)
Injector == \/ ListTargets
            \/ \E p \in Pages : Attach(p)
            \/ InjectMain

BridgeNext ==
  \/ \E k \in Tabs : OpenTab(k) \/ CloseTab(k) \/ Renew(k)
  \/ Tick \/ ServerBusy \/ ServerDone \/ Injector
  \/ \E p \in Pages : \/ OpenPage(p) \/ Navigate(p) \/ Disconnect(p) \/ ClosePage(p)
                      \/ CallBinding(p) \/ Serving(p)
  \/ ReplaceWindow

BridgeSteps == BridgeInit /\ [][BridgeNext]_bridges

(* Time passes, the threads run on, the API's handlers return.             *)
BridgeFairness ==
  /\ WF_bridges(Tick) /\ WF_bridges(ServerDone) /\ WF_bridges(Injector)
  /\ \A p \in Pages : /\ WF_bridges(SetUp(p)) /\ WF_bridges(Push(p))
                      /\ WF_bridges(Refuse(p))
                      /\ WF_bridges(EnterApi(p)) /\ WF_bridges(Answer(p))

BridgeSpec == BridgeSteps /\ BridgeFairness

-----------------------------------------------------------------------------
(* Once a tab is left, however it was left, its pages go back to normal:   *)
(* "anything that stops the tab from saying so ... ends with the store     *)
(* back to normal on its own" (LuaFlipperUI.cpp:2500).                     *)
StoreGoesBackToNormal ==
  \A p \in Pages : <>[](Tab(p) \notin tab) => <>[](doc[p] # Rewritten)

(* A page that stays has our script in the end, and its calls are answered,*)
(* whatever connections were lost on the way.                              *)
PagesAreBridged ==
  \A p \in Pages : /\ <>[](doc[p] # Gone) => <>[]Scripted(p)
                   /\ request[p] # "none" ~> request[p] = "none"

(* The window Steam settles on gets the script, whatever became of those   *)
(* before and however often it did not take the connection; unless it took *)
(* one and the script was lost on it, which nothing notices.               *)
WindowGetsScript ==
  \A w \in 1..MaxFaults : <>[](window = w) => <>[](w \in scripted \cup missed)

(* Not so: that a lost script is sent again.                               *)
LostScriptIsResent ==
  \A w \in 1..MaxFaults : <>[](window = w) => <>[](w \in scripted)

(* Every page and window that stays has its script, and its calls their    *)
(* answers, whatever Steam's web views went through before.                *)
ViewsAreServed == PagesAreBridged /\ WindowGetsScript
=============================================================================
