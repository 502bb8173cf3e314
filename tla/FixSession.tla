----------------------------- MODULE FixSession -----------------------------
(***************************************************************************)
(* The lua.tools session of the Fixes page: a short-lived access token in  *)
(* memory, a refresh token in steamflipper.toml, and the sign-ins that     *)
(* make them.                                                              *)
(*                                                                         *)
(* Handlers run one at a time, under the API's lock.  The configuration    *)
(* they read is the one last loaded, which lags behind the file.  The      *)
(* service replaces the refresh token when it exchanges it and refuses     *)
(* the old one from then on; a sign-in is taken to end the session before  *)
(* it in the same way, so that nothing rests on the old one's living on.   *)
(***************************************************************************)
EXTENDS Integers, Sequences

CONSTANTS MaxTokens,   \* bound on the refresh tokens issued
          MaxLinks     \* bound on the sign-in links made

ASSUME SessionAssumption == MaxTokens \in Nat /\ MaxLinks \in Nat

VARIABLES
  saved,      \* the refresh token in the file
  loaded,     \* the refresh token Config has
  access,     \* the access token in memory: "none", "fresh" or "old"
  issued,     \* the refresh token the service takes
  exchange,   \* an exchange the service has done and the program not yet kept;
              \* "rotated" is a refresh with a new refresh token
  verifier,   \* the verifier of the last sign-in link, NoLink once used
  links,      \* sign-in links made
  presented,  \* the verifiers presented to the service, in order
  signedOut,  \* history: the user signed out and has not signed in since
  lost        \* history: the token the service takes never reached the file

session == <<saved, loaded, access, issued, exchange, verifier, links,
             presented, signedOut, lost>>

NoToken == 0
NoLink  == 0
Nothing == "nothing"
Free    == exchange = Nothing

SessionInit ==
  /\ saved = NoToken /\ loaded = NoToken /\ access = "none" /\ issued = NoToken
  /\ exchange = Nothing /\ verifier = NoLink /\ links = 0 /\ presented = <<>>
  /\ signedOut = FALSE /\ lost = FALSE

Reload ==
  /\ loaded' = saved
  /\ UNCHANGED <<saved, access, issued, exchange, verifier, links, presented, signedOut, lost>>

(* An access token lives for an hour, many times longer than the watcher   *)
(* takes to load a change.                                                 *)
Expire ==
  /\ Free /\ access = "fresh" /\ loaded = saved
  /\ access' = "old"
  /\ UNCHANGED <<saved, loaded, issued, exchange, verifier, links, presented, signedOut, lost>>

NewToken == issued < MaxTokens /\ issued' = issued + 1

(* FixesAccessToken, past the cached token: the loaded refresh token is    *)
(* exchanged, and the service replaces it or not.                          *)
RefreshAccess ==
  /\ Free /\ access # "fresh" /\ loaded # NoToken /\ loaded = issued
  /\ \/ NewToken /\ exchange' = "rotated"
     \/ UNCHANGED issued /\ exchange' = "refresh"
  /\ UNCHANGED <<saved, loaded, access, verifier, links, presented, signedOut, lost>>

(* JsonFixesSignIn: a link with a verifier of its own.                     *)
SignIn ==
  /\ Free /\ links < MaxLinks
  /\ links' = links + 1 /\ verifier' = links + 1
  /\ UNCHANGED <<saved, loaded, access, issued, exchange, presented, signedOut, lost>>

(* Mutant: the verifier stays for the next redirect.                       *)
CallbackKeepsVerifier(link) ==
  /\ Free /\ verifier # NoLink
  /\ presented' = Append(presented, verifier)
  /\ UNCHANGED verifier
  /\ IF link = verifier THEN NewToken /\ exchange' = "callback"
                        ELSE UNCHANGED <<issued, exchange>>
  /\ UNCHANGED <<saved, loaded, access, links, signedOut, lost>>

(* JsonFixesCallback: the redirect of one of the links comes in, the       *)
(* verifier is used up, and the service accepts the pair if they belong    *)
(* together.                                                               *)
Callback(link) ==
  /\ Free /\ verifier # NoLink
  /\ presented' = Append(presented, verifier)
  /\ verifier' = NoLink
  /\ IF link = verifier THEN NewToken /\ exchange' = "callback"
                        ELSE UNCHANGED <<issued, exchange>>
  /\ UNCHANGED <<saved, loaded, access, links, signedOut, lost>>

(* JsonFixesLogin: the service takes a bot code and answers with a session.*)
Login ==
  /\ Free /\ NewToken
  /\ exchange' = "login"
  /\ UNCHANGED <<saved, loaded, access, verifier, links, presented, signedOut, lost>>

(* What an exchange brings that only the file can keep.                    *)
NewSession == exchange \in {"rotated", "callback", "login"}
Refreshing == exchange \in {"refresh", "rotated"}

(* The reply does not come, or not whole: the request times out, the       *)
(* status is another or the token is missing.  Nothing is kept.            *)
ReplyLost ==
  /\ ~Free
  /\ exchange' = Nothing
  /\ lost' = (lost \/ NewSession)
  /\ UNCHANGED <<saved, loaded, access, issued, verifier, links, presented, signedOut>>

(* Mutant: a refresh keeps the access token only.                          *)
KeepAccessOnly ==
  /\ ~Free
  /\ saved' = IF Refreshing THEN saved ELSE issued
  /\ lost' = (lost /\ ~NewSession)
  /\ access' = "fresh" /\ exchange' = Nothing
  /\ signedOut' = (signedOut /\ Refreshing)
  /\ UNCHANGED <<loaded, issued, verifier, links, presented>>

(* The rest of each: a new refresh token goes into the file, the access    *)
(* token into memory.                                                      *)
KeepSession ==
  /\ ~Free
  /\ saved' = IF NewSession THEN issued ELSE saved
  /\ lost' = (lost /\ ~NewSession)
  /\ access' = "fresh" /\ exchange' = Nothing
  /\ signedOut' = (signedOut /\ Refreshing)
  /\ UNCHANGED <<loaded, issued, verifier, links, presented>>

(* The file could not be written: Login reports it, the others do not.     *)
SaveFails ==
  /\ NewSession
  /\ access' = IF exchange = "login" THEN access ELSE "fresh"
  /\ exchange' = Nothing
  /\ signedOut' = (signedOut /\ exchange # "callback")
  /\ lost' = TRUE
  /\ UNCHANGED <<saved, loaded, issued, verifier, links, presented>>

(* JsonFixesLogout, which does not look at whether the file took it.       *)
Logout ==
  /\ Free
  /\ access' = "none"
  /\ \/ saved' = NoToken /\ signedOut' = TRUE
     \/ UNCHANGED <<saved, signedOut>>
  /\ UNCHANGED <<loaded, issued, exchange, verifier, links, presented, lost>>

RestartSteam ==
  /\ access' = "none" /\ exchange' = Nothing /\ verifier' = NoLink
  /\ loaded' = saved
  /\ lost' = (lost \/ NewSession)
  /\ UNCHANGED <<saved, issued, links, presented, signedOut>>

SessionNext ==
  \/ Reload \/ Expire \/ RefreshAccess \/ SignIn \/ Login
  \/ \E l \in 1..links : Callback(l)
  \/ ReplyLost \/ KeepSession \/ SaveFails \/ Logout \/ RestartSteam

SessionSpec == SessionInit /\ [][SessionNext]_session

-----------------------------------------------------------------------------
(* Between handlers the file holds the token the service will take next,   *)
(* unless that token never came out of its exchange, with the reply, a     *)
(* failed write or Steam's end, and until the next one does: "keeping the  *)
(* old one would sign the user out at the next restart"                    *)
(* (LuaFlipperUI.cpp:1463).                                                *)
SavedTokenIsCurrent ==
  Free /\ ~lost => saved \in {NoToken, issued}

(* It does not hold without the exception: after a lost reply the token    *)
(* that is saved is one the service refuses.                               *)
SessionSurvivesReplies == Free => saved \in {NoToken, issued}

(* A sign-in link is exchanged at most once, however often its redirect    *)
(* comes back and however many links were made (JsonFixesCallback).        *)
LinksAreOneShot == \A i, j \in DOMAIN presented : presented[i] = presented[j] => i = j

(* Signing out ends the session.  It does not hold while the loaded        *)
(* configuration lags: the next call exchanges the old token and saves the *)
(* new one.                                                                *)
SignedOutStaysOut == signedOut => saved = NoToken /\ access = "none"

(* A session outlives restarts and is opened by one link only.             *)
SessionIsKept == SavedTokenIsCurrent /\ LinksAreOneShot
=============================================================================
