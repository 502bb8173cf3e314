----------------------------- MODULE MCClientUi -----------------------------
(***************************************************************************)
(* The client interface: its components share no state, so each behaviour  *)
(* works one of them and leaves the others as they begin.                  *)
(***************************************************************************)
EXTENDS FixFiles, FixCases, ManifestShelf, SettingsFile, UrlTail, FixSession, StoreBridge,
        Cdp, TomlEdit, ClientText, ClientCalls

CONSTANTS a, b, p, x, y   \* files of a game, of a pack, and contents

VARIABLE part   \* the component this behaviour works

FixEntry(n, c, s) == [name |-> n, bytes |-> c, shape |-> s]
MCFixes == {<<FixEntry(a, x, "plain"), FixEntry(b, x, "foreign")>>,
            <<FixEntry(b, y, "encrypted"), FixEntry(a, y, "plain"),
              FixEntry(b, y, "plain"), FixEntry(b, x, "escaping")>>}
MCPacks == {<<FixEntry(p, x, "plain"), FixEntry(p, y, "directory"),
              FixEntry(p, y, "plain"), FixEntry(p, x, "encrypted")>>}

all == <<files, shelf, settings, tail, session, bridges, cdp, tomlFile, typed, calls, given>>

MCInit ==
  /\ FilesInit /\ ShelfInit /\ SettingsInit /\ TailInit /\ SessionInit
  /\ BridgeInit /\ CdpInit /\ TomlInit /\ TextInit /\ CallsInit
  /\ \/ part = "cases" /\ CasesInit
     \/ given = NoCase /\ part \in {"files", "shelf", "settings", "tail", "session", "bridges", "cdp",
          "toml", "text", "calls"}
  /\ part = "toml" \/ ending = "lf"

MCNext ==
  /\ UNCHANGED part
  /\ \/ /\ part = "files" /\ FilesNext
        /\ UNCHANGED <<shelf, settings, tail, session, bridges, cdp, tomlFile, typed, calls, given>>
     \/ /\ part = "shelf" /\ ShelfNext
        /\ UNCHANGED <<files, settings, tail, session, bridges, cdp, tomlFile, typed, calls, given>>
     \/ /\ part = "settings" /\ SettingsNext
        /\ UNCHANGED <<files, shelf, tail, session, bridges, cdp, tomlFile, typed, calls, given>>
     \/ /\ part = "tail" /\ TailNext
        /\ UNCHANGED <<files, shelf, settings, session, bridges, cdp, tomlFile, typed, calls, given>>
     \/ /\ part = "session" /\ SessionNext
        /\ UNCHANGED <<files, shelf, settings, tail, bridges, cdp, tomlFile, typed, calls, given>>
     \/ /\ part = "bridges" /\ BridgeNext
        /\ UNCHANGED <<files, shelf, settings, tail, session, cdp, tomlFile, typed, calls, given>>
     \/ /\ part = "cdp" /\ CdpNext
        /\ UNCHANGED <<files, shelf, settings, tail, session, bridges, tomlFile, typed, calls, given>>
     \/ /\ part = "toml" /\ TomlNext
        /\ UNCHANGED <<files, shelf, settings, tail, session, bridges, cdp, typed, calls, given>>
     \/ /\ part = "text" /\ TextNext
        /\ UNCHANGED <<files, shelf, settings, tail, session, bridges, cdp, tomlFile, calls, given>>
     \/ /\ part = "calls" /\ CallsNext
        /\ UNCHANGED <<files, shelf, settings, tail, session, bridges, cdp, tomlFile, typed, given>>

(* The fairness of the components, each for the behaviours that work it.   *)
Only(name, A) == part = name /\ A

MCSpec ==
  /\ MCInit /\ [][MCNext]_<<all, part>>
  /\ WF_settings(Only("settings", DrainEvents \/ ParseFile \/ ApplySnapshot))
  /\ WF_bridges(Only("bridges", Tick)) /\ WF_bridges(Only("bridges", ServerDone))
  /\ WF_bridges(Only("bridges", Injector))
  /\ \A page \in Pages :
       /\ WF_bridges(Only("bridges", SetUp(page))) /\ WF_bridges(Only("bridges", Push(page)))
       /\ WF_bridges(Only("bridges", Refuse(page)))
       /\ WF_bridges(Only("bridges", EnterApi(page)))
       /\ WF_bridges(Only("bridges", Answer(page)))

=============================================================================
