----------------------------- MODULE LuaTables -----------------------------
(***************************************************************************)
(* How LuaConfig.cpp runs a file line by line, and the tables its          *)
(* statements fill beside the depots of LuaRegistry: decryption keys,      *)
(* purchase times, and those that are only ever added to.                  *)
(***************************************************************************)
EXTENDS Integers, Sequences

CONSTANTS
  LuaFiles,    \* paths of .lua files
  LuaDepots,   \* ids addappid names
  DepotKeys,   \* keys of 64 characters
  NoKey,       \* a depot added without one, or with one of another length
  LuaTexts,    \* what a file may hold: sequences of Line
  MaxMtime,    \* bound: times of modification
  MaxLoads     \* bound: files parsed

(* A statement is a call of a registered function, in any case, or a call  *)
(* whose arguments it refuses; a line holds a whole statement, begins or   *)
(* ends one of several lines, or is no Lua at all.                         *)
Add(id, key)  == [call |-> "addappid", id |-> id, key |-> key]
Note(id)      == [call |-> "addtoken", id |-> id, key |-> NoKey]
Raise         == [call |-> "error", id |-> NoKey, key |-> NoKey]
Whole(s)      == [kind |-> "whole", stmt |-> s]
Open          == [kind |-> "open", stmt |-> Raise]
Close(s)      == [kind |-> "close", stmt |-> s]
Garbled       == [kind |-> "garbled", stmt |-> Raise]

LuaStmts == {Add(id, key) : id \in LuaDepots, key \in DepotKeys \cup {NoKey}}
            \cup {Note(id) : id \in LuaDepots} \cup {Raise}
LuaLines == {Whole(s) : s \in LuaStmts} \cup {Close(s) : s \in LuaStmts} \cup {Open, Garbled}
NoEntry  == "no entry"

ASSUME LuaAssumption ==
  /\ LuaTexts \subseteq Seq(LuaLines)
  /\ NoKey \notin DepotKeys /\ NoEntry \notin DepotKeys \cup {NoKey}
  /\ MaxMtime \in Nat /\ MaxLoads \in Nat

VARIABLE lua   \* LuaConfig's tables

(* depots  g_fileDepots; mtime is g_fileMtime; keys is DepotKeySet, without *)
(* an entry where it has none; bought is g_purchaseTime, 0 for none;        *)
(* tokens stands for AccessTokenSet and the other tables no file takes back *)
(* texts   what was in the file when it was parsed                          *)
LuaInit ==
  lua = [depots |-> [f \in LuaFiles |-> {}], mtime |-> [f \in LuaFiles |-> 0],
         keys |-> [d \in LuaDepots |-> NoEntry], bought |-> [d \in LuaDepots |-> 0],
         tokens |-> {}, texts |-> [f \in LuaFiles |-> <<>>], loads |-> 0]

(* An error raised in a chunk ends the chunk and not the file.              *)
BeforeError(chunk) ==
  LET ends == {i \in DOMAIN chunk : chunk[i].call = "error"}
  IN  IF ends = {} THEN chunk
      ELSE SubSeq(chunk, 1, (CHOOSE i \in ends : \A j \in ends : i <= j) - 1)

(* Mutant: a line that is no statement by itself is dropped.                *)
NextChunkDropped(acc, line) ==
  IF line.kind = "whole" THEN [acc EXCEPT !.run = @ \o BeforeError(<<line.stmt>>)] ELSE acc

(* One line more: the chunk so far is compiled, and run once it compiles.   *)
(* What cannot be compiled stays, so a garbled line takes all that follows. *)
Stuck == -1
NextChunk(acc, line) ==
  LET inner == IF line.kind \in {"whole", "close"} THEN Append(acc.inner, line.stmt) ELSE acc.inner
      depth == acc.depth + CASE line.kind = "open" -> 1 [] line.kind = "close" -> -1 [] OTHER -> 0
  IN  IF acc.depth = Stuck THEN acc
      ELSE IF line.kind = "garbled" \/ depth < 0 THEN [acc EXCEPT !.depth = Stuck]
      ELSE IF depth > 0 THEN [acc EXCEPT !.depth = depth, !.inner = inner]
      ELSE [depth |-> 0, inner |-> <<>>, run |-> acc.run \o BeforeError(inner)]

(* The statements of a text in the order they take effect.                  *)
NoChunk == [depth |-> 0, inner |-> <<>>, run |-> <<>>]
Executed(text) ==
  LET after[i \in 0 .. Len(text)] == IF i = 0 THEN NoChunk ELSE NextChunk(after[i - 1], text[i])
  IN  after[Len(text)].run

-----------------------------------------------------------------------------
(* Mutant: the last addappid decides, with a key or without.                *)
LastKey(old, new) == new

(* "Non-empty keys have priority over existing empty keys."                 *)
BetterKey(old, new) == IF new # NoKey \/ old = NoEntry THEN new ELSE old

(* Mutant: the last file's time is taken.                                   *)
LastTime(old, new) == new

LaterTime(old, new) == IF new > old THEN new ELSE old

(* lua_addappid; for lua_addtoken and its like the table only grows.        *)
Apply1(t, f, s) ==
  IF s.call = "addtoken" THEN [t EXCEPT !.tokens = @ \cup {s.id}]
  ELSE [t EXCEPT !.keys[s.id] = BetterKey(@, s.key),
                 !.depots[f] = @ \cup {s.id},
                 !.bought[s.id] = IF s.id \in t.depots[f] THEN @ ELSE LaterTime(@, t.mtime[f])]

(* UnloadFile: what no other file names loses its key and its time.  A file *)
(* that named nothing keeps its time of modification.                       *)
Unloaded(t, f) ==
  LET others == UNION {t.depots[g] : g \in LuaFiles \ {f}}
      last == t.depots[f] \ others
  IN  IF t.depots[f] = {} THEN t
      ELSE [t EXCEPT !.depots[f] = {}, !.mtime[f] = 0, !.texts[f] = <<>>,
                     !.keys = [d \in LuaDepots |-> IF d \in last THEN NoEntry ELSE @[d]],
                     !.bought = [d \in LuaDepots |-> IF d \in last THEN 0 ELSE @[d]]]

(* ParseFile                                                                *)
ParseLua(f, text, time) ==
  /\ lua.loads < MaxLoads
  /\ LET opened == [Unloaded(lua, f) EXCEPT !.mtime[f] = time, !.texts[f] = text, !.loads = @ + 1]
         stmts == Executed(text)
         done[i \in 0 .. Len(stmts)] == IF i = 0 THEN opened ELSE Apply1(done[i - 1], f, stmts[i])
     IN  lua' = done[Len(stmts)]

UnloadLua(f) == lua.depots[f] # {} /\ lua' = Unloaded(lua, f)

LuaNext ==
  \E f \in LuaFiles :
    \/ UnloadLua(f)
    \/ \E text \in LuaTexts, time \in 1 .. MaxMtime : ParseLua(f, text, time)

-----------------------------------------------------------------------------
(* A depot can be decrypted whenever a loaded file gives its key: another   *)
(* file that names it without one, or is parsed again or removed, does not  *)
(* take it away; and a depot has an entry exactly while a file names it.    *)
KeysAreKept ==
  \A d \in LuaDepots :
    /\ lua.keys[d] # NoEntry <=> \E f \in LuaFiles : d \in lua.depots[f]
    /\ (\E f \in LuaFiles : d \in lua.depots[f] /\
          \E i \in DOMAIN Executed(lua.texts[f]) :
             Executed(lua.texts[f])[i].call = "addappid" /\ Executed(lua.texts[f])[i].id = d
             /\ Executed(lua.texts[f])[i].key # NoKey)
       => lua.keys[d] \in DepotKeys

(* "max(mtime) across every file that currently contributes it": an app     *)
(* never looks bought before a file that gives it was written.              *)
BoughtWithItsFiles ==
  \A d \in LuaDepots, f \in LuaFiles : d \in lua.depots[f] => lua.bought[d] >= lua.mtime[f]

(* Every statement ahead of the first garbled line takes effect, also one   *)
(* of several lines, and whatever calls before it were refused.             *)
StatementsTakeEffect ==
  \A f \in LuaFiles :
    LET text == lua.texts[f]
    IN  \A i \in DOMAIN text :
          (/\ i > 1 /\ text[i].kind = "close" /\ text[i - 1].kind = "open"
           /\ text[i].stmt.call = "addappid"
           /\ \A j \in 1 .. i - 2 : text[j].kind = "whole")
          => text[i].stmt.id \in lua.depots[f]

(* The tables are those of the files loaded, whatever order they came in.  *)
TablesFollowTheFiles == KeysAreKept /\ BoughtWithItsFiles /\ StatementsTakeEffect
=============================================================================
