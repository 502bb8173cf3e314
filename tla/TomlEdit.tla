------------------------------ MODULE TomlEdit ------------------------------
(***************************************************************************)
(* The edits that the client's pages make to the text of steamflipper.toml *)
(* and what Config::Load then reads from it.                               *)
(*                                                                         *)
(* A text is a sequence of lines: the header of a section, a key and its   *)
(* value, a further line of the value before it, or a comment, of which    *)
(* only the words matter that the searches look for.  A value is "true",   *)
(* "false", "other", or "open" where it goes on in the next lines; a key   *)
(* is read where its value has the type it should have.  A header stands   *)
(* at the start of its line, in the spelling the program writes; no line   *)
(* of a value has the words of a header or a key, and a header's words in  *)
(* a string of one line are taken as those in a comment.                   *)
(***************************************************************************)
EXTENDS Naturals, Sequences, SequencesExt

CONSTANTS Sections, SettingKeys, Cloud, Enabled, MaxTextLines

Unset == "unset"   \* the section or the value of what has none

ASSUME TomlAssumption ==
  /\ Cloud \in Sections /\ Enabled \in SettingKeys /\ MaxTextLines \in Nat
  /\ Unset \notin Sections

VARIABLES
  toml,     \* the text of the file, as an editor may leave it
  ending    \* how its lines end: "lf", "crlf", or "lf" but for the last, "none"

tomlFile == <<toml, ending>>

TomlValues == {"true", "false", "other", "open"}
Header(s)  == [kind |-> "header", sec |-> s]
KeyLine(k, v) == [kind |-> "key", key |-> k, val |-> v]
Prose(ws)  == [kind |-> "prose", words |-> ws]   \* "# ..."
Mention(s) == [kind |-> "mention", sec |-> s]    \* "# ... [section] ..."
Rest       == [kind |-> "rest"]                  \* a value goes on
Junk       == [kind |-> "junk"]                  \* two statements run together

Lines == {Header(s) : s \in Sections}
         \cup {KeyLine(k, v) : k \in SettingKeys, v \in {"true", "false"}}
         \cup {KeyLine(k, "open") : k \in SettingKeys \ {Enabled}}
         \cup {Prose({}), Prose({Enabled}), Mention(Cloud), Rest}

(* Where a search of the text for a header or a word first hits at or      *)
(* after a line, 0 if nowhere.                                             *)
FirstAt(text, from, Hit(_)) ==
  LET hits == {i \in from..Len(text) : Hit(text[i])}
  IN IF hits = {} THEN 0 ELSE CHOOSE i \in hits : \A j \in hits : i <= j

(* The first "[section]" of the text, a comment's included.                *)
IsHeader(l)     == l.kind = "header"
HeaderOf(text, s) ==
  LET Hit(l) == l \in {Header(s), Mention(s)} IN FirstAt(text, 1, Hit)

(* The lines of a section: up to the next header or the end.               *)
SectionEnd(text, at) ==
  LET next == FirstAt(text, at + 1, IsHeader)
  IN IF next = 0 THEN Len(text) ELSE next - 1

(* A setting goes in after the line break of the section's last line that  *)
(* is not blank.  A last line without one takes the setting into itself,   *)
(* and "\r\n" is taken for two breaks and the setting put between: the     *)
(* line breaks, or if it is a comment the setting is part of it.           *)
LineAfter(text, i, l) == SubSeq(text, 1, i) \o <<l>> \o SubSeq(text, i + 1, Len(text))
OwnLine(text, i)      == ending = "lf" \/ (ending = "none" /\ i < Len(text))
InsertedAfter(text, i, l) ==
  IF OwnLine(text, i) THEN LineAfter(text, i, l)
  ELSE IF ending = "none" /\ text[i].kind \in {"prose", "mention"} THEN text
  ELSE [text EXCEPT ![i] = Junk]

(* Mutant: the key is searched for in the whole text after the header.     *)
SetKeyAnywhere(text, s, k, v) ==
  LET at  == HeaderOf(text, s)
      its == {i \in (at + 1)..Len(text) : text[i].kind = "key" /\ text[i].key = k}
  IN IF at = 0 THEN text \o <<Header(s), KeyLine(k, v)>>
     ELSE IF its = {} THEN InsertedAfter(text, SectionEnd(text, at), KeyLine(k, v))
     ELSE [text EXCEPT ![CHOOSE i \in its : \A j \in its : i <= j] = KeyLine(k, v)]

(* WriteConfigKey's edit.                                                  *)
SetKey(text, s, k, v) ==
  LET at  == HeaderOf(text, s)
      end == SectionEnd(text, at)
      its == {i \in (at + 1)..end : text[i].kind = "key" /\ text[i].key = k}
  IN IF at = 0 THEN text \o <<Header(s), KeyLine(k, v)>>
     ELSE IF its = {} THEN InsertedAfter(text, end, KeyLine(k, v))
     ELSE [text EXCEPT ![CHOOSE i \in its : \A j \in its : i <= j] = KeyLine(k, v)]

(* JsonCloudEnable and JsonCloudDisable: the first "enabled" after the     *)
(* section's header, and the old value within the 32 characters that       *)
(* follow.  A line of prose is longer than that, a line with a key is not. *)
Within(text, i) == IF text[i].kind = "prose" \/ i = Len(text) THEN {i} ELSE {i, i + 1}

(* Mutant: the switch is the first flag of the file.                       *)
FlipFirst(text, old, new) ==
  LET hit == {i \in 1..Len(text) : /\ text[i].kind = "key" /\ text[i].key = Enabled
                                   /\ text[i].val = old}
  IN IF hit = {} THEN text
     ELSE [text EXCEPT ![CHOOSE i \in hit : \A j \in hit : i <= j].val = new]

FlipCloud(text, old, new) ==
  LET at == HeaderOf(text, Cloud)
      Says(l) == \/ l.kind = "key" /\ l.key = Enabled
                 \/ l.kind = "prose" /\ Enabled \in l.words
      word == FirstAt(text, at + 1, Says)
      hit  == {i \in Within(text, word) : text[i].kind = "key" /\ text[i].val = old}
  IN IF word = 0 \/ hit = {} THEN text
     ELSE [text EXCEPT ![CHOOSE i \in hit : \A j \in hit : i <= j].val = new]

JsonCloudEnable(text) ==
  IF HeaderOf(text, Cloud) = 0
    THEN text \o <<Header(Cloud), KeyLine(Enabled, "true")>>
    ELSE FlipCloud(text, "false", "true")

JsonCloudDisable(text) ==
  IF HeaderOf(text, Cloud) = 0 THEN text ELSE FlipCloud(text, "true", "false")

SectionOf(text, i) ==
  LET hs == {h \in 1..i : IsHeader(text[h])}
  IN IF hs = {} THEN Unset ELSE text[CHOOSE h \in hs : \A j \in hs : j <= h].sec

KeysOf(text, s, k) ==
  {i \in 1..Len(text) : /\ text[i].kind = "key" /\ text[i].key = k
                        /\ SectionOf(text, i) = s}

(* Config::Load: a section or a key that is there twice does not parse,    *)
(* nor does a value that stops short or a piece of one.                    *)
Once(text) ==
  /\ \A i, j \in 1..Len(text) :
       IsHeader(text[i]) /\ IsHeader(text[j]) /\ text[i] = text[j] => i = j
  /\ \A s \in Sections \cup {Unset}, k \in SettingKeys :
       \A i, j \in KeysOf(text, s, k) : i = j

GoesOn(l) == l.kind = "key" /\ l.val = "open"
Intact(text) ==
  \A i \in 1..Len(text) :
    /\ text[i].kind # "junk"
    /\ text[i].kind = "rest" => i > 1 /\ (GoesOn(text[i - 1]) \/ text[i - 1].kind = "rest")
    /\ GoesOn(text[i]) => i < Len(text) /\ text[i + 1].kind = "rest"

Parses(text) == Once(text) /\ Intact(text)

Load(text) ==
  [s \in Sections |-> [k \in SettingKeys |->
     LET its == KeysOf(text, s, k)
     IN IF its = {} THEN Unset ELSE text[CHOOSE i \in its : TRUE].val]]

(* An editor writes the file a line at a time.                             *)
TomlInit == toml = <<>> /\ ending \in {"lf", "crlf", "none"}

TypeLine(l) ==
  /\ Len(toml) < MaxTextLines
  /\ toml' = Append(toml, l)
  /\ UNCHANGED ending

TomlNext == \E l \in Lines : TypeLine(l)

-----------------------------------------------------------------------------
(* Where an edit of a line at a time can do what it should: "[section]" is *)
(* not in a comment before the header, a value to be replaced is on one    *)
(* line, and a setting to be put in gets a line of its own.                *)
Found(text, s) == HeaderOf(text, s) = 0 \/ text[HeaderOf(text, s)] = Header(s)
Editable(text, s, k) ==
  /\ Found(text, s)
  /\ Load(text)[s][k] # "open"
  /\ (HeaderOf(text, s) # 0 /\ KeysOf(text, s, k) = {})
       => OwnLine(text, SectionEnd(text, HeaderOf(text, s)))

(* In such a file, whatever else is in it, saving one setting from a page  *)
(* leaves a file that parses and differs in that setting only: "the        *)
(* section is found, the key inside it is rewritten if present and         *)
(* appended if not, and everything else is untouched"                      *)
(* (LuaFlipperUI.cpp:968).                                                 *)
OneSettingChanges ==
  Parses(toml) =>
    \A s \in Sections, k \in SettingKeys :
      Editable(toml, s, k) =>
        LET after == SetKey(toml, s, k, "other")
        IN Parses(after) /\ Load(after) = [Load(toml) EXCEPT ![s][k] = "other"]

(* The switch for the cloud leaves a file that parses and changes at most  *)
(* one setting, which was off and is on; and that is the cloud's where its *)
(* section is absent, or is found and has the flag, off, with no word of   *)
(* it before.  Of a section without a flag it may be another section's.    *)
CloudSwitchFlips ==
  Parses(toml) =>
    LET before == Load(toml)
        after  == JsonCloudEnable(toml)
        turned == [before EXCEPT ![Cloud][Enabled] = "true"]
    IN /\ Parses(after)
       /\ HeaderOf(toml, Cloud) = 0 => Load(after) = turned
       /\ HeaderOf(toml, Cloud) # 0 =>
            \/ Load(after) = before
            \/ \E s \in Sections, k \in SettingKeys :
                 before[s][k] = "false" /\ Load(after) = [before EXCEPT ![s][k] = "true"]
       /\ ( /\ Found(toml, Cloud) /\ before[Cloud][Enabled] = "false"
            /\ \A i \in 1..Len(toml) : toml[i] # Prose({Enabled}))
            => Load(after) = turned

(* "One switch: ... turn [cloud] on" (LuaFlipperUI.cpp:2304), said of      *)
(* every file that has the switch and has it off, its comments included:   *)
(* the example the repository ships says "When enabled" above the flag.    *)
CloudTurnsOn ==
  Parses(toml) /\ Load(toml)[Cloud][Enabled] = "false"
    => Load(JsonCloudEnable(toml))[Cloud][Enabled] = "true"

(* Not so of every file: OneSettingChanges without Editable, which fails   *)
(* by a comment, by a value of several lines and by a last line without    *)
(* its break; and that the switch changes no other setting.                *)
EveryEditHolds ==
  Parses(toml) =>
    \A s \in Sections, k \in SettingKeys :
      LET after == SetKey(toml, s, k, "other")
      IN Parses(after) /\ Load(after) = [Load(toml) EXCEPT ![s][k] = "other"]

SwitchIsTheClouds ==
  Parses(toml) =>
    \A s \in Sections, k \in SettingKeys :
      <<s, k>> = <<Cloud, Enabled>> \/ Load(JsonCloudEnable(toml))[s][k] = Load(toml)[s][k]

(* An edit that can be done leaves a file that parses and differs in that  *)
(* setting, and the switch never turns off or changes more than one.       *)
EditsStayInPlace == OneSettingChanges /\ CloudSwitchFlips
=============================================================================
