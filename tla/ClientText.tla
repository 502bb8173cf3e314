----------------------------- MODULE ClientText -----------------------------
(***************************************************************************)
(* The conversions between the client module, Steam's pages and the web:   *)
(* JSON strings, query parameters and the regions of a document that are   *)
(* passed on whole.                                                        *)
(*                                                                         *)
(* A text is a sequence of characters, of which each class the code tells  *)
(* apart is there once; one character of an escape, a hexadecimal code     *)
(* among them, is written as the character and its kind of escape.         *)
(***************************************************************************)
EXTENDS Integers, Sequences, FiniteSets, SequencesExt

CONSTANT MaxText

ASSUME TextAssumption == MaxText \in Nat

VARIABLE typed   \* a text somebody typed or a service sent

(* Mutant: a backslash is taken for a harmless character.                  *)
JsonEscapeQuotes1(ch) ==
  CASE ch = "q" -> <<"b", "q">> [] ch = "l" -> <<"b", "n">>
    [] ch = "c" -> <<"b", "hex">> [] OTHER -> <<ch>>

(* "a" a letter, "n" a letter that is one after a backslash, "q" a double  *)
(* quote, "b" a backslash, "l" a line feed, "c" a control character, "s" a *)
(* space, "m" an ampersand, "p" a percent sign, "u" a plus.                *)
Characters == {"a", "n", "q", "b", "l", "c", "s", "m", "p", "u"}

JsonEscape1(ch) ==
  CASE ch = "q" -> <<"b", "q">> [] ch = "b" -> <<"b", "b">>
    [] ch = "l" -> <<"b", "n">> [] ch = "c" -> <<"b", "hex">>
    [] OTHER -> <<ch>>

JsonEscape(text) == FlattenSeq([i \in DOMAIN text |-> JsonEscape1(text[i])])

(* JsonString from its opening quote on: what it reads up to the quote     *)
(* that closes the string.  A code in hexadecimal is read as its letters.  *)
Unescaped(ch) == IF ch = "n" THEN <<"l">> ELSE <<ch>>

JsonString(doc) ==
  LET read[i \in 1..(Len(doc) + 1)] ==
        IF i > Len(doc) \/ doc[i] = "q" THEN <<>>
        ELSE IF doc[i] = "b" /\ i < Len(doc)
          THEN Unescaped(doc[i + 1]) \o (IF i + 2 > Len(doc) THEN <<>> ELSE read[i + 2])
        ELSE <<doc[i]>> \o read[i + 1]
  IN read[1]

(* Mutant: the ampersand of a search term goes as it is.                   *)
UrlEncodeUnsafe(text) ==
  FlattenSeq([i \in DOMAIN text |->
    IF text[i] \in {"a", "n", "m"} THEN <<text[i]>> ELSE <<"p", text[i], "code">>])

(* UrlEncode and QueryParam: a character that is no letter goes as its     *)
(* code; a plus stands for a space; the next parameter ends the value.     *)
UrlEncode(text) ==
  FlattenSeq([i \in DOMAIN text |->
    IF text[i] \in {"a", "n"} THEN <<text[i]>> ELSE <<"p", text[i], "code">>])

QueryParam(query) ==
  LET ends  == {i \in DOMAIN query : /\ query[i] = "m"
                                     /\ i = 1 \/ query[i - 1] # "p"}
      raw   == IF ends = {} THEN query
               ELSE SubSeq(query, 1, (CHOOSE i \in ends : \A j \in ends : i <= j) - 1)
      read[i \in 1..(Len(raw) + 3)] ==
        IF i > Len(raw) THEN <<>>
        ELSE IF raw[i] = "u" THEN <<"s">> \o read[i + 1]
        ELSE IF raw[i] = "p" /\ i + 2 <= Len(raw) THEN <<raw[i + 1]>> \o read[i + 3]
        ELSE <<raw[i]>> \o read[i + 1]
  IN read[1]

(* Mutant: a closing bracket in a string closes the region.                *)
JsonRegionThroughStrings(doc) ==
  LET depth[i \in 0..Len(doc)] ==
        IF i = 0 THEN 0
        ELSE depth[i - 1] + (IF doc[i] = "a" THEN 1 ELSE IF doc[i] = "n" THEN -1 ELSE 0)
      ends == {i \in DOMAIN doc : depth[i] = 0}
  IN IF doc = <<>> \/ doc[1] # "a" \/ ends = {} THEN <<>>
     ELSE SubSeq(doc, 1, CHOOSE i \in ends : \A j \in ends : i <= j)

(* JsonRegion: the brackets from the first one on, balanced, those within  *)
(* strings not counted.  In this reading of a text "a" opens a region and  *)
(* "n" closes it.                                                          *)
JsonRegion(doc) ==
  LET scan[i \in 1..(Len(doc) + 2)] ==
        \* where the scan is before the i-th character: depth and in a string
        IF i = 1 THEN [depth |-> 0, str |-> FALSE, skip |-> FALSE]
        ELSE LET was == scan[i - 1]
                 ch  == IF i - 1 > Len(doc) THEN "end" ELSE doc[i - 1]
             IN IF was.skip THEN [was EXCEPT !.skip = FALSE]
                ELSE IF was.str
                  THEN [was EXCEPT !.skip = (ch = "b"), !.str = (ch # "q")]
                ELSE IF ch = "q" THEN [was EXCEPT !.str = TRUE]
                ELSE IF ch = "a" THEN [was EXCEPT !.depth = @ + 1]
                ELSE IF ch = "n" /\ was.depth > 0 THEN [was EXCEPT !.depth = @ - 1]
                ELSE was
      ends == {i \in DOMAIN doc : /\ doc[i] = "n" /\ scan[i + 1].depth = 0
                                  /\ scan[i].depth = 1}
  IN IF doc = <<>> \/ doc[1] # "a" \/ ends = {} THEN <<>>
     ELSE SubSeq(doc, 1, CHOOSE i \in ends : \A j \in ends : i <= j)

TextInit == typed = <<>>
TypeChar(ch) == Len(typed) < MaxText /\ typed' = Append(typed, ch)
TextNext == \E ch \in Characters : TypeChar(ch)

-----------------------------------------------------------------------------
(* A script, a title or a reply put into a JSON string is read back as it  *)
(* was, and ends where it ended, whatever it holds; but for a control      *)
(* character, whose code is read as letters.                               *)
EscapedComesBack ==
  \A rest \in {<<"q">>, <<"q", "a">>} :
    JsonString(JsonEscape(typed) \o rest) =
      [i \in DOMAIN typed |-> IF typed[i] = "c" THEN "hex" ELSE typed[i]]

(* A search term with spaces and ampersands in it reaches the handler as   *)
(* it was typed, and nothing of what follows it does.                      *)
QueryComesBack == QueryParam(UrlEncode(typed) \o <<"m", "a">>) = typed

(* Reference for JsonRegion: the brackets outside strings that are open    *)
(* after a character.                                                      *)
InString(doc, i) == Cardinality({j \in 1..(i - 1) : doc[j] = "q"}) % 2 = 1

Depth(doc, i) ==
  Cardinality({j \in 1..i : doc[j] = "a" /\ ~InString(doc, j)})
    - Cardinality({j \in 1..i : doc[j] = "n" /\ ~InString(doc, j)})

(* A region that is passed on whole is one value of the document: its      *)
(* brackets match and no shorter part of it does.                          *)
RegionIsOneValue ==
  LET got == JsonRegion(typed)
  IN (\A i \in DOMAIN typed : typed[i] \in {"a", "n", "q", "s"}) /\ got # <<>>
       => /\ Depth(got, Len(got)) = 0
          /\ \A i \in 1..(Len(got) - 1) : Depth(got, i) > 0

(* Text crosses from page to handler and back unchanged, one value each.   *)
TextComesBack == EscapedComesBack /\ QueryComesBack /\ RegionIsOneValue
=============================================================================
