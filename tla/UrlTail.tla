------------------------------ MODULE UrlTail -------------------------------
(***************************************************************************)
(* SteamUrlWatcher: the keys a website hands over through Steam's console  *)
(* log.  Every two seconds the thread reads what was appended since it     *)
(* last looked.  A line is two pieces here, its start and its end, because *)
(* Steam may have written only the first when the thread looks.            *)
(***************************************************************************)
EXTENDS Integers, Sequences, FiniteSets

CONSTANTS MaxLines,    \* lines Steam writes while the thread runs
          History      \* lines in the log from before

ASSUME TailAssumption == MaxLines \in Nat /\ History \in Nat

VARIABLES
  log,       \* the pieces in the log file, <<line, half>>
  own,       \* the lines that name steamflipper, the others name hubcaptools
  lines,     \* lines written so far
  at,        \* the pieces that count as read
  looked,    \* the length of the log when the thread looked, 0 when it has not
  todo,      \* the keys read and not yet acted on, <<line, read>>
  ours,      \* the line whose key the loaded configuration has, 0 for another key
  reads,     \* reads so far
  adopted,   \* the keys saved, in order, <<line, read>>
  again      \* the keys to be read once more, with the read that will

logFile == <<log, own, lines>>
reading == <<at, looked, todo, reads, again>>
tail == <<logFile, reading, ours, adopted>>

Pieces(first, last) ==
  [i \in 1..2 * (last - first + 1) |-> <<first + (i - 1) \div 2, 1 + ((i - 1) % 2)>>]

TailInitAt(place) ==
  /\ lines = History /\ own = {}
  /\ log = Pieces(1, History) /\ at = place
  /\ looked = 0 /\ todo = <<>> /\ reads = 0 /\ again = {}
  /\ ours = 0 /\ adopted = <<>>

(* Mutant: the thread starts at the beginning of the log.                  *)
TailInitFromStart == TailInitAt(0)

(* The thread starts at the log's end.                                     *)
TailInit == TailInitAt(2 * History)

LineOpen == log # <<>> /\ log[Len(log)][2] = 1

(* Steam writes a line of its log, in one piece or in two.                 *)
WriteStart ==
  /\ lines < History + MaxLines
  /\ ~LineOpen
  /\ lines' = lines + 1
  /\ own' \in {own, own \cup {lines + 1}}
  /\ \E n \in 1..2 : log' = log \o SubSeq(<<<<lines + 1, 1>>, <<lines + 1, 2>>>>, 1, n)
  /\ UNCHANGED <<reading, ours, adopted>>

WriteEnd ==
  /\ LineOpen
  /\ log' = Append(log, <<log[Len(log)][1], 2>>)
  /\ UNCHANGED <<own, lines, reading, ours, adopted>>

(* Steam starts the log anew.                                              *)
RotateLog ==
  /\ log # <<>> /\ log' = <<>>
  /\ UNCHANGED <<own, lines, reading, ours, adopted>>

(* The thread takes the length of the log.  One shorter than what was read *)
(* is a new log, resumed at its end.                                       *)
Look ==
  /\ looked = 0 /\ todo = <<>> /\ Len(log) # at
  /\ IF Len(log) < at THEN at' = Len(log) /\ looked' = looked
                      ELSE looked' = Len(log) /\ at' = at
  /\ UNCHANGED <<logFile, todo, reads, again, ours, adopted>>

(* The lines with a start and an end in the piece that was read: the chunk *)
(* is searched for the one mark and then for the other.                    *)
KeysUnder(mark, chunk) ==
  LET whole == {i \in 1..Len(chunk) - 1 :
                  chunk[i][2] = 1 /\ chunk[i + 1][2] = 2 /\ chunk[i][1] \in mark}
      n(i)  == Cardinality({k \in whole : k <= i})
  IN [j \in 1..Cardinality(whole) |-> chunk[CHOOSE i \in whole : n(i) = j][1]]

KeysIn(chunk) == KeysUnder((1..lines) \ own, chunk) \o KeysUnder(own, chunk)

(* The log is read to its end as it is by now, and counts as read to where *)
(* it ended when the thread looked: what came in between is read again.    *)
Read ==
  /\ looked > 0
  /\ LET keys == KeysIn(SubSeq(log, at + 1, Len(log)))
     IN todo' = [i \in DOMAIN keys |-> <<keys[i], reads + 1>>]
  /\ again' = again \cup {<<log[i][1], reads + 2>> : i \in {k \in looked + 1..Len(log) : log[k][2] = 1}}
  /\ at' = looked /\ looked' = 0 /\ reads' = reads + 1
  /\ UNCHANGED <<logFile, ours, adopted>>

(* The next key is saved unless it is the one loaded, or the write fails.  *)
Adopt ==
  /\ todo # <<>> /\ todo' = Tail(todo)
  /\ \/ /\ Head(todo)[1] # ours
        /\ adopted' = Append(adopted, Head(todo))
     \/ UNCHANGED adopted
  /\ UNCHANGED <<logFile, at, looked, reads, again, ours>>

(* The configuration is loaded: with the key saved last, or another that   *)
(* the user has set by hand.                                               *)
LoadKey ==
  /\ ours' \in {0} \cup {adopted[i][1] : i \in {Len(adopted)} \ {0}}
  /\ UNCHANGED <<logFile, reading, adopted>>

TailNext == WriteStart \/ WriteEnd \/ RotateLog \/ Look \/ Read \/ Adopt \/ LoadKey

TailSpec == TailInit /\ [][TailNext]_tail

-----------------------------------------------------------------------------
(* A key is adopted only if it was activated while the thread ran, once    *)
(* and in the order of activation: "re-applying an old one on every launch *)
(* would quietly undo a key the user changed by hand"                      *)
(* (LuaFlipperUI.cpp:1363).  Two cases are excepted, for the code does not *)
(* keep them apart: a line appended between the thread's look and its read *)
(* is adopted by the next read too, and of the lines of one read those     *)
(* that name steamflipper come last.                                       *)
InOrder(keys) ==
  \A i, j \in DOMAIN keys : i < j =>
    \/ keys[i][1] < keys[j][1]
    \/ keys[j] \in again
    \/ keys[i][2] = keys[j][2] /\ keys[i][1] \notin own /\ keys[j][1] \in own

EachActivationOnce ==
  /\ \A i \in DOMAIN adopted : adopted[i][1] > History
  /\ InOrder(adopted)

(* Without the exceptions it does not hold, nor do all lines count: one    *)
(* read in two pieces, and the start of a rotated log, are passed over.    *)
AdoptedOnceInOrder ==
  \A i, j \in DOMAIN adopted : i < j => adopted[i][1] < adopted[j][1]

EveryActivationCounts ==
  (log # <<>> /\ Len(log) = at /\ todo = <<>>) =>
    \A l \in (History + 1)..lines :
      (\E i \in 1..at : log[i] = <<l, 2>>) => \E i \in DOMAIN adopted : adopted[i][1] = l

=============================================================================
