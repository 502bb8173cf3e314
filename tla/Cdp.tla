-------------------------------- MODULE Cdp ---------------------------------
(***************************************************************************)
(* The WebSocket client that talks to Steam's browser: the length in a     *)
(* frame's header, and frames that arrive in pieces between timeouts.      *)
(***************************************************************************)
EXTENDS Integers, Sequences

CONSTANTS MaxFrames,   \* frames the browser sends
          Sizes        \* their sizes, in cells

ASSUME CdpAssumption == MaxFrames \in Nat /\ Sizes \subseteq Nat

Byte(n, i) == (n \div <<1, 256, 65536, 16777216>>[i + 1]) % 256

(* Mutant: the length is shifted as a 32-bit number, which an i386 does by *)
(* the low five bits of the count.                                         *)
LengthUnwidened(n) ==
  IF n < 126 THEN <<n>>
  ELSE IF n < 65536 THEN <<126, Byte(n, 1), Byte(n, 0)>>
  ELSE <<127>> \o [i \in 1..8 |-> Byte(n, (8 - i) % 4)]

(* Send: the length is itself, or two or eight bytes after a marker.       *)
Length(n) ==
  IF n < 126 THEN <<n>>
  ELSE IF n < 65536 THEN <<126, Byte(n, 1), Byte(n, 0)>>
  ELSE <<127>> \o [i \in 1..8 |-> IF i < 5 THEN 0 ELSE Byte(n, 8 - i)]

(* What a header says, its number built up a byte at a time.               *)
LengthRead(h) ==
  LET number[i \in 1..Len(h)] == IF i = 1 THEN 0 ELSE 256 * number[i - 1] + h[i]
  IN IF h[1] < 126 THEN h[1] ELSE number[Len(h)]

VARIABLES
  sent,      \* the sizes of the frames sent
  wire,      \* the cells on their way, <<frame, index>>
  rest,      \* the cells received and not yet taken
  taken,     \* the frames Recv has returned
  closed

cdp == <<sent, wire, rest, taken, closed>>

CdpInit == sent = <<>> /\ wire = <<>> /\ rest = <<>> /\ taken = <<>> /\ closed = FALSE

Cells(f, n) == [i \in 1..n + 1 |-> <<f, i - 1>>]   \* index 0 is the header

PeerSends(n) ==
  /\ ~closed /\ Len(sent) < MaxFrames
  /\ sent' = Append(sent, n)
  /\ wire' = wire \o Cells(Len(sent) + 1, n)
  /\ UNCHANGED <<rest, taken, closed>>

PeerCloses == ~closed /\ closed' = TRUE /\ UNCHANGED <<sent, wire, rest, taken>>

Whole(cells) == cells # <<>> /\ Len(cells) > sent[Head(cells)[1]]

(* Mutant: a timeout drops the piece of a frame that has come.             *)
RecvDrops ==
  /\ ~Whole(rest)
  /\ \E n \in 0..Len(wire) :
       /\ wire' = SubSeq(wire, n + 1, Len(wire))
       /\ rest' = IF Whole(rest \o SubSeq(wire, 1, n)) THEN rest \o SubSeq(wire, 1, n) ELSE <<>>
  /\ UNCHANGED <<sent, taken, closed>>

(* Recv reads some of what has come, and on a timeout keeps it.            *)
Recv ==
  /\ ~Whole(rest) /\ wire # <<>>
  /\ \E n \in 1..Len(wire) :
       /\ rest' = rest \o SubSeq(wire, 1, n)
       /\ wire' = SubSeq(wire, n + 1, Len(wire))
  /\ UNCHANGED <<sent, taken, closed>>

(* A whole frame is returned, and what follows it kept.                    *)
Take ==
  /\ Whole(rest)
  /\ LET f == Head(rest)[1]
     IN /\ taken' = Append(taken, SubSeq(rest, 1, sent[f] + 1))
        /\ rest' = SubSeq(rest, sent[f] + 2, Len(rest))
  /\ UNCHANGED <<sent, wire, closed>>

CdpNext ==
  \/ \E n \in Sizes : PeerSends(n)
  \/ PeerCloses \/ Recv \/ Take

CdpSpec == CdpInit /\ [][CdpNext]_cdp

-----------------------------------------------------------------------------
(* A header means the length it was made from, on both sides of each of    *)
(* its forms: the 64-bit form "stayed dormant and then broke injection     *)
(* outright" (Send, LuaFlipperUI.cpp:242).                                 *)
LengthsSurvive ==
  \A n \in {0, 125, 126, 127, 255, 256, 65535, 65536, 65537, 16777216} :
    LengthRead(Length(n)) = n

(* Frames come out whole and in order, however they were cut up and        *)
(* whatever timeouts fell between: "the next call resumes the same frame   *)
(* rather than losing it" (Recv, LuaFlipperUI.cpp:304).                    *)
FramesComeWhole ==
  \A f \in DOMAIN taken : taken[f] = Cells(f, sent[f])

(* What one side sends the other reads, whatever its length and pieces.    *)
FramesArrive == LengthsSurvive /\ FramesComeWhole
=============================================================================
