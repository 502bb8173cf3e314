----------------------------- MODULE Induction ------------------------------
(***************************************************************************)
(* Induction over numbers, and functions defined by recursion over an      *)
(* interval of them.  The library states these facts about operators, in   *)
(* which first-order provers cannot instantiate them; here they are about  *)
(* sets and functions.  And what the proofs that use them need to know of  *)
(* sequences joined by twos or all together.                               *)
(***************************************************************************)
EXTENDS Integers, SequencesExt, SequenceTheorems, WellFoundedInduction, TLAPS

(* A nonempty set of numbers has a smallest.                               *)
LEMMA SmallestExists ==
  ASSUME NEW S \in SUBSET Nat, S # {}
  PROVE  \E k \in S : \A j \in S : k <= j
<1>1. PICK k \in S : \A j \in S : ~ (<<j, k>> \in OpToRel(<, Nat))
  BY NatLessThanWellFounded, WFMin
<1>2. ASSUME NEW j \in S
      PROVE  k <= j
  <2>1. j \in Nat /\ k \in Nat
    OBVIOUS
  <2>2. j < k => <<j, k>> \in OpToRel(<, Nat)
    BY <2>1 DEF OpToRel
  <2>3. ~ (j < k)
    BY <1>1, <2>2
  <2> QED
    BY <2>1, <2>3
<1> QED
  BY <1>2

(* One that is bounded has a largest.                                      *)
LEMMA LargestExists ==
  ASSUME NEW n \in Nat, NEW S \in SUBSET (0 .. n), S # {}
  PROVE  \E k \in S : \A j \in S : j <= k
<1> DEFINE M == {i \in Nat : n - i \in S}
<1>1. M # {}
  <2>1. PICK j \in S : TRUE
    OBVIOUS
  <2>2. n - j \in Nat /\ n - (n - j) = j
    OBVIOUS
  <2> QED
    BY <2>1, <2>2
<1>2. PICK i \in M : \A j \in M : i <= j
  BY <1>1, SmallestExists
<1>3. ASSUME NEW j \in S PROVE j <= n - i
  <2>1. n - j \in Nat /\ n - (n - j) = j
    OBVIOUS
  <2>2. i <= n - j
    BY <1>2, <2>1
  <2> QED
    BY <2>2
<1> QED
  BY <1>3

(* What holds of 0 and of the next number each time holds up to n.         *)
LEMMA Upward ==
  ASSUME NEW n \in Nat, NEW S, 0 \in S,
         \A i \in 0 .. n - 1 : i \in S => i + 1 \in S
  PROVE  \A i \in 0 .. n : i \in S
<1> DEFINE M == (0 .. n) \ S
<1> SUFFICES ASSUME M # {} PROVE FALSE
  OBVIOUS
<1>1. PICK k \in M : \A j \in M : k <= j
  <2>1. M \in SUBSET Nat
    OBVIOUS
  <2> HIDE DEF M
  <2> QED
    BY <2>1, SmallestExists
<1>2. k # 0 /\ k - 1 \in 0 .. n - 1 /\ (k - 1) + 1 = k
  BY <1>1
<1>3. k - 1 \in S
  BY <1>1, <1>2
<1> QED
  BY <1>1, <1>2, <1>3

(* What holds of n and of the number before each time holds down to 1.     *)
LEMMA Downward ==
  ASSUME NEW n \in Nat, NEW S,
         \A i \in 1 .. n : (\A j \in i + 1 .. n : j \in S) => i \in S
  PROVE  \A i \in 1 .. n : i \in S
<1> DEFINE M == (1 .. n) \ S
<1> SUFFICES ASSUME M # {} PROVE FALSE
  OBVIOUS
<1>1. PICK k \in M : \A j \in M : j <= k
  <2>1. M \in SUBSET (0 .. n)
    OBVIOUS
  <2> HIDE DEF M
  <2> QED
    BY <2>1, LargestExists
<1>2. \A j \in k + 1 .. n : j \in S
  BY <1>1
<1> QED
  BY <1>1, <1>2

(* A function of the numbers up to n is defined by what it is at 0 and by  *)
(* what each value makes of the one before.                                *)
IsRun(run, T, base, n, next) ==
  /\ run \in [0 .. n -> T] /\ run[0] = base
  /\ \A i \in 1 .. n : run[i] = next[<<i, run[i - 1]>>]

(* A function defined by going up from 0.                                  *)
LEMMA RunExists ==
  ASSUME NEW T, NEW base \in T, NEW n \in Nat, NEW next \in [(1 .. n) \X T -> T]
  PROVE  \E run : IsRun(run, T, base, n, next)
<1> DEFINE Upto(run, m) == run[0] = base /\ \A i \in 1 .. m : run[i] = next[<<i, run[i - 1]>>]
           S == {m \in 0 .. n : \E run \in [0 .. n -> T] : Upto(run, m)}
<1>1. 0 \in S
  <2>1. [i \in 0 .. n |-> base] \in [0 .. n -> T]
    OBVIOUS
  <2>2. Upto([i \in 0 .. n |-> base], 0) /\ 0 \in 0 .. n
    OBVIOUS
  <2> QED
    BY <2>1, <2>2
<1>2. ASSUME NEW m \in 0 .. n - 1, m \in S PROVE m + 1 \in S
  <2>1. PICK run \in [0 .. n -> T] : Upto(run, m)
    BY <1>2
  <2>2. m + 1 \in 1 .. n /\ m + 1 \in 0 .. n /\ m \in 0 .. n /\ (m + 1) - 1 = m
    OBVIOUS
  <2> DEFINE v == next[<<m + 1, run[m]>>]
             more == [run EXCEPT ![m + 1] = v]
  <2>3. v \in T /\ more \in [0 .. n -> T]
    BY <2>2
  <2>4. \A i \in 0 .. m : more[i] = run[i]
    OBVIOUS
  <2>5. more[m + 1] = next[<<m + 1, more[(m + 1) - 1]>>]
    BY <2>2, SMTT(30)
  <2> HIDE DEF v, more
  <2>6. ASSUME NEW i \in 1 .. m + 1 PROVE more[i] = next[<<i, more[i - 1]>>]
    <3>1. CASE i = m + 1
      BY <2>5, <3>1
    <3>2. CASE i \in 1 .. m
      <4>1. i \in 0 .. m /\ i - 1 \in 0 .. m
        BY <3>2
      <4> QED
        BY <2>1, <2>4, <3>2, <4>1
    <3> QED
      BY <3>1, <3>2
  <2>7. Upto(more, m + 1)
    BY <2>1, <2>4, <2>6
  <2> QED
    BY <2>2, <2>3, <2>7
<1> HIDE DEF S
<1>3. n \in S
  BY <1>1, <1>2, Upward
<1> QED
  BY <1>3 DEF S, IsRun

(* So is one from 1 to n by what each value is, given those after it.      *)
IsTail(f, T, n, at) ==
  f \in [1 .. n -> T] /\ \A i \in 1 .. n : f[i] = at[<<i, f>>]

(* And one defined by going down from n.                                   *)
LEMMA TailExists ==
  ASSUME NEW T, T # {}, NEW n \in Nat, NEW at \in [(1 .. n) \X [1 .. n -> T] -> T],
         \A i \in 1 .. n : \A f, g \in [1 .. n -> T] :
           (\A j \in i + 1 .. n : f[j] = g[j]) => at[<<i, f>>] = at[<<i, g>>]
  PROVE  \E f : IsTail(f, T, n, at)
<1> DEFINE From(f, m) == \A i \in n - m + 1 .. n : f[i] = at[<<i, f>>]
           S == {m \in 0 .. n : \E f \in [1 .. n -> T] : From(f, m)}
<1>1. 0 \in S
  <2>1. PICK t \in T : TRUE
    OBVIOUS
  <2>2. [i \in 1 .. n |-> t] \in [1 .. n -> T] /\ From([i \in 1 .. n |-> t], 0)
    BY <2>1
  <2> QED
    BY <2>2
<1>2. ASSUME NEW m \in 0 .. n - 1, m \in S PROVE m + 1 \in S
  <2>1. PICK f \in [1 .. n -> T] : From(f, m)
    BY <1>2
  <2> DEFINE k == n - m
             more == [f EXCEPT ![k] = at[<<k, f>>]]
  <2>2. k \in 1 .. n /\ m + 1 \in 0 .. n /\ n - (m + 1) + 1 = k /\ n - m + 1 = k + 1
    OBVIOUS
  <2> HIDE DEF k
  <2>3. more \in [1 .. n -> T] /\ more[k] = at[<<k, f>>]
        /\ \A j \in 1 .. n \ {k} : more[j] = f[j]
    BY <2>2
  <2> HIDE DEF more
  <2>4. ASSUME NEW i \in k .. n PROVE more[i] = at[<<i, more>>]
    <3>1. i \in 1 .. n /\ \A j \in i + 1 .. n : j \in 1 .. n \ {k}
      BY <2>2
    <3>2. \A j \in i + 1 .. n : f[j] = more[j]
      BY <2>3, <3>1
    <3>3. at[<<i, f>>] = at[<<i, more>>]
      BY <2>3, <3>1, <3>2
    <3>4. CASE i = k
      BY <2>3, <3>3, <3>4
    <3>5. CASE i # k
      <4>1. i \in n - m + 1 .. n /\ more[i] = f[i]
        BY <2>2, <2>3, <3>1, <3>5
      <4> QED
        BY <2>1, <3>3, <4>1
    <3> QED
      BY <3>4, <3>5
  <2>5. From(more, m + 1)
    BY <2>2, <2>4
  <2> QED
    BY <2>2, <2>3, <2>5
<1> HIDE DEF S
<1>3. n \in S
  BY <1>1, <1>2, Upward
<1>4. PICK f \in [1 .. n -> T] : From(f, n)
  BY <1>3 DEF S
<1> QED
  BY <1>4 DEF IsTail

(* Two sequences one after the other.                                      *)
LEMMA TwoParts ==
  ASSUME NEW S, NEW first \in Seq(S), NEW second \in Seq(S)
  PROVE  /\ first \o second \in Seq(S) /\ Len(first \o second) = Len(first) + Len(second)
         /\ \A i \in 1 .. Len(first) : (first \o second)[i] = first[i]
         /\ \A i \in 1 .. Len(second) : (first \o second)[Len(first) + i] = second[i]
<1>1. /\ first \o second \in Seq(S) /\ Len(first \o second) = Len(first) + Len(second)
      /\ \A i \in 1 .. Len(first) + Len(second) : (first \o second)[i] = IF i <= Len(first) THEN first[i] ELSE second[i - Len(first)]
  BY ConcatProperties
<1>2. Len(first) \in Nat /\ Len(second) \in Nat
  OBVIOUS
<1>3. ASSUME NEW i \in 1 .. Len(first) PROVE (first \o second)[i] = first[i]
  <2>1. i \in 1 .. Len(first) + Len(second) /\ i <= Len(first)
    BY <1>2
  <2> QED
    BY <1>1, <2>1
<1>4. ASSUME NEW i \in 1 .. Len(second) PROVE (first \o second)[Len(first) + i] = second[i]
  <2>1. Len(first) + i \in 1 .. Len(first) + Len(second) /\ ~ (Len(first) + i <= Len(first)) /\ (Len(first) + i) - Len(first) = i
    BY <1>2
  <2> QED
    BY <1>1, <2>1
<1> QED
  BY <1>1, <1>3, <1>4

(* Sequences one after the other, where each begins: starts[k] cells stand *)
(* before the sequence k + 1.                                              *)
Follow(seqs, whole, starts) ==
  /\ starts \in [0 .. Len(seqs) -> Nat] /\ starts[0] = 0 /\ Len(whole) = starts[Len(seqs)]
  /\ \A k \in 1 .. Len(seqs) : starts[k] = starts[k - 1] + Len(seqs[k])
  /\ \A k \in 1 .. Len(seqs) : starts[k] <= Len(whole)
  /\ \A k \in 1 .. Len(seqs) : \A j \in 1 .. Len(seqs[k]) : whole[starts[k - 1] + j] = seqs[k][j]
  /\ \A x \in 1 .. Len(whole) : \E k \in 1 .. Len(seqs) : \E j \in 1 .. Len(seqs[k]) :
       x = starts[k - 1] + j

(* FlattenSeq joins the sequences one after the other.                     *)
LEMMA FlattenRuns ==
  ASSUME NEW S, NEW seqs \in Seq(Seq(S))
  PROVE  \E run \in [0 .. Len(seqs) -> Seq(S)] :
           /\ run[0] = <<>> /\ \A k \in 1 .. Len(seqs) : run[k] = run[k - 1] \o seqs[k]
           /\ FlattenSeq(seqs) = run[Len(seqs)]
<1> DEFINE last == Len(seqs)
           step == [p \in (1 .. last) \X Seq(S) |-> p[2] \o seqs[p[1]]]
           Is(f) == f = [i \in 1 .. last |-> IF i = 1 THEN seqs[i] ELSE f[i - 1] \o seqs[i]]
           flat == CHOOSE f : Is(f)
<1>1. last \in Nat /\ \A i \in 1 .. last : seqs[i] \in Seq(S)
  OBVIOUS
<1>2. last = Len(seqs)
  OBVIOUS
<1> HIDE DEF last
<1>3. step \in [(1 .. last) \X Seq(S) -> Seq(S)]
  <2>1. ASSUME NEW p \in (1 .. last) \X Seq(S) PROVE p[2] \o seqs[p[1]] \in Seq(S)
    <3>1. p[2] \in Seq(S) /\ seqs[p[1]] \in Seq(S)
      BY <1>1
    <3> QED
      BY <3>1
  <2> QED
    BY <2>1
<1>4. \A i \in 1 .. last, v \in Seq(S) : step[<<i, v>>] = v \o seqs[i]
  OBVIOUS
<1> HIDE DEF step
<1>5. PICK run : /\ run \in [0 .. last -> Seq(S)] /\ run[0] = <<>>
                 /\ \A i \in 1 .. last : run[i] = step[<<i, run[i - 1]>>]
  <2>1. <<>> \in Seq(S)
    OBVIOUS
  <2> HIDE DEF last
  <2>2. PICK run : IsRun(run, Seq(S), <<>>, last, step)
    BY <1>1, <1>3, <2>1, RunExists
  <2> QED
    BY <2>2 DEF IsRun
<1>6. \A i \in 1 .. last : run[i] = run[i - 1] \o seqs[i]
  <2> TAKE i \in 1 .. last
  <2>1. i - 1 \in 0 .. last
    BY <1>1
  <2>2. run[i - 1] \in Seq(S)
    BY <1>5, <2>1
  <2> QED
    BY <1>4, <1>5, <2>2
<1>7. ASSUME NEW i \in 1 .. last, i = 1 PROVE run[i] = seqs[i]
  <2>1. run[i] = run[i - 1] \o seqs[i]
    BY <1>6
  <2>2. i - 1 = 0
    BY <1>7
  <2>3. run[i] = <<>> \o seqs[i] /\ seqs[i] \in Seq(S)
    BY <1>1, <1>5, <2>1, <2>2
  <2> QED
    BY <2>3
<1> DEFINE f0 == [i \in 1 .. last |-> run[i]]
<1>8. Is(f0)
  <2>1. ASSUME NEW i \in 1 .. last
        PROVE  f0[i] = IF i = 1 THEN seqs[i] ELSE f0[i - 1] \o seqs[i]
    <3>1. CASE i = 1
      BY <1>7, <3>1
    <3>2. CASE i # 1
      <4>1. i - 1 \in 1 .. last
        BY <1>1, <3>2
      <4> QED
        BY <1>6, <3>2, <4>1
    <3> QED
      BY <3>1, <3>2
  <2>2. f0 = [i \in 1 .. last |-> f0[i]]
    OBVIOUS
  <2> HIDE DEF f0
  <2> QED
    BY <2>1, <2>2
<1>9. Is(flat)
  <2> HIDE DEF Is, f0
  <2> QED
    BY <1>8
<1>10. last # 0 => FlattenSeq(seqs) = flat[last]
  BY DEF FlattenSeq, last
<1>11. \A i \in 1 .. last : flat[i] = IF i = 1 THEN seqs[i] ELSE flat[i - 1] \o seqs[i]
  <2> HIDE DEF flat
  <2> QED
    BY <1>9
<1> HIDE DEF flat, Is
<1>12. ASSUME last # 0 PROVE flat[last] = run[last]
  <2> DEFINE Same == {i \in 0 .. last - 1 : flat[i + 1] = run[i + 1]}
  <2>1. 0 \in Same
    <3>1. 1 \in 1 .. last
      BY <1>1, <1>12
    <3>2. flat[1] = seqs[1] /\ seqs[1] \in Seq(S)
      BY <1>1, <1>11, <3>1
    <3>3. run[1] = seqs[1]
      BY <1>7, <3>1
    <3> QED
      BY <1>1, <1>12, <3>2, <3>3
  <2>2. ASSUME NEW i \in 0 .. last - 1 - 1, i \in Same PROVE i + 1 \in Same
    <3>1. /\ i + 1 \in 0 .. last - 1 /\ (i + 1) + 1 \in 1 .. last /\ (i + 1) + 1 # 1
          /\ (i + 1) + 1 - 1 = i + 1
      BY <1>1, <1>12
    <3> DEFINE m == (i + 1) + 1
    <3>2. m \in 1 .. last /\ m # 1 /\ m - 1 = i + 1
      BY <3>1
    <3> HIDE DEF m
    <3>3. flat[m] = flat[i + 1] \o seqs[m]
      BY <1>11, <3>2
    <3>4. run[m] = run[i + 1] \o seqs[m]
      BY <1>6, <3>2
    <3> QED
      BY <2>2, <3>1, <3>3, <3>4 DEF m
  <2> HIDE DEF Same
  <2>3. last - 1 \in Nat /\ last - 1 \in 0 .. last - 1
    BY <1>1, <1>12
  <2>4. \A i \in 0 .. last - 1 : i \in Same
    BY <2>1, <2>2, <2>3, Upward
  <2>5. last - 1 \in Same /\ (last - 1) + 1 = last
    BY <1>1, <2>3, <2>4
  <2> QED
    BY <2>5 DEF Same
<1>13. FlattenSeq(seqs) = run[last]
  <2>1. CASE last = 0
    <3>1. FlattenSeq(seqs) = seqs
      BY <1>2, <2>1 DEF FlattenSeq
    <3>2. seqs = <<>>
      BY <1>2, <2>1, EmptySeq
    <3> QED
      BY <1>5, <2>1, <3>1, <3>2
  <2>2. CASE last # 0
    BY <1>10, <1>12, <2>2
  <2> QED
    BY <2>1, <2>2
<1> QED
  BY <1>2, <1>5, <1>6, <1>13

(* So that each is found whole where it begins.                            *)
LEMMA FlattenJoins ==
  ASSUME NEW S, NEW seqs \in Seq(Seq(S))
  PROVE  FlattenSeq(seqs) \in Seq(S) /\ \E starts : Follow(seqs, FlattenSeq(seqs), starts)
<1> DEFINE last == Len(seqs)
           whole == FlattenSeq(seqs)
<1>1. last \in Nat /\ \A k \in 1 .. last : seqs[k] \in Seq(S) /\ Len(seqs[k]) \in Nat
  OBVIOUS
<1>2. PICK run \in [0 .. last -> Seq(S)] :
        /\ run[0] = <<>> /\ \A k \in 1 .. last : run[k] = run[k - 1] \o seqs[k]
        /\ whole = run[last]
  BY FlattenRuns
<1> HIDE DEF last, whole
<1> DEFINE starts == [k \in 0 .. last |-> Len(run[k])]
<1>3. /\ \A k \in 0 .. last : run[k] \in Seq(S) /\ starts[k] = Len(run[k]) /\ starts[k] \in Nat
      /\ starts \in [0 .. last -> Nat] /\ starts[0] = 0
  BY <1>1, <1>2
<1>4. ASSUME NEW k \in 1 .. last
      PROVE  /\ k - 1 \in 0 .. last /\ k \in 0 .. last
             /\ starts[k] = starts[k - 1] + Len(seqs[k])
             /\ \A j \in 1 .. starts[k - 1] : run[k][j] = run[k - 1][j]
             /\ \A j \in 1 .. Len(seqs[k]) : run[k][starts[k - 1] + j] = seqs[k][j]
  <2>1. k - 1 \in 0 .. last /\ k \in 0 .. last
    BY <1>1
  <2> DEFINE lo == run[k - 1] hi == seqs[k]
  <2>2. lo \in Seq(S) /\ hi \in Seq(S) /\ run[k] = lo \o hi /\ starts[k - 1] = Len(lo)
        /\ starts[k] = Len(run[k])
    BY <1>1, <1>2, <1>3, <2>1
  <2> HIDE DEF lo, hi, starts
  <2>3. /\ Len(lo \o hi) = Len(lo) + Len(hi)
        /\ \A i \in 1 .. Len(lo) : (lo \o hi)[i] = lo[i]
    BY <2>2, TwoParts
  <2>4. \A i \in 1 .. Len(hi) : (lo \o hi)[Len(lo) + i] = hi[i]
    BY <2>2, TwoParts
  <2> QED
    BY <2>1, <2>2, <2>3, <2>4 DEF lo, hi
<1> HIDE DEF starts
(* What the run has built stays as it is.                                  *)
<1>5. ASSUME NEW k \in 0 .. last
      PROVE  starts[k] <= starts[last] /\ \A j \in 1 .. starts[k] : whole[j] = run[k][j]
  <2> DEFINE Kept == {d \in 0 .. last - k : /\ starts[k] <= starts[k + d]
                                            /\ \A j \in 1 .. starts[k] : run[k + d][j] = run[k][j]}
  <2>1. 0 \in Kept /\ last - k \in Nat
    BY <1>1, <1>3
  <2>2. ASSUME NEW d \in 0 .. (last - k) - 1, d \in Kept PROVE d + 1 \in Kept
    <3> DEFINE m == k + (d + 1)
    <3>1. m \in 1 .. last /\ m - 1 = k + d /\ k + d \in 0 .. last /\ d + 1 \in 0 .. last - k
      BY <1>1
    <3> HIDE DEF m
    <3>2. starts[m] = starts[k + d] + Len(seqs[m]) /\ \A j \in 1 .. starts[k + d] : run[m][j] = run[k + d][j]
      BY <1>4, <3>1
    <3>3. starts[k] \in Nat /\ starts[k + d] \in Nat /\ Len(seqs[m]) \in Nat
      BY <1>1, <1>3, <3>1
    <3>4. starts[k] <= starts[k + d] /\ \A j \in 1 .. starts[k] : run[k + d][j] = run[k][j]
      BY <2>2
    <3>5. starts[k] <= starts[m] /\ \A j \in 1 .. starts[k] : run[m][j] = run[k][j]
      BY <3>2, <3>3, <3>4
    <3> QED
      BY <3>1, <3>5 DEF m
  <2> HIDE DEF Kept
  <2>3. \A d \in 0 .. last - k : d \in Kept
    BY <2>1, <2>2, Upward
  <2>4. last - k \in Kept /\ k + (last - k) = last
    BY <1>1, <2>1, <2>3
  <2> QED
    BY <1>2, <2>4 DEF Kept
<1>6. whole \in Seq(S) /\ Len(whole) = starts[last] /\ last \in 0 .. last
  BY <1>1, <1>2, <1>3
<1>7. ASSUME NEW k \in 1 .. last, NEW j \in 1 .. Len(seqs[k])
      PROVE  whole[starts[k - 1] + j] = seqs[k][j]
  <2>1. starts[k - 1] \in Nat /\ k \in 0 .. last
    BY <1>1, <1>3, <1>4
  <2>2. Len(seqs[k]) \in Nat /\ starts[k] = starts[k - 1] + Len(seqs[k])
    BY <1>1, <1>4
  <2>3. starts[k - 1] + j \in 1 .. starts[k]
    BY <2>1, <2>2
  <2> QED
    BY <1>4, <1>5, <2>1, <2>3, ZenonT(30)
<1>8. ASSUME NEW x \in 1 .. Len(whole)
      PROVE  \E k \in 1 .. last : \E j \in 1 .. Len(seqs[k]) : x = starts[k - 1] + j
  <2> DEFINE Past == {k \in 0 .. last : x <= starts[k]}
  <2>1. last \in Past /\ Past \in SUBSET Nat
    BY <1>1, <1>6
  <2>2. PICK k \in Past : \A j \in Past : k <= j
    <3> HIDE DEF Past
    <3> QED
      BY <2>1, SmallestExists
  <2>3. k # 0
    BY <1>3, <2>2
  <2>4. k \in 1 .. last /\ k - 1 \in 0 .. last
    BY <1>1, <2>2, <2>3
  <2>5. k - 1 \notin Past
    BY <1>1, <2>2, <2>4
  <2>6. starts[k - 1] < x /\ x <= starts[k] /\ starts[k - 1] \in Nat
    BY <1>3, <2>2, <2>4, <2>5
  <2>7. Len(seqs[k]) \in Nat /\ starts[k] = starts[k - 1] + Len(seqs[k])
    BY <1>1, <1>4, <2>4
  <2>8. x - starts[k - 1] \in 1 .. Len(seqs[k]) /\ x = starts[k - 1] + (x - starts[k - 1])
    BY <2>6, <2>7, SMTT(30)
  <2> QED
    BY <2>4, <2>8
<1>9. Follow(seqs, whole, starts)
  <2>1. \A k \in 1 .. last : starts[k] <= Len(whole) /\ starts[k] = starts[k - 1] + Len(seqs[k])
    BY <1>4, <1>5, <1>6
  <2> QED
    BY <1>3, <1>6, <1>7, <1>8, <2>1 DEF Follow, last
<1> QED
  BY <1>6, <1>9 DEF whole
=============================================================================
