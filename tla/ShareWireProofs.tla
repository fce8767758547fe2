---------------------------- MODULE ShareWireProofs ----------------------------
(***************************************************************************)
(* Proof that the miner and the bridge agree on every share, for every     *)
(* job, extranonce, difficulty and nonce, at every width of a byte and for *)
(* every choice of the bit operations SHA-256 is made of.                  *)
(***************************************************************************)
EXTENDS ShareWire, SequenceTheorems, WellFoundedInduction, TLAPS

-----------------------------------------------------------------------------
(* Recursion.                                                              *)

\* Induction with a set for the property, since the rules of the library have an
\* operator there.
LEMMA InductionOnSet ==
  ASSUME NEW S \in SUBSET Nat, 0 \in S, \A n \in S : n + 1 \in S
  PROVE  S = Nat
<1> SUFFICES ASSUME Nat \ S # {} PROVE FALSE
  OBVIOUS
<1>1. PICK n \in Nat \ S : \A m \in Nat \ S : <<m, n>> \notin OpToRel(<, Nat)
  <2>1. \E n \in Nat \ S : \A m \in Nat \ S : ~(<<m, n>> \in OpToRel(<, Nat))
    BY WFMin, NatLessThanWellFounded, Zenon
  <2> QED BY <2>1
<1>2. n # 0 /\ n - 1 \in Nat /\ n - 1 < n /\ (n - 1) + 1 = n
  OBVIOUS
<1>3. n - 1 \in S
  <2>1. <<n - 1, n>> \in OpToRel(<, Nat)
    BY <1>2 DEF OpToRel
  <2> QED BY <1>1, <1>2, <2>1
<1> QED BY <1>2, <1>3

\* From a to n, for a property of the numbers between them.
LEMMA InductionFromTo ==
  ASSUME NEW a \in Nat, NEW n \in Nat, NEW S, a \in S,
         \A k \in a .. n - 1 : k \in S => k + 1 \in S
  PROVE  \A k \in a .. n : k \in S
<1> DEFINE T == {m \in Nat : a + m <= n => a + m \in S}
<1>1. 0 \in T
  OBVIOUS
<1>2. ASSUME NEW m \in T PROVE m + 1 \in T
  <2> SUFFICES ASSUME a + (m + 1) <= n PROVE a + (m + 1) \in S
    OBVIOUS
  <2>1. m \in Nat /\ a + m \in a .. n - 1 /\ a + m <= n /\ (a + m) + 1 = a + (m + 1)
    OBVIOUS
  <2>2. a + m \in S
    BY <2>1
  <2> QED BY <2>1, <2>2
<1>3. T = Nat
  <2> HIDE DEF T
  <2>1. T \in SUBSET Nat
    BY DEF T
  <2> QED BY <1>1, <1>2, <2>1, InductionOnSet
<1>4. ASSUME NEW k \in a .. n PROVE k \in S
  <2>1. k - a \in Nat /\ a + (k - a) = k /\ a + (k - a) <= n
    OBVIOUS
  <2>2. k - a \in T
    <3> HIDE DEF T
    <3> QED BY <1>3, <2>1
  <2> QED BY <2>1, <2>2
<1> QED BY <1>4

\* f starts at b and follows the steps from a to n.
Follows(f, T, a, n, b, step) ==
  /\ f \in [a .. n -> T] /\ f[a] = b
  /\ \A i \in a + 1 .. n : f[i] = step[i][f[i - 1]]

\* A function defined by recursion from a to n, in steps that stay in T, exists.
LEMMA RecursionExists ==
  ASSUME NEW T, NEW b \in T, NEW a \in Nat, NEW n \in Nat, a <= n,
         NEW step \in [a + 1 .. n -> [T -> T]]
  PROVE  \E f : Follows(f, T, a, n, b, step)
<1> DEFINE Upto(k, f) == /\ f \in [a .. k -> T] /\ f[a] = b
                         /\ \A i \in a + 1 .. k : f[i] = step[i][f[i - 1]]
           S == {k \in a .. n : \E f : Upto(k, f)}
<1>1. a \in S
  <2>1. Upto(a, [i \in a .. a |-> b])
    OBVIOUS
  <2>2. \E f : Upto(a, f)
    <3> HIDE DEF Upto
    <3> QED BY <2>1
  <2> QED BY <2>2
<1>2. ASSUME NEW k \in a .. n - 1, k \in S PROVE k + 1 \in S
  <2>1. PICK f : Upto(k, f)
    BY <1>2
  <2> DEFINE g == [i \in a .. k + 1 |-> IF i = k + 1 THEN step[k + 1][f[k]] ELSE f[i]]
  <2>2. k \in Nat /\ k + 1 \in a + 1 .. n /\ k \in a .. k /\ f[k] \in T
    BY <2>1
  <2>3. step[k + 1][f[k]] \in T
    BY <2>2
  <2>4. g \in [a .. k + 1 -> T]
    BY <2>1, <2>2, <2>3
  <2>5. g[a] = b
    BY <2>1, <2>2
  <2>6. ASSUME NEW i \in a + 1 .. k + 1 PROVE g[i] = step[i][g[i - 1]]
    <3>1. CASE i = k + 1
      BY <2>2, <3>1
    <3>2. CASE i # k + 1
      BY <2>1, <2>2, <3>2
    <3> QED BY <3>1, <3>2
  <2>7. Upto(k + 1, g)
    <3> HIDE DEF g
    <3> QED BY <2>4, <2>5, <2>6
  <2>8. k + 1 \in a .. n
    BY <2>2
  <2> QED BY <2>7, <2>8
<1>3. \A k \in a .. n : k \in S
  <2> HIDE DEF S
  <2> QED BY <1>1, <1>2, InductionFromTo
<1>4. n \in S
  BY <1>3
<1> QED BY <1>4 DEF Follows

\* Where f and g agree, their next values do.
SameSteps(f, g, a, n) == \A i \in a + 1 .. n : f[i - 1] = g[i - 1] => f[i] = g[i]

\* f and g agree from a to n.
SameFrom(f, g, a, n) == \A i \in a .. n : f[i] = g[i]

\* And no other function follows the same steps.
LEMMA RecursionUnique ==
  ASSUME NEW a \in Nat, NEW n \in Nat, NEW f, NEW g, f[a] = g[a], SameSteps(f, g, a, n)
  PROVE  SameFrom(f, g, a, n)
<1> DEFINE S == {k \in Nat : f[k] = g[k]}
<1>1. a \in S
  OBVIOUS
<1>2. ASSUME NEW k \in a .. n - 1, k \in S PROVE k + 1 \in S
  <2>1. k + 1 \in a + 1 .. n /\ (k + 1) - 1 = k /\ k + 1 \in Nat
    OBVIOUS
  <2> QED BY <1>2, <2>1 DEF SameSteps
<1>3. \A k \in a .. n : k \in S
  <2> HIDE DEF S
  <2> QED BY <1>1, <1>2, InductionFromTo
<1> QED BY <1>3 DEF SameFrom

-----------------------------------------------------------------------------
(* Bytes and words.                                                        *)

\* A product of two numbers above 1 is one.
LEMMA Product ==
  ASSUME NEW a \in Nat, NEW b \in Nat, a > 1, b > 1
  PROVE  a * b \in Nat /\ a * b > 1
OBVIOUS

\* A word has more than one value.
LEMMA ValuesType == Values \in Nat /\ Values > 1
<1>1. Base \in Nat /\ Base > 1
  BY HashAssumption
<1>2. Base * Base \in Nat /\ Base * Base > 1
  BY <1>1, Product
<1>3. (Base * Base) * Base \in Nat /\ (Base * Base) * Base > 1
  BY <1>1, <1>2, Product
<1>4. ((Base * Base) * Base) * Base \in Nat /\ ((Base * Base) * Base) * Base > 1
  BY <1>1, <1>3, Product
<1> QED BY <1>4 DEF Values

\* The word 0 and the digit 0.
LEMMA ZeroWord == 0 \in Word /\ 0 \in Byte
BY ValuesType, HashAssumption DEF Word, Byte

\* A remainder is below its divisor.
LEMMA Remainder ==
  ASSUME NEW n \in Nat, NEW d \in Nat, d > 0
  PROVE  n % d \in 0 .. d - 1
OBVIOUS

\* The wrapping sum of three numbers is a word.
LEMMA Sum3Type ==
  ASSUME NEW x \in Nat, NEW y \in Nat, NEW z \in Nat
  PROVE  Sum3(x, y, z) \in Word
<1>1. x + y + z \in Nat
  OBVIOUS
<1> QED BY <1>1, ValuesType, Remainder DEF Sum3, Word

\* A word is a number.
LEMMA WordNat == \A x \in Word : x \in Nat
BY ValuesType DEF Word

\* What SHA-256 is made of stays within words.
LEMMA Xor3Type ==
  ASSUME NEW x \in Word, NEW y \in Word, NEW z \in Word
  PROVE  Xor3(x, y, z) \in Word
<1>1. Xor(x, y) \in Word
  BY HashAssumption
<1> QED BY <1>1, HashAssumption DEF Xor3

\* The sigmas of a word are words.
LEMMA SigmaType ==
  ASSUME NEW x \in Word
  PROVE  /\ SmallSigma0(x) \in Word /\ SmallSigma1(x) \in Word
         /\ BigSigma0(x) \in Word /\ BigSigma1(x) \in Word
<1>1. \A n \in 1 .. 25 : RotR(x, n) \in Word /\ ShR(x, n) \in Word
  BY HashAssumption
<1> QED BY <1>1, Xor3Type DEF SmallSigma0, SmallSigma1, BigSigma0, BigSigma1

\* Ch and Maj of words are words.
LEMMA ChoiceType ==
  ASSUME NEW x \in Word, NEW y \in Word, NEW z \in Word
  PROVE  Ch(x, y, z) \in Word /\ Maj(x, y, z) \in Word
<1>1. Complement(x) \in Word
  BY ValuesType DEF Complement, Word
<1>2. And(x, y) \in Word /\ And(x, z) \in Word /\ And(y, z) \in Word
      /\ And(Complement(x), z) \in Word
  BY <1>1, HashAssumption
<1>3. Xor(And(x, y), And(Complement(x), z)) \in Word
  BY <1>2, HashAssumption
<1> QED BY <1>2, <1>3, Xor3Type DEF Ch, Maj

\* One round turns a state into a state.
LEMMA RoundType ==
  ASSUME NEW w \in Word, NEW k \in Word, NEW s \in State
  PROVE  Round(w, k)[s] \in State
<1> DEFINE t1 == Sum3(s[8] + BigSigma1(s[5]), Ch(s[5], s[6], s[7]), k + w)
           t2 == BigSigma0(s[1]) + Maj(s[1], s[2], s[3])
<1>1. \A i \in 1 .. 8 : s[i] \in Word
  BY DEF State
<1>2. /\ s[1] \in Word /\ s[2] \in Word /\ s[3] \in Word /\ s[4] \in Word
      /\ s[5] \in Word /\ s[6] \in Word /\ s[7] \in Word /\ s[8] \in Word
  BY <1>1
<1>3. /\ BigSigma1(s[5]) \in Nat /\ Ch(s[5], s[6], s[7]) \in Nat
      /\ BigSigma0(s[1]) \in Nat /\ Maj(s[1], s[2], s[3]) \in Nat
      /\ k \in Nat /\ w \in Nat /\ s[8] \in Nat /\ s[4] \in Nat
  BY <1>2, SigmaType, ChoiceType, WordNat
<1>4. s[8] + BigSigma1(s[5]) \in Nat /\ k + w \in Nat
  BY <1>3
<1>5. t1 \in Word /\ t2 \in Nat
  BY <1>3, <1>4, Sum3Type
<1> HIDE DEF t1, t2
<1>6. t1 \in Nat
  BY <1>5, WordNat
<1>7. Sum3(t1, t2, 0) \in Word /\ Sum3(s[4], t1, 0) \in Word
  BY <1>3, <1>5, <1>6, Sum3Type
<1>8. Round(w, k)[s]
        = <<Sum3(t1, t2, 0), s[1], s[2], s[3], Sum3(s[4], t1, 0), s[5], s[6], s[7]>>
  BY DEF Round, t1, t2
<1> QED BY <1>2, <1>7, <1>8 DEF State

\* The states added at the end of a block make a state.
LEMMA FoldType ==
  ASSUME NEW s \in State, NEW t \in State
  PROVE  Fold(s, t) \in State
<1>1. \A i \in 1 .. 8 : s[i] \in Nat /\ t[i] \in Nat
  BY WordNat DEF State
<1>2. \A i \in 1 .. 8 : Sum3(s[i], t[i], 0) \in Word
  BY <1>1, Sum3Type
<1> QED BY <1>2 DEF Fold, State

-----------------------------------------------------------------------------
(* The schedule and the rounds.                                            *)

\* One more word of the schedule, after those it had.
LEMMA ExtendedType ==
  ASSUME NEW w \in Seq(Word), Len(w) >= 16
  PROVE  /\ Extended(w) \in Seq(Word) /\ Len(Extended(w)) = Len(w) + 1
         /\ \A j \in 1 .. Len(w) : Extended(w)[j] = w[j]
         /\ Extended(w)[Len(w) + 1]
              = Sum3(w[Len(w) - 15] + SmallSigma0(w[Len(w) - 14]), w[Len(w) - 6],
                     SmallSigma1(w[Len(w) - 1]))
<1> DEFINE i == Len(w) + 1
<1>1. i - 16 \in 1 .. Len(w) /\ i - 15 \in 1 .. Len(w) /\ i - 7 \in 1 .. Len(w)
      /\ i - 2 \in 1 .. Len(w) /\ i - 16 = Len(w) - 15 /\ i - 15 = Len(w) - 14
      /\ i - 7 = Len(w) - 6 /\ i - 2 = Len(w) - 1
  OBVIOUS
<1>2. w[i - 16] \in Word /\ w[i - 15] \in Word /\ w[i - 7] \in Word /\ w[i - 2] \in Word
  BY <1>1
<1>3. w[i - 16] \in Nat /\ SmallSigma0(w[i - 15]) \in Nat /\ w[i - 7] \in Nat
      /\ SmallSigma1(w[i - 2]) \in Nat
  BY <1>2, SigmaType, WordNat
<1>4. w[i - 16] + SmallSigma0(w[i - 15]) \in Nat
  BY <1>3
<1> DEFINE next == Sum3(w[i - 16] + SmallSigma0(w[i - 15]), w[i - 7], SmallSigma1(w[i - 2]))
<1>5. next \in Word
  BY <1>3, <1>4, Sum3Type
<1>6. Extended(w) = Append(w, next)
  BY DEF Extended
<1>7. next = Sum3(w[Len(w) - 15] + SmallSigma0(w[Len(w) - 14]), w[Len(w) - 6],
                  SmallSigma1(w[Len(w) - 1]))
  BY <1>1
<1> HIDE DEF next
<1> QED BY <1>5, <1>6, <1>7

\* f holds the sequences the schedule of w grows through, each by its length.
Grows(f, w, a) ==
  /\ f[a] = w /\ f[64] = Schedule(w)
  /\ \A i \in a + 1 .. 64 : f[i] = Extended(f[i - 1])
  /\ \A i \in a .. 64 : f[i] \in Seq(Word) /\ Len(f[i]) = i

\* The schedule is the last of the sequences it grows through, each of which
\* extends the one before it.
LEMMA ScheduleSteps ==
  ASSUME NEW a \in 16 .. 64, NEW w \in Seq(Word), Len(w) = a
  PROVE  \E f : Grows(f, w, a)
<1> DEFINE T == {v \in Seq(Word) : Len(v) >= 16}
           step == [i \in a + 1 .. 64 |-> [v \in T |-> Extended(v)]]
           R(f) == f = [n \in a .. 64 |-> IF n = a THEN w ELSE Extended(f[n - 1])]
<1>1. step \in [a + 1 .. 64 -> [T -> T]]
  BY ExtendedType
<1>2. \E f : Follows(f, T, a, 64, w, step)
  <2>1. w \in T /\ a \in Nat /\ 64 \in Nat /\ a <= 64
    OBVIOUS
  <2> HIDE DEF step, T
  <2> QED BY <1>1, <2>1, RecursionExists
<1>3. PICK f \in [a .. 64 -> T] :
        f[a] = w /\ \A i \in a + 1 .. 64 : f[i] = step[i][f[i - 1]]
  BY <1>2 DEF Follows
<1>4. \A i \in a + 1 .. 64 : f[i] = Extended(f[i - 1])
  <2> SUFFICES ASSUME NEW i \in a + 1 .. 64 PROVE f[i] = Extended(f[i - 1])
    OBVIOUS
  <2>1. i - 1 \in a .. 64
    OBVIOUS
  <2>2. f[i - 1] \in T
    BY <2>1
  <2> HIDE DEF T
  <2> QED BY <1>3, <2>2
<1>5. R(f)
  <2>1. \A i \in a .. 64 : f[i] = IF i = a THEN w ELSE Extended(f[i - 1])
    BY <1>3, <1>4, SMTT(60)
  <2> HIDE DEF T
  <2> QED BY <2>1
<1> DEFINE g == CHOOSE h : R(h)
<1>6. R(g)
  <2> HIDE DEF R
  <2> QED BY <1>5
<1>7. Schedule(w) = g[64]
  BY DEF Schedule
<1> HIDE DEF g
<1>8. a \in a .. 64 /\ 64 \in a .. 64
  OBVIOUS
<1>9. g[a] = w /\ \A i \in a + 1 .. 64 : g[i] = Extended(g[i - 1])
  BY <1>6, <1>8, SMTT(60)
<1>10. \A i \in a .. 64 : g[i] \in Seq(Word) /\ Len(g[i]) = i
  <2> DEFINE S == {k \in Nat : g[k] \in Seq(Word) /\ Len(g[k]) = k}
  <2>1. a \in S
    BY <1>9
  <2>2. ASSUME NEW k \in a .. 63, k \in S PROVE k + 1 \in S
    <3>1. k + 1 \in a + 1 .. 64 /\ (k + 1) - 1 = k /\ k + 1 \in Nat /\ k >= 16
      OBVIOUS
    <3>2. g[k + 1] = Extended(g[k])
      BY <1>9, <3>1
    <3> QED BY <2>2, <3>1, <3>2, ExtendedType, ZenonT(60)
  <2>3. \A k \in a .. 64 : k \in S
    <3>1. a \in Nat /\ 64 \in Nat /\ 64 - 1 = 63
      OBVIOUS
    <3> HIDE DEF S
    <3> QED BY <2>1, <2>2, <3>1, InductionFromTo, ZenonT(60)
  <2> QED BY <2>3
<1> QED BY <1>7, <1>9, <1>10 DEF Grows

\* It has 64 words and begins with those it is made from.
LEMMA ScheduleType ==
  ASSUME NEW a \in 16 .. 64, NEW w \in Seq(Word), Len(w) = a
  PROVE  /\ Schedule(w) \in Seq(Word) /\ Len(Schedule(w)) = 64
         /\ \A j \in 1 .. a : Schedule(w)[j] = w[j]
<1>0. PICK f : Grows(f, w, a)
  BY ScheduleSteps
<1>1. /\ f[a] = w /\ f[64] = Schedule(w)
      /\ \A i \in a + 1 .. 64 : f[i] = Extended(f[i - 1])
      /\ \A i \in a .. 64 : f[i] \in Seq(Word) /\ Len(f[i]) = i
  BY <1>0 DEF Grows
<1> DEFINE S == {k \in Nat : \A j \in 1 .. a : f[k][j] = w[j]}
<1>2. a \in S
  BY <1>1
<1>3. ASSUME NEW k \in a .. 63, k \in S PROVE k + 1 \in S
  <2>1. k + 1 \in a + 1 .. 64 /\ (k + 1) - 1 = k /\ k + 1 \in Nat /\ k >= 16
        /\ k \in a .. 64
    OBVIOUS
  <2>2. f[k + 1] = Extended(f[k]) /\ f[k] \in Seq(Word) /\ Len(f[k]) = k
    BY <1>1, <2>1
  <2>3. \A j \in 1 .. k : f[k + 1][j] = f[k][j]
    <3>1. PICK v \in Seq(Word) : v = f[k] /\ Len(v) >= 16
      BY <2>1, <2>2
    <3>2. \A j \in 1 .. Len(v) : Extended(v)[j] = v[j]
      BY <3>1, ExtendedType
    <3> QED BY <2>2, <3>1, <3>2
  <2>4. \A j \in 1 .. a : j \in 1 .. k
    OBVIOUS
  <2> QED BY <1>3, <2>1, <2>3, <2>4
<1>4. \A k \in a .. 64 : k \in S
  <2>1. a \in Nat /\ 64 \in Nat /\ 64 - 1 = 63
    OBVIOUS
  <2> HIDE DEF S
  <2> QED BY <1>2, <1>3, <2>1, InductionFromTo, ZenonT(60)
<1>5. 64 \in S
  <2>1. 64 \in a .. 64
    OBVIOUS
  <2> HIDE DEF S
  <2> QED BY <1>4, <2>1
<1>6. 64 \in a .. 64
  OBVIOUS
<1> QED BY <1>1, <1>5, <1>6, ZenonT(60)

\* A schedule that is begun one word further is the same one.
LEMMA ScheduleExtended ==
  ASSUME NEW b \in 16 .. 63, NEW w \in Seq(Word), Len(w) = b
  PROVE  Schedule(Extended(w)) = Schedule(w)
<1> DEFINE a == b + 1
<1>1. Extended(w) \in Seq(Word) /\ Len(Extended(w)) = a /\ a \in 16 .. 64
      /\ a \in Nat /\ b \in 16 .. 64 /\ 64 \in a .. 64 /\ a - 1 = b
  BY ExtendedType
<1>2. PICK f : Grows(f, w, b)
  BY <1>1, ScheduleSteps
<1>3. PICK g : Grows(g, Extended(w), a)
  BY <1>1, ScheduleSteps
<1> HIDE DEF a
<1>4. f[a] = g[a]
  <2>1. a \in a .. 64
    BY <1>1
  <2> QED BY <1>1, <1>2, <1>3, <2>1 DEF Grows
<1>5. SameSteps(f, g, a, 64)
  <2>1. \A i \in a + 1 .. 64 : i \in a .. 64
    BY <1>1
  <2> QED BY <1>1, <1>2, <1>3, <2>1 DEF Grows, SameSteps
<1>6. SameFrom(f, g, a, 64)
  BY <1>1, <1>4, <1>5, RecursionUnique
<1> QED BY <1>1, <1>2, <1>3, <1>6 DEF Grows, SameFrom

\* f holds the states the rounds of w pass through, from s before the one that
\* follows the word i.
Turns(f, s, w, i, n) ==
  /\ f[i] = s /\ f[n] = Rounds(s, w, i)
  /\ \A j \in i + 1 .. n : f[j] = Round(w[j], SHA256_K[j])[f[j - 1]]
  /\ \A j \in i .. n : f[j] \in State

\* The rounds end in the last of the states they pass through.
LEMMA RoundsSteps ==
  ASSUME NEW n \in 0 .. 64, NEW i \in 0 .. n, NEW s \in State,
         NEW w \in Seq(Word), Len(w) = n
  PROVE  \E f : Turns(f, s, w, i, n)
<1> DEFINE step == [j \in i + 1 .. n |-> [t \in State |-> Round(w[j], SHA256_K[j])[t]]]
           R(f) == f = [j \in i .. n |-> IF j = i THEN s
                                         ELSE Round(w[j], SHA256_K[j])[f[j - 1]]]
<1>1. \A j \in i + 1 .. n : w[j] \in Word /\ SHA256_K[j] \in Word
  <2> SUFFICES ASSUME NEW j \in i + 1 .. n PROVE w[j] \in Word /\ SHA256_K[j] \in Word
    OBVIOUS
  <2>1. j \in 1 .. n /\ j \in 1 .. 64
    OBVIOUS
  <2>2. w[j] \in Word
    BY <2>1
  <2> QED BY <2>1, <2>2, HashAssumption
<1>2. step \in [i + 1 .. n -> [State -> State]]
  BY <1>1, RoundType
<1>3. i \in Nat /\ n \in Nat /\ i <= n /\ i \in i .. n /\ n \in i .. n
  OBVIOUS
<1>4. \E f : Follows(f, State, i, n, s, step)
  <2> HIDE DEF step
  <2> QED BY <1>2, <1>3, RecursionExists
<1>5. PICK f \in [i .. n -> State] :
        f[i] = s /\ \A j \in i + 1 .. n : f[j] = step[j][f[j - 1]]
  BY <1>4 DEF Follows
<1>6. \A j \in i + 1 .. n : f[j] = Round(w[j], SHA256_K[j])[f[j - 1]]
  <2>1. \A j \in i + 1 .. n : j - 1 \in i .. n
    OBVIOUS
  <2>2. \A j \in i + 1 .. n : f[j - 1] \in State
    BY <2>1
  <2> QED BY <1>5, <2>2
<1>7. R(f)
  <2>1. \A j \in i .. n : f[j] = IF j = i THEN s ELSE Round(w[j], SHA256_K[j])[f[j - 1]]
    BY <1>5, <1>6
  <2> QED BY <2>1
<1> DEFINE g == CHOOSE h : R(h)
<1>8. R(g)
  <2> HIDE DEF R
  <2> QED BY <1>7
<1>9. Rounds(s, w, i) = g[n]
  BY DEF Rounds
<1> HIDE DEF g
<1>10. g[i] = s /\ \A j \in i + 1 .. n : g[j] = Round(w[j], SHA256_K[j])[g[j - 1]]
  BY <1>3, <1>8
<1>11. \A j \in i .. n : g[j] \in State
  <2> DEFINE S == {k \in Nat : g[k] \in State}
  <2>1. i \in S
    BY <1>3, <1>10
  <2>2. ASSUME NEW k \in i .. n - 1, k \in S PROVE k + 1 \in S
    <3>1. k + 1 \in i + 1 .. n /\ (k + 1) - 1 = k /\ k + 1 \in Nat
      OBVIOUS
    <3> QED BY <1>1, <1>10, <2>2, <3>1, RoundType, SMTT(60)
  <2>3. \A k \in i .. n : k \in S
    <3> HIDE DEF S
    <3> QED BY <1>3, <2>1, <2>2, InductionFromTo
  <2> QED BY <2>3
<1> QED BY <1>9, <1>10, <1>11 DEF Turns

\* v is how w begins.
Begins(v, w) == Len(v) <= Len(w) /\ \A j \in 1 .. Len(v) : v[j] = w[j]

\* They can be interrupted: those of the first words, then those that follow.
LEMMA RoundsSplit ==
  ASSUME NEW s \in State, NEW w \in Seq(Word), Len(w) <= 64, NEW v \in Seq(Word), Begins(v, w)
  PROVE  Rounds(Rounds(s, v, 0), w, Len(v)) = Rounds(s, w, 0)
<1>0. PICK n \in 0 .. 64, m \in 0 .. 64, i \in 0 .. 64 :
        n = Len(w) /\ m = Len(v) /\ i = 0 /\ m \in 0 .. n /\ i \in 0 .. m
  <2>1. PICK n \in Nat, m \in Nat : n = Len(w) /\ m = Len(v) /\ n <= 64 /\ m <= n
    BY DEF Begins
  <2>2. n \in Nat /\ m \in Nat /\ n <= 64 /\ m <= n
    BY <2>1
  <2>3. n \in 0 .. 64 /\ m \in 0 .. 64 /\ 0 \in 0 .. 64 /\ m \in 0 .. n /\ 0 \in 0 .. m
    BY <2>2
  <2> QED BY <2>1, <2>3, ZenonT(60)
<1>bounds. n \in 0 .. 64 /\ m \in 0 .. 64 /\ i \in 0 .. 64 /\ m \in 0 .. n /\ i \in 0 .. m
  BY <1>0
<1>1. m \in 0 .. 64 /\ i \in 0 .. m /\ i \in 0 .. n /\ m \in Nat /\ n \in Nat
      /\ i \in Nat /\ m \in i .. m /\ n \in m .. n /\ m \in m .. n
  BY <1>bounds
<1>2. PICK f : Turns(f, s, w, i, n)
  BY <1>0, <1>1, RoundsSteps
<1>3. PICK g : Turns(g, s, v, i, m)
  BY <1>0, <1>1, RoundsSteps
<1>4. SameSteps(f, g, i, m)
  <2>1. \A j \in i + 1 .. m : j \in 1 .. m /\ j \in i + 1 .. n
    BY <1>bounds
  <2>2. \A j \in i + 1 .. m : v[j] = w[j]
    BY <1>0, <2>1 DEF Begins
  <2> QED BY <1>2, <1>3, <2>1, <2>2 DEF Turns, SameSteps
<1>5. f[i] = g[i]
  BY <1>2, <1>3 DEF Turns
<1>6. f[m] = g[m] /\ g[m] \in State /\ g[m] = Rounds(s, v, i)
  <2>1. SameFrom(f, g, i, m)
    BY <1>1, <1>4, <1>5, RecursionUnique, SMTT(60)
  <2> QED BY <1>1, <1>3, <2>1 DEF Turns, SameFrom
<1>7. PICK h : Turns(h, g[m], w, m, n)
  BY <1>0, <1>1, <1>6, RoundsSteps
<1>8. SameSteps(f, h, m, n)
  <2>1. \A j \in m + 1 .. n : j \in i + 1 .. n
    BY <1>bounds
  <2>2. \A j \in m + 1 .. n : /\ f[j] = Round(w[j], SHA256_K[j])[f[j - 1]]
                             /\ h[j] = Round(w[j], SHA256_K[j])[h[j - 1]]
    BY <1>2, <1>7, <2>1 DEF Turns
  <2> QED BY <2>2 DEF SameSteps
<1>9. f[m] = h[m]
  BY <1>6, <1>7 DEF Turns
<1>10. SameFrom(f, h, m, n)
  BY <1>1, <1>8, <1>9, RecursionUnique
<1>11. f[n] = h[n]
  BY <1>1, <1>10 DEF SameFrom
<1>12. f[n] = Rounds(s, w, i) /\ h[n] = Rounds(g[m], w, m)
  BY <1>2, <1>7, Zenon DEF Turns
<1> QED BY <1>0, <1>6, <1>11, <1>12, ZenonT(60)

\* A block turns a state into a state, and so do its rounds alone.
LEMMA CompressType ==
  ASSUME NEW s \in State, NEW w \in Seq(Word), Len(w) = 16
  PROVE  Compress(s, w) \in State /\ Rounds(s, Schedule(w), 0) \in State
<1>1. Schedule(w) \in Seq(Word) /\ Len(Schedule(w)) = 64
  <2>1. PICK a \in 16 .. 64 : a = 16
    OBVIOUS
  <2>2. w \in Seq(Word) /\ Len(w) = a
    BY <2>1
  <2> QED BY <2>2, ScheduleType, ZenonT(60)
<1>2. PICK f : Turns(f, s, Schedule(w), 0, 64)
  <2>1. PICK i, n : i = 0 /\ n = 64 /\ n \in 0 .. 64 /\ i \in 0 .. n
    OBVIOUS
  <2>2. \A v : v \in Seq(Word) /\ Len(v) = n => \E f : Turns(f, s, v, i, n)
    BY <2>1, RoundsSteps, ZenonT(60)
  <2> QED BY <1>1, <2>1, <2>2, ZenonT(60)
<1>3. Rounds(s, Schedule(w), 0) \in State
  <2>1. 64 \in 0 .. 64
    OBVIOUS
  <2> QED BY <1>2, <2>1 DEF Turns
<1> QED BY <1>3, FoldType DEF Compress

-----------------------------------------------------------------------------
(* The digest.                                                             *)

\* One digit more.
LEMMA Horner ==
  ASSUME NEW X \in Nat, NEW B \in Nat, NEW a \in 0 .. X - 1, NEW b \in 0 .. B - 1
  PROVE  a * B + b \in 0 .. X * B - 1
<1>1. PICK c \in Nat : X = a + 1 + c
  <2>1. X - 1 - a \in Nat /\ X = a + 1 + (X - 1 - a)
    OBVIOUS
  <2> QED BY <2>1
<1>2. a \in Nat /\ a * B \in Nat /\ c * B \in Nat
  OBVIOUS
<1>3. X * B = a * B + B + c * B
  BY <1>1, <1>2
<1> QED BY <1>2, <1>3

\* Four bytes make a word.
LEMMA FromBytesType ==
  ASSUME NEW a \in Byte, NEW b \in Byte, NEW c \in Byte, NEW d \in Byte
  PROVE  FromBytes(a, b, c, d) \in Word
<1>1. Base \in Nat /\ Base > 1 /\ Base * Base \in Nat /\ (Base * Base) * Base \in Nat
  BY HashAssumption
<1>2. a * Base + b \in 0 .. Base * Base - 1
  BY <1>1, Horner DEF Byte
<1>3. (a * Base + b) * Base + c \in 0 .. (Base * Base) * Base - 1
  BY <1>1, <1>2, Horner DEF Byte
<1>4. ((a * Base + b) * Base + c) * Base + d \in 0 .. ((Base * Base) * Base) * Base - 1
  BY <1>1, <1>3, Horner DEF Byte
<1> QED BY <1>4 DEF FromBytes, Word, Values

\* A quotient of numbers is a number.
LEMMA QuotientNat ==
  ASSUME NEW n \in Nat, NEW d \in Nat, d > 0
  PROVE  n \div d \in Nat
OBVIOUS

\* A number has four low bytes.
LEMMA BEBytesType ==
  ASSUME NEW n \in Nat
  PROVE  BEBytes(n) \in Seq(Byte) /\ Len(BEBytes(n)) = 4 /\ BEBytes(n) \in [1 .. 4 -> Byte]
<1>1. Base \in Nat /\ Base > 1 /\ Base * Base \in Nat /\ Base * Base > 1
      /\ Base * Base * Base \in Nat /\ Base * Base * Base > 1
  BY HashAssumption, Product
<1>2. /\ n \div (Base * Base * Base) \in Nat
      /\ n \div (Base * Base) \in Nat /\ n \div Base \in Nat
  BY <1>1, QuotientNat
<1>3. /\ (n \div (Base * Base * Base)) % Base \in Byte
      /\ (n \div (Base * Base)) % Base \in Byte
      /\ (n \div Base) % Base \in Byte /\ n % Base \in Byte
  BY <1>1, <1>2, Remainder DEF Byte
<1> QED BY <1>3 DEF BEBytes

\* A function on the first numbers is a sequence.
LEMMA FunctionIsSeq ==
  ASSUME NEW S, NEW n \in Nat, NEW f \in [1 .. n -> S]
  PROVE  f \in Seq(S) /\ Len(f) = n
OBVIOUS

\* And a sequence of n elements is a function on them.
LEMMA SeqIsFunction ==
  ASSUME NEW S, NEW n \in Nat, NEW s \in Seq(S), Len(s) = n
  PROVE  s \in [1 .. n -> S]
OBVIOUS

\* Functions on the same domain with the same values are the same.
LEMMA SameFunction ==
  ASSUME NEW D, NEW S, NEW T, NEW f \in [D -> S], NEW g \in [D -> T], \A d \in D : f[d] = g[d]
  PROVE  f = g
OBVIOUS

\* 4k bytes make k words.
LEMMA WordsType ==
  ASSUME NEW k \in Nat, NEW s \in Seq(Byte), Len(s) = 4 * k
  PROVE  Words(s) \in Seq(Word) /\ Len(Words(s)) = k /\ Words(s) \in [1 .. k -> Word]
<1>1. Len(s) \div 4 = k
  OBVIOUS
<1>2. ASSUME NEW i \in 1 .. k
      PROVE  FromBytes(s[4 * i - 3], s[4 * i - 2], s[4 * i - 1], s[4 * i]) \in Word
  <2>1. /\ 4 * i - 3 \in 1 .. 4 * k /\ 4 * i - 2 \in 1 .. 4 * k
        /\ 4 * i - 1 \in 1 .. 4 * k /\ 4 * i \in 1 .. 4 * k
    OBVIOUS
  <2>2. /\ s[4 * i - 3] \in Byte /\ s[4 * i - 2] \in Byte
        /\ s[4 * i - 1] \in Byte /\ s[4 * i] \in Byte
    BY <2>1
  <2> QED BY <2>2, FromBytesType
<1>3. Words(s) = [i \in 1 .. k |->
                    FromBytes(s[4 * i - 3], s[4 * i - 2], s[4 * i - 1], s[4 * i])]
  BY <1>1 DEF Words
<1>4. Words(s) \in [1 .. k -> Word]
  BY <1>2, <1>3
<1> QED BY <1>4

\* The eight words of a state make 32 bytes.
LEMMA BytesOfType ==
  ASSUME NEW s \in State
  PROVE  /\ Len(s) = 8 /\ s \in Seq(Word)
         /\ BytesOf(s) \in Seq(Byte) /\ Len(BytesOf(s)) = 32
<1>1. Len(s) = 8 /\ s \in Seq(Word)
  BY SMTT(60) DEF State
<1>2. BytesOf(s) = [i \in 1 .. 32 |-> BEBytes(s[(i + 3) \div 4])[((i - 1) % 4) + 1]]
  <2>1. 4 * Len(s) = 32
    BY <1>1
  <2> QED BY <2>1 DEF BytesOf
<1>3. ASSUME NEW i \in 1 .. 32 PROVE BEBytes(s[(i + 3) \div 4])[((i - 1) % 4) + 1] \in Byte
  <2>1. (i + 3) \div 4 \in 1 .. 8 /\ ((i - 1) % 4) + 1 \in 1 .. 4
    OBVIOUS
  <2>2. s[(i + 3) \div 4] \in Nat
    BY <2>1, WordNat DEF State
  <2> QED BY <2>1, <2>2, BEBytesType
<1>4. BytesOf(s) \in [1 .. 32 -> Byte]
  BY <1>2, <1>3
<1>5. BytesOf(s) \in Seq(Byte) /\ Len(BytesOf(s)) = 32
  <2>1. 32 \in Nat
    OBVIOUS
  <2> QED BY <1>4, <2>1, FunctionIsSeq, ZenonT(60)
<1> QED BY <1>1, <1>5

\* What is where in two sequences put together.
Joins(u, s, t, k, l) ==
  /\ Len(u) = k + l
  /\ \A i \in 1 .. k : u[i] = s[i]
  /\ \A i \in k + 1 .. k + l : u[i] = t[i - k]

\* Two sequences put together join.
LEMMA Joined ==
  ASSUME NEW S, NEW k \in Nat, NEW l \in Nat, NEW s \in Seq(S), NEW t \in Seq(S),
         Len(s) = k, Len(t) = l
  PROVE  s \o t \in Seq(S) /\ Joins(s \o t, s, t, k, l)
BY DEF Joins

\* The padding of n bytes: the mark, z + 4 zeros and the length in bits.
LEMMA PaddingType ==
  ASSUME NEW n \in Nat, NEW z \in Nat, z = (64 - ((n + 9) % 64)) % 64
  PROVE  /\ Padding(n) \in Seq(Byte) /\ Len(Padding(n)) = z + 9
         /\ Padding(n)[1] = HighBit
         /\ \A i \in 2 .. z + 5 : Padding(n)[i] = 0
         /\ \A i \in z + 6 .. z + 9 :
              Padding(n)[i] = BEBytes((n * ByteBits) % Values)[i - (z + 5)]
<1>0. PICK mark, zeros, size, front :
        /\ mark = <<HighBit>> /\ zeros = [i \in 1 .. z + 4 |-> 0]
        /\ size = BEBytes((n * ByteBits) % Values) /\ front = mark \o zeros
  OBVIOUS
<1>1. mark \in Seq(Byte) /\ Len(mark) = 1 /\ mark[1] = HighBit
  <2>1. HighBit \in Byte
    BY HashAssumption DEF HighBit, Byte
  <2> QED BY <1>0, <2>1
<1>2. zeros \in Seq(Byte) /\ Len(zeros) = z + 4 /\ \A i \in 1 .. z + 4 : zeros[i] = 0
  <2>1. zeros \in [1 .. z + 4 -> Byte]
    BY <1>0, ZeroWord
  <2> QED BY <1>0, <2>1
<1>3. size \in Seq(Byte) /\ Len(size) = 4
  <2>1. n * ByteBits \in Nat
    BY HashAssumption
  <2>2. (n * ByteBits) % Values \in Nat
    BY <2>1, ValuesType
  <2> QED BY <1>0, <2>2, BEBytesType
<1>4. Padding(n) = front \o size
  BY <1>0 DEF Padding
<1>5. 1 \in Nat /\ 4 \in Nat /\ z + 4 \in Nat /\ z + 5 \in Nat
  OBVIOUS
<1>6. front \in Seq(Byte) /\ Joins(front, mark, zeros, 1, z + 4)
  <2>1. Len(mark) = 1 /\ Len(zeros) = z + 4 /\ mark \in Seq(Byte) /\ zeros \in Seq(Byte)
    BY <1>1, <1>2
  <2>2. mark \o zeros \in Seq(Byte) /\ Joins(mark \o zeros, mark, zeros, 1, z + 4)
    BY <1>5, <2>1, Joined
  <2> QED BY <1>0, <2>2
<1>7. Len(front) = z + 5 /\ front[1] = HighBit /\ \A i \in 2 .. z + 5 : front[i] = 0
  <2>1. ASSUME NEW i \in 2 .. z + 5 PROVE front[i] = 0
    <3>1. i - 1 \in 1 .. z + 4 /\ i \in 1 + 1 .. 1 + (z + 4)
      OBVIOUS
    <3> QED BY <1>2, <1>6, <3>1 DEF Joins
  <2> QED BY <1>1, <1>6, <2>1 DEF Joins
<1>8. Padding(n) \in Seq(Byte) /\ Joins(Padding(n), front, size, z + 5, 4)
  <2>1. Len(front) = z + 5 /\ front \in Seq(Byte)
    BY <1>6, <1>7
  <2>2. front \o size \in Seq(Byte) /\ Joins(front \o size, front, size, z + 5, 4)
    BY <1>3, <1>5, <2>1, Joined
  <2> QED BY <1>4, <2>2
<1>9. /\ 1 \in 1 .. z + 5 /\ \A i \in 2 .. z + 5 : i \in 1 .. z + 5
      /\ \A i \in z + 6 .. z + 9 : i \in (z + 5) + 1 .. (z + 5) + 4
  OBVIOUS
<1> QED BY <1>0, <1>7, <1>8, <1>9 DEF Joins

\* The block j of a message.
Block(words, j) == SubSeq(words, 16 * j - 15, 16 * j)

\* f holds the states after each block.
Chains(f, s, words, n) ==
  /\ f[0] = s /\ f[n] = Digest(s, words)
  /\ \A j \in 1 .. n : f[j] = Compress(f[j - 1], Block(words, j))
  /\ \A j \in 0 .. n : f[j] \in State

\* b is that block.
IsBlock(b, words, j) ==
  /\ b \in Seq(Word) /\ Len(b) = 16
  /\ \A i \in 1 .. 16 : b[i] = words[16 * (j - 1) + i]

\* The block j of a message of at least n blocks is 16 of its words.
LEMMA BlockType ==
  ASSUME NEW n \in Nat, NEW k \in Nat, k >= 16 * n, NEW words \in Seq(Word), Len(words) = k,
         NEW j \in 1 .. n
  PROVE  IsBlock(Block(words, j), words, j)
<1> DEFINE a == 16 * j - 15
           b == 16 * j
<1>1. /\ a \in 1 .. k + 1 /\ b \in a - 1 .. k /\ b - a + 1 = 16
      /\ a \in Nat /\ b \in Nat /\ a <= b /\ a >= 1
  OBVIOUS
<1>2. Block(words, j) = [i \in 1 .. 16 |-> words[a + i - 1]]
  <2>1. SubSeq(words, a, b) = [i \in 1 .. (1 + b - a) |-> words[i + a - 1]]
    BY <1>1
  <2>2. 1 + b - a = 16
    OBVIOUS
  <2> HIDE DEF a, b
  <2>3. SubSeq(words, a, b) = [i \in 1 .. 16 |-> words[i + a - 1]]
    BY <2>1, <2>2
  <2>4. \A i \in 1 .. 16 : i + a - 1 = a + i - 1
    BY <1>1
  <2>5. Block(words, j) = SubSeq(words, a, b)
    BY DEF Block, a, b
  <2> QED BY <2>3, <2>4, <2>5
<1>3. ASSUME NEW i \in 1 .. 16
      PROVE  words[a + i - 1] \in Word /\ a + i - 1 = 16 * (j - 1) + i
  <2>1. a + i - 1 \in 1 .. k /\ a + i - 1 = 16 * (j - 1) + i
    OBVIOUS
  <2> QED BY <2>1
<1>4. Block(words, j) \in [1 .. 16 -> Word]
  BY <1>2, <1>3
<1>5. Block(words, j) \in Seq(Word) /\ Len(Block(words, j)) = 16
  <2>1. 16 \in Nat
    OBVIOUS
  <2> QED BY <1>4, <2>1, FunctionIsSeq
<1> HIDE DEF a, b
<1> QED BY <1>2, <1>3, <1>5 DEF IsBlock

\* The digest is the last of the states the blocks lead through.
LEMMA DigestSteps ==
  ASSUME NEW s \in State, NEW k \in Nat, NEW words \in Seq(Word), Len(words) = k,
         NEW n \in Nat, n = k \div 16
  PROVE  \E f : Chains(f, s, words, n)
<1> DEFINE step == [j \in 0 + 1 .. n |-> [t \in State |-> Compress(t, Block(words, j))]]
           R(f) == f = [j \in 0 .. n |-> IF j = 0 THEN s
                                         ELSE Compress(f[j - 1], Block(words, j))]
<1>1. \A j \in 1 .. n : Block(words, j) \in Seq(Word) /\ Len(Block(words, j)) = 16
  <2>1. k >= 16 * n
    OBVIOUS
  <2>2. \A j \in 1 .. n : IsBlock(Block(words, j), words, j)
    BY <2>1, BlockType
  <2> QED BY <2>2 DEF IsBlock
<1>2. step \in [0 + 1 .. n -> [State -> State]]
  <2>1. \A j \in 0 + 1 .. n : j \in 1 .. n
    OBVIOUS
  <2> QED BY <1>1, <2>1, CompressType
<1>3. 0 \in Nat /\ n \in Nat /\ 0 <= n /\ 0 \in 0 .. n /\ n \in 0 .. n
  OBVIOUS
<1>4. \E f : Follows(f, State, 0, n, s, step)
  <2> HIDE DEF step
  <2> QED BY <1>2, <1>3, RecursionExists
<1>5. PICK f \in [0 .. n -> State] :
        f[0] = s /\ \A j \in 0 + 1 .. n : f[j] = step[j][f[j - 1]]
  <2> HIDE DEF step
  <2> QED BY <1>4 DEF Follows
<1>6. \A j \in 1 .. n : f[j] = Compress(f[j - 1], Block(words, j))
  <2>1. \A j \in 1 .. n : j - 1 \in 0 .. n /\ j \in 0 + 1 .. n
    OBVIOUS
  <2>2. \A j \in 1 .. n : f[j - 1] \in State
    BY <2>1
  <2>3. \A j \in 1 .. n : step[j][f[j - 1]] = Compress(f[j - 1], Block(words, j))
    BY <2>1, <2>2
  <2> HIDE DEF step
  <2> QED BY <1>5, <2>1, <2>3
<1>7. R(f)
  <2>1. \A j \in 0 .. n : f[j] = IF j = 0 THEN s ELSE Compress(f[j - 1], Block(words, j))
    <3>1. \A j \in 0 .. n : j = 0 \/ j \in 1 .. n
      OBVIOUS
    <3> QED BY <1>5, <1>6, <3>1
  <2> QED BY <2>1
<1> DEFINE g == CHOOSE h : R(h)
<1>8. R(g)
  <2> HIDE DEF R
  <2> QED BY <1>7
<1>9. Digest(s, words) = g[n]
  BY DEF Digest, Block
<1> HIDE DEF g
<1>10. g[0] = s /\ \A j \in 1 .. n : g[j] = Compress(g[j - 1], Block(words, j))
  <2>1. \A j \in 1 .. n : j \in 0 .. n /\ j # 0
    OBVIOUS
  <2> QED BY <1>3, <1>8, <2>1
<1>11. \A j \in 0 .. n : g[j] \in State
  <2> DEFINE S == {j \in Nat : g[j] \in State}
  <2>1. 0 \in S
    BY <1>3, <1>10
  <2>2. ASSUME NEW j \in 0 .. n - 1, j \in S PROVE j + 1 \in S
    <3>1. j + 1 \in 1 .. n /\ (j + 1) - 1 = j /\ j + 1 \in Nat
      OBVIOUS
    <3>2. g[j + 1] = Compress(g[j], Block(words, j + 1)) /\ g[j] \in State
      BY <1>10, <2>2, <3>1
    <3> QED BY <1>1, <3>1, <3>2, CompressType
  <2>3. \A j \in 0 .. n : j \in S
    <3> HIDE DEF S
    <3> QED BY <1>3, <2>1, <2>2, InductionFromTo
  <2> QED BY <2>3
<1> QED BY <1>9, <1>10, <1>11 DEF Chains

\* A digest is a state.
LEMMA DigestType ==
  ASSUME NEW s \in State, NEW words \in Seq(Word)
  PROVE  Digest(s, words) \in State
<1>1. PICK k \in Nat : k = Len(words)
  OBVIOUS
<1>2. PICK n \in Nat : n = k \div 16
  BY QuotientNat
<1>3. PICK f : Chains(f, s, words, n)
  BY <1>1, <1>2, DigestSteps
<1>4. n \in 0 .. n
  OBVIOUS
<1> QED BY <1>3, <1>4 DEF Chains

\* The digest of two blocks.
LEMMA TwoBlocks ==
  ASSUME NEW s \in State, NEW words \in Seq(Word), Len(words) = 32
  PROVE  Digest(s, words) = Compress(Compress(s, Block(words, 1)), Block(words, 2))
<1>1. 2 = 32 \div 16 /\ 32 \in Nat /\ 2 \in Nat /\ 1 \in 1 .. 2 /\ 2 \in 1 .. 2
      /\ 1 - 1 = 0 /\ 2 - 1 = 1
  OBVIOUS
<1>2. PICK f : Chains(f, s, words, 2)
  BY <1>1, DigestSteps
<1>3. /\ f[0] = s /\ f[2] = Digest(s, words)
      /\ f[1] = Compress(f[0], Block(words, 1)) /\ f[2] = Compress(f[1], Block(words, 2))
  BY <1>1, <1>2 DEF Chains
<1> QED BY <1>3

-----------------------------------------------------------------------------
(* Digits.                                                                 *)

\* Quotient and remainder are determined.
LEMMA DivUnique ==
  ASSUME NEW d \in Nat, NEW q \in Nat, NEW r \in 0 .. d - 1
  PROVE  (q * d + r) \div d = q /\ (q * d + r) % d = r
<1>1. q * d \in Nat /\ d > 0
  OBVIOUS
<1> QED BY <1>1

\* n divided by d: quotient and remainder.
Divides(n, d, q, r) ==
  /\ q = n \div d /\ r = n % d /\ n = q * d + r
  /\ q \in Nat /\ r \in Nat /\ r \in 0 .. d - 1

\* Every number divides by every other but 0.
LEMMA DivRemainder ==
  ASSUME NEW n \in Nat, NEW d \in Nat, d > 0
  PROVE  Divides(n, d, n \div d, n % d)
<1>1. PICK q \in Nat, r \in 0 .. d - 1 : q = n \div d /\ r = n % d
  BY QuotientNat, Remainder
<1>2. n = d * q + r
  BY <1>1
<1>3. d * q = q * d /\ r \in Nat
  OBVIOUS
<1> QED BY <1>1, <1>2, <1>3 DEF Divides

\* Dividing twice.
LEMMA DivDiv ==
  ASSUME NEW n \in Nat, NEW b \in Nat, NEW c \in Nat, b > 0, c > 0
  PROVE  n \div (b * c) = (n \div c) \div b
<1>1. PICK q \in Nat, r \in 0 .. c - 1 : n = q * c + r /\ q = n \div c
  BY DivRemainder DEF Divides
<1>2. PICK p \in Nat, s \in 0 .. b - 1 : q = p * b + s /\ p = q \div b
  BY DivRemainder DEF Divides
<1>3. s * c + r \in 0 .. b * c - 1
  BY Horner
<1>4. n = p * (b * c) + (s * c + r)
  <2>1. (p * b + s) * c = p * (b * c) + s * c
    OBVIOUS
  <2> QED BY <1>1, <1>2, <2>1
<1>5. b * c \in Nat
  OBVIOUS
<1>6. n \div (b * c) = p
  BY <1>3, <1>4, <1>5, DivUnique
<1> QED BY <1>1, <1>2, <1>6

\* Dividing by a square and by a cube is dividing again and again.
LEMMA DivThrice ==
  ASSUME NEW n \in Nat, NEW b \in Nat, b > 0
  PROVE  /\ n \div (b * b) = (n \div b) \div b
         /\ n \div (b * b * b) = ((n \div b) \div b) \div b
<1>1. b * b \in Nat /\ b * b > 0 /\ b * b * b = b * (b * b)
  OBVIOUS
<1>2. n \div (b * b) = (n \div b) \div b
  BY DivDiv
<1>3. PICK c \in Nat : c = b * b /\ c > 0
  BY <1>1
<1>4. n \div (b * c) = (n \div c) \div b
  BY <1>3, DivDiv, ZenonT(60)
<1> QED BY <1>1, <1>2, <1>3, <1>4

\* The bytes of a number, one quotient after the other.
LEMMA BEBytesSteps ==
  ASSUME NEW n \in Nat
  PROVE  BEBytes(n) = <<(((n \div Base) \div Base) \div Base) % Base,
                        ((n \div Base) \div Base) % Base, (n \div Base) % Base, n % Base>>
<1>1. Base \in Nat /\ Base > 0
  BY HashAssumption
<1>2. /\ n \div (Base * Base) = (n \div Base) \div Base
      /\ n \div (Base * Base * Base) = ((n \div Base) \div Base) \div Base
  BY <1>1, DivThrice
<1> QED BY <1>2 DEF BEBytes

\* The low bytes of a word make it again.
LEMMA FromBEBytes ==
  ASSUME NEW n \in Word
  PROVE  LET b == BEBytes(n) IN FromBytes(b[1], b[2], b[3], b[4]) = n
<1>1. n \in Nat /\ n < ((Base * Base) * Base) * Base /\ Base \in Nat /\ Base > 0
  BY HashAssumption, ValuesType DEF Word, Values
<1>2. PICK p \in Nat, i \in Nat : Divides(n, Base, p, i)
  BY <1>1, DivRemainder DEF Divides
<1>3. PICK q \in Nat, j \in Nat : Divides(p, Base, q, j)
  BY <1>1, DivRemainder DEF Divides
<1>4. PICK r \in Nat, k \in Nat : Divides(q, Base, r, k)
  BY <1>1, DivRemainder DEF Divides
<1>5. r < Base
  <2> SUFFICES ASSUME r >= Base PROVE FALSE
    BY <1>1
  <2>1. r * Base >= Base * Base /\ Base * Base \in Nat /\ q >= r * Base
    BY <1>1, <1>4 DEF Divides
  <2>2. q >= Base * Base
    BY <1>1, <2>1
  <2>3. q * Base >= (Base * Base) * Base /\ (Base * Base) * Base \in Nat /\ p >= q * Base
    BY <1>1, <1>3, <2>1, <2>2 DEF Divides
  <2>4. p >= (Base * Base) * Base
    BY <1>1, <2>3
  <2>5. p * Base >= ((Base * Base) * Base) * Base /\ n >= p * Base
    BY <1>1, <1>2, <2>3, <2>4 DEF Divides
  <2> QED BY <1>1, <2>3, <2>5
<1>6. r % Base = r
  BY <1>1, <1>5, SMTT(60)
<1>7. BEBytes(n) = <<r, k, j, i>>
  <2>1. BEBytes(n) = <<r % Base, q % Base, p % Base, n % Base>>
    BY <1>1, <1>2, <1>3, <1>4, BEBytesSteps DEF Divides
  <2> QED BY <1>2, <1>3, <1>4, <1>6, <2>1 DEF Divides
<1>8. FromBytes(r, k, j, i) = n
  BY <1>2, <1>3, <1>4 DEF FromBytes, Divides
<1> QED BY <1>7, <1>8

-----------------------------------------------------------------------------
(* The digest of a header, the plain way and the way of the devices.       *)

\* A padded message is a number of whole blocks.
LEMMA WholeBlocks ==
  ASSUME NEW m \in Nat, NEW z \in Nat, z = (64 - (m % 64)) % 64
  PROVE  \E q \in Nat : m + z = 4 * q
<1>1. PICK q \in Nat, r \in 0 .. 63 : m = 64 * q + r /\ r = m % 64
  <2>1. 64 \in Nat /\ 64 > 0 /\ 64 - 1 = 63
    OBVIOUS
  <2>2. PICK q \in Nat, r \in 0 .. 64 - 1 : m = q * 64 + r /\ r = m % 64
    BY <2>1, DivRemainder DEF Divides
  <2> QED BY <2>2
<1>2. CASE r = 0
  <2>1. z = 0 /\ m + z = 4 * (16 * q) /\ 16 * q \in Nat
    BY <1>1, <1>2
  <2> QED BY <2>1
<1>3. CASE r # 0
  <2>1. z = 64 - r
    BY <1>1, <1>3
  <2>2. m + z = 4 * (16 * q + 16) /\ 16 * q + 16 \in Nat
    BY <1>1, <2>1
  <2> QED BY <2>2
<1> QED BY <1>2, <1>3

\* A padded message is a sequence of words.
LEMMA PaddedType ==
  ASSUME NEW s \in Seq(Byte)
  PROVE  Padded(s) \in Seq(Word)
<1>1. PICK n \in Nat : n = Len(s)
  OBVIOUS
<1>2. PICK z \in Nat : z = (64 - ((n + 9) % 64)) % 64
  <2>1. n + 9 \in Nat /\ 64 \in Nat /\ 64 > 0 /\ 64 - 1 = 63
    OBVIOUS
  <2>2. (n + 9) % 64 \in 0 .. 63
    BY <2>1, Remainder
  <2>3. 64 - ((n + 9) % 64) \in Nat
    BY <2>2
  <2>4. (64 - ((n + 9) % 64)) % 64 \in 0 .. 63
    BY <2>1, <2>3, Remainder
  <2> QED BY <2>4
<1>3. Padding(n) \in Seq(Byte) /\ Len(Padding(n)) = z + 9
  BY <1>2, PaddingType, ZenonT(60)
<1>4. s \o Padding(n) \in Seq(Byte) /\ Len(s \o Padding(n)) = (n + 9) + z
  BY <1>1, <1>3
<1>5. PICK q \in Nat : (n + 9) + z = 4 * q
  <2>1. n + 9 \in Nat
    OBVIOUS
  <2> QED BY <1>2, <2>1, WholeBlocks
<1>6. Words(s \o Padding(n)) \in Seq(Word)
  BY <1>4, <1>5, WordsType
<1> QED BY <1>1, <1>6 DEF Padded

\* The digest of a digest has 32 bytes.
LEMMA OuterType ==
  ASSUME NEW s \in State
  PROVE  Outer(s) \in Seq(Byte) /\ Len(Outer(s)) = 32
<1>1. Padding(32) \in Seq(Byte) /\ Len(Padding(32)) = 4 * 8
  <2>1. 32 \in Nat /\ 23 \in Nat /\ 23 = (64 - ((32 + 9) % 64)) % 64 /\ 23 + 9 = 4 * 8
    OBVIOUS
  <2> QED BY <2>1, PaddingType, ZenonT(60)
<1>2. Words(Padding(32)) \in Seq(Word)
  <2>1. 8 \in Nat
    OBVIOUS
  <2> QED BY <1>1, <2>1, WordsType
<1>3. s \in Seq(Word)
  BY BytesOfType
<1>4. s \o Words(Padding(32)) \in Seq(Word)
  BY <1>2, <1>3
<1>5. SHA256_IV \in State
  BY HashAssumption DEF State
<1>6. Digest(SHA256_IV, s \o Words(Padding(32))) \in State
  BY <1>4, <1>5, DigestType
<1> QED BY <1>6, BytesOfType DEF Outer

\* A digest, as bytes.
Hash == {h \in Seq(Byte) : Len(h) = 32}

\* SHA-256d maps bytes to a digest.
LEMMA Sha256dType ==
  ASSUME NEW s \in Seq(Byte)
  PROVE  Sha256d(s) \in Hash
<1>1. SHA256_IV \in State
  BY HashAssumption DEF State
<1>2. Digest(SHA256_IV, Padded(s)) \in State
  BY <1>1, PaddedType, DigestType
<1> QED BY <1>2, OuterType DEF Sha256d, Hash

\* The padding of a header.
LEMMA HeaderPadding ==
  /\ Padding(84) \in Seq(Byte) /\ Len(Padding(84)) = 44
  /\ \A i \in 2 .. 40 : Padding(84)[i] = 0
  /\ \A i \in 41 .. 44 : Padding(84)[i] = BEBytes(HeaderBits)[i - 40]
  /\ HeaderBits \in Word
<1>1. 84 * ByteBits \in Nat /\ 84 * ByteBits < Values
  BY HashAssumption
<1>2. (84 * ByteBits) % Values = 84 * ByteBits /\ HeaderBits \in Word
  BY <1>1, ValuesType DEF HeaderBits, Word
<1>3. PICK n \in Nat, z \in Nat : n = 84 /\ z = 35 /\ z = (64 - ((n + 9) % 64)) % 64
  OBVIOUS
<1>4. PICK pad : pad = Padding(n)
  OBVIOUS
<1>5. /\ pad \in Seq(Byte) /\ Len(pad) = z + 9
      /\ \A i \in 2 .. z + 5 : pad[i] = 0
      /\ \A i \in z + 6 .. z + 9 : pad[i] = BEBytes((n * ByteBits) % Values)[i - (z + 5)]
  <2>1. z = (64 - ((n + 9) % 64)) % 64
    BY <1>3
  <2>2. /\ Padding(n) \in Seq(Byte) /\ Len(Padding(n)) = z + 9
        /\ \A i \in 2 .. z + 5 : Padding(n)[i] = 0
        /\ \A i \in z + 6 .. z + 9 :
             Padding(n)[i] = BEBytes((n * ByteBits) % Values)[i - (z + 5)]
    BY <2>1, PaddingType, ZenonT(60)
  <2> QED BY <1>4, <2>2, ZenonT(60)
<1>6. BEBytes((n * ByteBits) % Values) = BEBytes(HeaderBits)
  BY <1>2, <1>3 DEF HeaderBits
<1>7. pad \in Seq(Byte) /\ Len(pad) = 44 /\ \A i \in 2 .. 40 : pad[i] = 0
  BY <1>3, <1>5
<1>8. \A i \in 41 .. 44 : pad[i] = BEBytes(HeaderBits)[i - 40]
  <2> SUFFICES ASSUME NEW i \in 41 .. 44 PROVE pad[i] = BEBytes(HeaderBits)[i - 40]
    OBVIOUS
  <2>1. i \in z + 6 .. z + 9 /\ i - (z + 5) = i - 40
    BY <1>3
  <2>2. pad[i] = BEBytes((n * ByteBits) % Values)[i - (z + 5)]
    BY <1>5, <2>1
  <2> QED BY <1>6, <2>1, <2>2
<1>9. pad = Padding(84)
  BY <1>3, <1>4
<1> QED BY <1>2, <1>7, <1>8, <1>9

\* The words of the second block of a header with these bytes after its 64th.
LEMMA SecondBlockType ==
  ASSUME NEW tail16 \in Seq(Byte), Len(tail16) = 16, NEW x \in Seq(Byte), Len(x) = 4
  PROVE  LET tail == tail16 \o x
             block == SecondBlock(tail)
         IN  /\ tail \in Seq(Byte) /\ Len(tail) = 20
             /\ tail \o Padding(84) \in Seq(Byte) /\ Len(tail \o Padding(84)) = 64
             /\ block \in Seq(Word) /\ Len(block) = 16
             /\ \A i \in 1 .. 4 : block[i] = Words(tail16)[i]
             /\ \A i \in 10 .. 15 : block[i] = 0
             /\ block[16] = HeaderBits
<1>1. PICK tail, pad, bytes : /\ tail = tail16 \o x /\ pad = Padding(84)
                              /\ bytes = tail \o pad
  OBVIOUS
<1>2. tail \in Seq(Byte) /\ Len(tail) = 20 /\ \A i \in 1 .. 16 : tail[i] = tail16[i]
  <2>1. PICK k \in Nat, l \in Nat : k = 16 /\ l = 4
    OBVIOUS
  <2>2. tail16 \o x \in Seq(Byte) /\ Joins(tail16 \o x, tail16, x, k, l)
    BY <2>1, Joined
  <2>3. tail \in Seq(Byte) /\ Joins(tail, tail16, x, 16, 4)
    BY <1>1, <2>1, <2>2
  <2> QED BY <2>3 DEF Joins
<1>3. /\ pad \in Seq(Byte) /\ Len(pad) = 44
      /\ \A i \in 2 .. 40 : pad[i] = 0
      /\ \A i \in 41 .. 44 : pad[i] = BEBytes(HeaderBits)[i - 40]
  BY <1>1, HeaderPadding
<1>4. bytes \in Seq(Byte) /\ Joins(bytes, tail, pad, 20, 44)
  <2>1. 20 \in Nat /\ 44 \in Nat
    OBVIOUS
  <2>2. tail \o pad \in Seq(Byte) /\ Joins(tail \o pad, tail, pad, 20, 44)
    BY <1>2, <1>3, <2>1, Joined, ZenonT(60)
  <2> QED BY <1>1, <2>2
<1>5. Len(bytes) = 64
  BY <1>4 DEF Joins
<1>6. Words(bytes) \in Seq(Word) /\ Len(Words(bytes)) = 16
  <2>1. PICK k \in Nat : k = 16 /\ 64 = 4 * k
    OBVIOUS
  <2>2. Len(bytes) = 4 * k
    BY <1>5, <2>1
  <2> QED BY <1>4, <2>1, <2>2, WordsType
<1>7. \A i \in 1 .. 16 : Words(bytes)[i] = FromBytes(bytes[4 * i - 3], bytes[4 * i - 2],
                                                     bytes[4 * i - 1], bytes[4 * i])
  BY <1>5 DEF Words
<1>8. \A i \in 1 .. 4 : Words(bytes)[0 + i] = Words(tail16)[i]
  <2>1. \A p \in 1 .. 16 : tail16[p] = bytes[p]
    <3>1. \A p \in 1 .. 16 : p \in 1 .. 20
      OBVIOUS
    <3> QED BY <1>2, <1>4, <3>1 DEF Joins
  <2>2. ASSUME NEW i \in 1 .. 4 PROVE Words(bytes)[i] = Words(tail16)[i]
    <3>1. Words(tail16)[i] = FromBytes(tail16[4 * i - 3], tail16[4 * i - 2],
                                       tail16[4 * i - 1], tail16[4 * i])
      BY DEF Words
    <3>2. /\ 4 * i - 3 \in 1 .. 16 /\ 4 * i - 2 \in 1 .. 16 /\ 4 * i - 1 \in 1 .. 16
          /\ 4 * i \in 1 .. 16 /\ i \in 1 .. 16
      OBVIOUS
    <3> QED BY <1>7, <2>1, <3>1, <3>2
  <2> QED BY <2>2
<1>9. \A i \in 10 .. 15 : Words(bytes)[i] = 0
  <2> SUFFICES ASSUME NEW i \in 10 .. 15 PROVE Words(bytes)[i] = 0
    OBVIOUS
  <2>1. ASSUME NEW p \in 22 .. 60 PROVE bytes[p] = 0
    <3>1. p - 20 \in 2 .. 40 /\ p \in 20 + 1 .. 20 + 44
      OBVIOUS
    <3> QED BY <1>3, <1>4, <3>1, ZenonT(60) DEF Joins
  <2>2. /\ 4 * i - 3 \in 22 .. 60 /\ 4 * i - 2 \in 22 .. 60 /\ 4 * i - 1 \in 22 .. 60
        /\ 4 * i \in 22 .. 60 /\ i \in 1 .. 16
    OBVIOUS
  <2>3. Words(bytes)[i] = FromBytes(0, 0, 0, 0)
    BY <1>7, <2>1, <2>2
  <2>4. FromBytes(0, 0, 0, 0) = 0
    BY HashAssumption DEF FromBytes
  <2> QED BY <2>3, <2>4
<1>10. Words(bytes)[16] = HeaderBits
  <2>1. ASSUME NEW p \in 61 .. 64 PROVE bytes[p] = BEBytes(HeaderBits)[p - 60]
    <3>1. p - 20 \in 41 .. 44 /\ p \in 20 + 1 .. 20 + 44 /\ (p - 20) - 40 = p - 60
      OBVIOUS
    <3>2. bytes[p] = pad[p - 20]
      BY <1>4, <3>1, Zenon DEF Joins
    <3>3. pad[p - 20] = BEBytes(HeaderBits)[(p - 20) - 40]
      BY <1>3, <3>1, Zenon
    <3> QED BY <3>1, <3>2, <3>3, Zenon
  <2>3. PICK b : b = BEBytes(HeaderBits)
    OBVIOUS
  <2>4. bytes[61] = b[1] /\ bytes[62] = b[2] /\ bytes[63] = b[3] /\ bytes[64] = b[4]
    BY <2>1, <2>3
  <2>5. Words(bytes)[16] = FromBytes(bytes[61], bytes[62], bytes[63], bytes[64])
    BY <1>7
  <2>6. FromBytes(b[1], b[2], b[3], b[4]) = HeaderBits
    BY <2>3, HeaderPadding, FromBEBytes
  <2> QED BY <2>4, <2>5, <2>6
<1> QED BY <1>1, <1>2, <1>4, <1>5, <1>6, <1>8, <1>9, <1>10 DEF SecondBlock

\* One more word, by the places of those it is made of.
LEMMA ExtendedAt ==
  ASSUME NEW n \in Nat, n >= 16, NEW w \in [1 .. n -> Word],
         NEW i \in Nat, NEW j \in Nat, NEW k \in Nat, NEW l \in Nat, NEW o \in Nat,
         i = n - 15, j = n - 14, k = n - 6, l = n - 1, o = n + 1
  PROVE  /\ Extended(w) \in [1 .. o -> Word]
         /\ \A p \in 1 .. n : Extended(w)[p] = w[p]
         /\ Extended(w)[o] = Sum3(w[i] + SmallSigma0(w[j]), w[k], SmallSigma1(w[l]))
<1>1. w \in Seq(Word) /\ Len(w) = n
  BY FunctionIsSeq
<1>2. /\ Extended(w) \in Seq(Word) /\ Len(Extended(w)) = Len(w) + 1
      /\ \A p \in 1 .. Len(w) : Extended(w)[p] = w[p]
      /\ Extended(w)[Len(w) + 1]
           = Sum3(w[Len(w) - 15] + SmallSigma0(w[Len(w) - 14]), w[Len(w) - 6],
                  SmallSigma1(w[Len(w) - 1]))
  <2>1. Len(w) >= 16
    BY <1>1
  <2> QED BY <1>1, <2>1, ExtendedType
<1>3. Len(Extended(w)) = o
  BY <1>1, <1>2
<1>4. Extended(w) \in [1 .. o -> Word]
  BY <1>2, <1>3, SeqIsFunction
<1> QED BY <1>1, <1>2, <1>4

\* The three words the kernel is given are those its schedule comes to next.
LEMMA ScheduleOfKernel ==
  ASSUME NEW tail16 \in Seq(Byte), Len(tail16) = 16, NEW x \in Seq(Byte), Len(x) = 4
  PROVE  LET block == SecondBlock(tail16 \o x)
             w == Words(tail16)
         IN  Schedule(block \o <<W16(w), W17(w), W18(w)>>) = Schedule(block)
<1>1. PICK b, w : b = SecondBlock(tail16 \o x) /\ w = Words(tail16)
  OBVIOUS
<1>2. /\ b \in Seq(Word) /\ Len(b) = 16
      /\ \A i \in 1 .. 4 : b[i] = w[i]
      /\ \A i \in 10 .. 15 : b[i] = 0
      /\ b[16] = HeaderBits
  <2>1. LET t == tail16 \o x
            a == SecondBlock(t)
        IN  /\ t \in Seq(Byte) /\ Len(t) = 20
            /\ t \o Padding(84) \in Seq(Byte) /\ Len(t \o Padding(84)) = 64
            /\ a \in Seq(Word) /\ Len(a) = 16
            /\ \A i \in 1 .. 4 : a[i] = Words(tail16)[i]
            /\ \A i \in 10 .. 15 : a[i] = 0
            /\ a[16] = HeaderBits
    BY SecondBlockType
  <2> QED BY <1>1, <2>1
<1>block. b \in [1 .. 16 -> Word]
  <2>1. PICK k \in Nat : k = 16
    OBVIOUS
  <2>2. b \in [1 .. k -> Word]
    BY <1>2, <2>1, SeqIsFunction
  <2> QED BY <2>1, <2>2
<1>3. /\ b[1] = w[1] /\ b[2] = w[2] /\ b[3] = w[3] /\ b[4] = w[4]
      /\ b[10] = 0 /\ b[11] = 0 /\ b[12] = 0 /\ b[15] = 0
      /\ b[1] \in Word /\ b[2] \in Word /\ b[3] \in Word /\ b[4] \in Word
  BY <1>2, <1>block
<1>4. ASSUME NEW p \in Word, NEW q \in Word, NEW r \in Word
      PROVE  Sum3(p + SmallSigma0(q), 0, SmallSigma1(r))
               = Sum3(p, SmallSigma0(q), SmallSigma1(r))
  <2>1. PICK i \in Nat, j \in Nat : i = SmallSigma0(q) /\ j = SmallSigma1(r)
    BY SigmaType, WordNat
  <2>2. p \in Nat
    BY WordNat
  <2>3. p + i + 0 + j = p + i + j
    BY <2>2
  <2> QED BY <2>1, <2>3 DEF Sum3
<1>5. PICK e : e = Extended(b)
  OBVIOUS
<1>6. e \in [1 .. 17 -> Word] /\ (\A i \in 1 .. 16 : e[i] = b[i]) /\ e[17] = W16(w)
  <2>1. PICK n \in Nat, i \in Nat, j \in Nat, k \in Nat, l \in Nat, o \in Nat :
          n = 16 /\ i = 1 /\ j = 2 /\ k = 10 /\ l = 15 /\ o = 17
    OBVIOUS
  <2>2. n >= 16 /\ i = n - 15 /\ j = n - 14 /\ k = n - 6 /\ l = n - 1 /\ o = n + 1
    BY <2>1
  <2>3. b \in [1 .. n -> Word]
    BY <1>block, <2>1
  <2>4. /\ e \in [1 .. o -> Word] /\ \A p \in 1 .. n : e[p] = b[p]
        /\ e[o] = Sum3(b[i] + SmallSigma0(b[j]), b[k], SmallSigma1(b[l]))
    BY <1>5, <2>2, <2>3, ExtendedAt, SMTT(60)
  <2>5. e[17] = Sum3(w[1], SmallSigma0(w[2]), SmallSigma1(0))
    BY <1>3, <1>4, <2>1, <2>4, ZeroWord, SMTT(60)
  <2> QED BY <2>1, <2>4, <2>5 DEF W16
<1>begun. e[2] = b[2] /\ e[3] = b[3] /\ e[4] = b[4] /\ e[11] = b[11] /\ e[12] = b[12]
      /\ e[16] = b[16]
  BY <1>6
<1>7. PICK f : f = Extended(e)
  OBVIOUS
<1>8. f \in [1 .. 18 -> Word] /\ (\A i \in 1 .. 17 : f[i] = e[i]) /\ f[18] = W17(w)
  <2>1. PICK n \in Nat, i \in Nat, j \in Nat, k \in Nat, l \in Nat, o \in Nat :
          n = 17 /\ i = 2 /\ j = 3 /\ k = 11 /\ l = 16 /\ o = 18
    OBVIOUS
  <2>2. n >= 16 /\ i = n - 15 /\ j = n - 14 /\ k = n - 6 /\ l = n - 1 /\ o = n + 1
    BY <2>1
  <2>3. e \in [1 .. n -> Word]
    BY <1>6, <2>1
  <2>4. /\ f \in [1 .. o -> Word] /\ \A p \in 1 .. n : f[p] = e[p]
        /\ f[o] = Sum3(e[i] + SmallSigma0(e[j]), e[k], SmallSigma1(e[l]))
    BY <1>7, <2>2, <2>3, ExtendedAt, SMTT(60)
  <2>5. f[18] = Sum3(b[2] + SmallSigma0(b[3]), 0, SmallSigma1(HeaderBits))
    BY <1>2, <1>3, <1>begun, <2>1, <2>4
  <2>6. f[18] = Sum3(w[2], SmallSigma0(w[3]), SmallSigma1(HeaderBits))
    <3>1. HeaderBits \in Word
      BY HeaderPadding
    <3>2. Sum3(b[2] + SmallSigma0(b[3]), 0, SmallSigma1(HeaderBits))
            = Sum3(b[2], SmallSigma0(b[3]), SmallSigma1(HeaderBits))
      BY <1>3, <1>4, <3>1
    <3> QED BY <1>3, <2>5, <3>2
  <2> QED BY <2>1, <2>4, <2>6 DEF W17
<1>longer. f[3] = b[3] /\ f[4] = b[4] /\ f[12] = b[12] /\ f[17] = e[17] /\ f[17] \in Word
  BY <1>8, <1>begun, SMTT(60)
<1>9. PICK g : g = Extended(f)
  OBVIOUS
<1>10. g \in [1 .. 19 -> Word] /\ (\A i \in 1 .. 18 : g[i] = f[i]) /\ g[19] = W18(w)
  <2>1. PICK n \in Nat, i \in Nat, j \in Nat, k \in Nat, l \in Nat, o \in Nat :
          n = 18 /\ i = 3 /\ j = 4 /\ k = 12 /\ l = 17 /\ o = 19
    OBVIOUS
  <2>2. n >= 16 /\ i = n - 15 /\ j = n - 14 /\ k = n - 6 /\ l = n - 1 /\ o = n + 1
    BY <2>1
  <2>3. f \in [1 .. n -> Word]
    BY <1>8, <2>1
  <2>4. /\ g \in [1 .. o -> Word] /\ \A p \in 1 .. n : g[p] = f[p]
        /\ g[o] = Sum3(f[i] + SmallSigma0(f[j]), f[k], SmallSigma1(f[l]))
    BY <1>9, <2>2, <2>3, ExtendedAt, SMTT(60)
  <2>5. g[19] = Sum3(b[3] + SmallSigma0(b[4]), 0, SmallSigma1(f[17]))
    BY <1>3, <1>longer, <2>1, <2>4
  <2>6. g[19] = Sum3(w[3], SmallSigma0(w[4]), SmallSigma1(f[17]))
    BY <1>3, <1>4, <1>longer, <2>5
  <2> QED BY <1>6, <1>longer, <2>1, <2>4, <2>6 DEF W18
<1>11. PICK more : more = <<W16(w), W17(w), W18(w)>>
  OBVIOUS
<1>12. more \in Seq(Word) /\ Len(more) = 3
       /\ more[1] = W16(w) /\ more[2] = W17(w) /\ more[3] = W18(w)
  <2>1. e[17] \in Word /\ f[18] \in Word /\ g[19] \in Word
    BY <1>6, <1>8, <1>10
  <2>2. W16(w) \in Word /\ W17(w) \in Word /\ W18(w) \in Word
    BY <1>6, <1>8, <1>10, <2>1
  <2> QED BY <1>11, <2>2
<1>13. g = b \o more
  <2>1. PICK u : u = b \o more
    OBVIOUS
  <2>2. u \in Seq(Word) /\ Joins(u, b, more, 16, 3)
    <3>1. PICK k \in Nat, l \in Nat : k = 16 /\ l = 3
      OBVIOUS
    <3>2. b \o more \in Seq(Word) /\ Joins(b \o more, b, more, k, l)
      BY <1>2, <1>12, <3>1, Joined
    <3> QED BY <2>1, <3>1, <3>2
  <2>3. Len(u) = 19 /\ (\A i \in 1 .. 16 : u[i] = b[i])
        /\ \A i \in 16 + 1 .. 16 + 3 : u[i] = more[i - 16]
    BY <2>2 DEF Joins
  <2>4. u \in [1 .. 19 -> Word]
    <3>1. PICK k \in Nat : k = 19
      OBVIOUS
    <3>2. u \in [1 .. k -> Word]
      BY <2>2, <2>3, <3>1, SeqIsFunction
    <3> QED BY <3>1, <3>2
  <2>5. u[17] = more[1] /\ u[18] = more[2] /\ u[19] = more[3]
    <3>1. 17 - 16 = 1 /\ 18 - 16 = 2 /\ 19 - 16 = 3 /\ 17 \in 16 + 1 .. 16 + 3
          /\ 18 \in 16 + 1 .. 16 + 3 /\ 19 \in 16 + 1 .. 16 + 3
      OBVIOUS
    <3> QED BY <2>3, <3>1
  <2>6. g[17] = W16(w) /\ g[18] = W17(w) /\ g[19] = W18(w)
    BY <1>6, <1>8, <1>10
  <2>7. ASSUME NEW i \in 1 .. 16 PROVE g[i] = b[i]
    <3>1. i \in 1 .. 17 /\ i \in 1 .. 18
      OBVIOUS
    <3> QED BY <1>6, <1>8, <1>10, <3>1
  <2>8. ASSUME NEW i \in 1 .. 19 PROVE g[i] = u[i]
    <3>1. i \in 1 .. 16 \/ i = 17 \/ i = 18 \/ i = 19
      OBVIOUS
    <3> QED BY <1>12, <2>3, <2>5, <2>6, <2>7, <3>1
  <2>9. g = u
    <3>1. g \in [1 .. 19 -> Word]
      BY <1>10
    <3>2. PICK D : D = 1 .. 19
      OBVIOUS
    <3>3. g \in [D -> Word] /\ u \in [D -> Word] /\ \A i \in D : g[i] = u[i]
      BY <2>4, <2>8, <3>1, <3>2
    <3> QED BY <3>3, SameFunction
  <2> QED BY <2>1, <2>9
<1>14. Schedule(e) = Schedule(b) /\ Schedule(f) = Schedule(e) /\ Schedule(g) = Schedule(f)
  <2>1. PICK k \in 16 .. 63, l \in 16 .. 63, m \in 16 .. 63 : k = 16 /\ l = 17 /\ m = 18
    OBVIOUS
  <2>2. Len(b) = k /\ e \in Seq(Word) /\ Len(e) = l /\ f \in Seq(Word) /\ Len(f) = m
    <3>1. e \in [1 .. l -> Word] /\ f \in [1 .. m -> Word] /\ l \in Nat /\ m \in Nat
      BY <1>6, <1>8, <2>1
    <3>2. e \in Seq(Word) /\ Len(e) = l
      BY <3>1, FunctionIsSeq
    <3>3. f \in Seq(Word) /\ Len(f) = m
      BY <3>1, FunctionIsSeq
    <3> QED BY <1>2, <2>1, <3>2, <3>3
  <2>3. Schedule(e) = Schedule(b)
    BY <1>2, <1>5, <2>2, ScheduleExtended
  <2>4. Schedule(f) = Schedule(e)
    BY <1>7, <2>2, ScheduleExtended
  <2>5. Schedule(g) = Schedule(f)
    BY <1>9, <2>2, ScheduleExtended
  <2> QED BY <2>3, <2>4, <2>5
<1> QED BY <1>1, <1>11, <1>13, <1>14

\* The kernel hashes what the finisher does.
LEMMA KernelFinishes ==
  ASSUME NEW m \in State, NEW tail16 \in Seq(Byte), Len(tail16) = 16,
         NEW x \in Seq(Byte), Len(x) = 4
  PROVE  KernelHash(m, InnerPrefix(m, tail16), tail16 \o x)
           = FinishFromMidstate(m, tail16 \o x)
<1>1. PICK b, v : b = SecondBlock(tail16 \o x) /\ v = Words(tail16)
  OBVIOUS
<1>2. b \in Seq(Word) /\ Len(b) = 16 /\ \A i \in 1 .. 4 : b[i] = v[i]
  BY <1>1, SecondBlockType, SMTT(60)
<1>3. v \in Seq(Word) /\ Len(v) = 4
  <2>1. PICK k \in Nat : k = 4 /\ Len(tail16) = 4 * k
    OBVIOUS
  <2> QED BY <1>1, <2>1, WordsType
<1>4. PICK w : w = Schedule(b)
  OBVIOUS
<1>5. w \in Seq(Word) /\ Len(w) = 64 /\ \A j \in 1 .. 16 : w[j] = b[j]
  <2>1. 16 \in 16 .. 64
    OBVIOUS
  <2> QED BY <1>2, <1>4, <2>1, ScheduleType, ZenonT(60)
<1>6. \A j \in 1 .. 4 : v[j] = w[j]
  <2>1. \A j \in 1 .. 4 : j \in 1 .. 16
    OBVIOUS
  <2> QED BY <1>2, <1>5, <2>1
<1>7. Rounds(Rounds(m, v, 0), w, 4) = Rounds(m, w, 0)
  <2>1. Begins(v, w)
    BY <1>3, <1>5, <1>6 DEF Begins
  <2>2. Len(w) <= 64
    BY <1>5
  <2>3. Rounds(Rounds(m, v, 0), w, Len(v)) = Rounds(m, w, 0)
    BY <1>3, <1>5, <2>1, <2>2, RoundsSplit, ZenonT(60)
  <2> QED BY <1>3, <2>3
<1>8. Schedule(b \o InnerPrefix(m, tail16).sched) = w
  BY <1>1, <1>4, ScheduleOfKernel DEF InnerPrefix
<1>9. InnerPrefix(m, tail16).state = Rounds(m, v, 0)
  BY <1>1 DEF InnerPrefix
<1>10. KernelHash(m, InnerPrefix(m, tail16), tail16 \o x) = Outer(Fold(m, Rounds(m, w, 0)))
  BY <1>1, <1>7, <1>8, <1>9 DEF KernelHash
<1> QED BY <1>1, <1>4, <1>10 DEF FinishFromMidstate, Compress

\* Sequences as functions on the first numbers: put together, cut, and in words.
LEMMA JoinedFunctions ==
  ASSUME NEW S, NEW k \in Nat, NEW l \in Nat, NEW m \in Nat, m = k + l,
         NEW s \in [1 .. k -> S], NEW t \in [1 .. l -> S]
  PROVE  s \o t \in [1 .. m -> S] /\ Joins(s \o t, s, t, k, l)
<1>1. s \in Seq(S) /\ Len(s) = k /\ t \in Seq(S) /\ Len(t) = l
  BY FunctionIsSeq
<1>2. s \o t \in Seq(S) /\ Joins(s \o t, s, t, k, l)
  BY <1>1, Joined
<1>3. Len(s \o t) = m
  BY <1>2 DEF Joins
<1>4. s \o t \in [1 .. m -> S]
  BY <1>2, <1>3, SeqIsFunction
<1> QED BY <1>2, <1>4

\* u are the l elements of s that follow the first a.
Cuts(u, s, a, l) == \A i \in 1 .. l : u[i] = s[a + i]

\* SubSeq cuts.
LEMMA CutFunction ==
  ASSUME NEW S, NEW k \in Nat, NEW s \in [1 .. k -> S],
         NEW a \in Nat, NEW l \in Nat, NEW b \in Nat, NEW c \in Nat,
         b <= k, b = a + l, c = a + 1
  PROVE  SubSeq(s, c, b) \in [1 .. l -> S] /\ Cuts(SubSeq(s, c, b), s, a, l)
<1>1. SubSeq(s, c, b) = [i \in 1 .. (1 + b - c) |-> s[i + c - 1]]
  OBVIOUS
<1>2. 1 + b - c = l /\ \A i \in 1 .. l : i + c - 1 = a + i /\ a + i \in 1 .. k
  OBVIOUS
<1> QED BY <1>1, <1>2 DEF Cuts

\* w are the k words of the bytes s.
WordsOf(w, s, k) ==
  /\ w \in [1 .. k -> Word] /\ Len(w) = k /\ w \in Seq(Word)
  /\ \A i \in 1 .. k : w[i] = FromBytes(s[4 * i - 3], s[4 * i - 2], s[4 * i - 1], s[4 * i])

\* The words of 4k bytes, given as a function.
LEMMA WordsOfFunction ==
  ASSUME NEW k \in Nat, NEW n \in Nat, n = 4 * k, NEW s \in [1 .. n -> Byte]
  PROVE  WordsOf(Words(s), s, k)
<1>1. s \in Seq(Byte) /\ Len(s) = 4 * k
  BY FunctionIsSeq
<1>2. Words(s) \in [1 .. k -> Word] /\ Len(Words(s)) = k /\ Words(s) \in Seq(Word)
  BY <1>1, WordsType
<1>3. Len(s) \div 4 = k
  BY <1>1
<1> QED BY <1>2, <1>3 DEF Words, WordsOf

\* s is the block j of the two blocks of bytes t.
BlockOf(s, t, j) == \A p \in 1 .. 64 : s[p] = t[64 * (j - 1) + p]

\* A block of the message is the words of that block's bytes.
LEMMA BlockWords ==
  ASSUME NEW s \in [1 .. 64 -> Byte], NEW t \in [1 .. 128 -> Byte],
         NEW j \in {1, 2}, BlockOf(s, t, j)
  PROVE  Block(Words(t), j) = Words(s)
<1>1. PICK n \in Nat, k \in Nat, q \in Nat, u \in Nat, v \in Nat :
        n = 2 /\ k = 32 /\ q = 16 /\ u = 64 /\ v = 128
  OBVIOUS
<1>2. k >= 16 * n /\ j \in 1 .. n /\ u = 4 * q /\ v = 4 * k
  BY <1>1
<1>3. WordsOf(Words(s), s, q)
  <2>1. s \in [1 .. u -> Byte] /\ u = 4 * q /\ q \in Nat /\ u \in Nat
    BY <1>1, <1>2
  <2> QED BY <2>1, WordsOfFunction, ZenonT(60)
<1>4. WordsOf(Words(t), t, k)
  <2>1. t \in [1 .. v -> Byte] /\ v = 4 * k /\ k \in Nat /\ v \in Nat
    BY <1>1, <1>2
  <2> QED BY <2>1, WordsOfFunction, ZenonT(60)
<1>5. PICK b : b = Block(Words(t), j)
  OBVIOUS
<1>6. /\ b \in Seq(Word) /\ Len(b) = 16
      /\ \A i \in 1 .. 16 : b[i] = Words(t)[16 * (j - 1) + i]
  <2>1. k >= 16 * n /\ j \in 1 .. n
    BY <1>2
  <2>2. Words(t) \in Seq(Word) /\ Len(Words(t)) = k
    BY <1>4 DEF WordsOf
  <2>3. IsBlock(Block(Words(t), j), Words(t), j)
    BY <2>1, <2>2, BlockType, ZenonT(60)
  <2> QED BY <1>5, <2>3 DEF IsBlock
<1>7. b \in [1 .. q -> Word]
  <2>1. Len(b) = q
    BY <1>1, <1>6
  <2> QED BY <1>6, <2>1, SeqIsFunction
<1>8. ASSUME NEW i \in 1 .. 16 PROVE b[i] = Words(s)[i]
  <2>1. PICK m \in Nat : m = 16 * (j - 1) + i
    OBVIOUS
  <2>2. /\ 4 * i - 3 \in 1 .. 64 /\ 4 * i - 2 \in 1 .. 64 /\ 4 * i - 1 \in 1 .. 64
        /\ 4 * i \in 1 .. 64 /\ m \in 1 .. 32
        /\ 4 * m - 3 = 64 * (j - 1) + (4 * i - 3) /\ 4 * m - 2 = 64 * (j - 1) + (4 * i - 2)
        /\ 4 * m - 1 = 64 * (j - 1) + (4 * i - 1) /\ 4 * m = 64 * (j - 1) + 4 * i
    BY <2>1
  <2>3. /\ s[4 * i - 3] = t[4 * m - 3] /\ s[4 * i - 2] = t[4 * m - 2]
        /\ s[4 * i - 1] = t[4 * m - 1] /\ s[4 * i] = t[4 * m]
    <3>1. \A p \in 1 .. 64 : s[p] = t[64 * (j - 1) + p]
      BY DEF BlockOf
    <3> QED BY <2>2, <3>1, ZenonT(60)
  <2>4. Words(t)[m] = FromBytes(t[4 * m - 3], t[4 * m - 2], t[4 * m - 1], t[4 * m])
    BY <1>1, <1>4, <2>2 DEF WordsOf
  <2>5. Words(s)[i] = FromBytes(s[4 * i - 3], s[4 * i - 2], s[4 * i - 1], s[4 * i])
    BY <1>1, <1>3 DEF WordsOf
  <2>6. b[i] = Words(t)[m]
    BY <1>6, <2>1
  <2> QED BY <2>3, <2>4, <2>5, <2>6
<1>9. \A i \in 1 .. q : b[i] = Words(s)[i]
  BY <1>1, <1>8
<1>10. b = Words(s)
  <2>1. PICK D : D = 1 .. q
    OBVIOUS
  <2>2. b \in [D -> Word] /\ Words(s) \in [D -> Word] /\ \A i \in D : b[i] = Words(s)[i]
    BY <1>3, <1>7, <1>9, <2>1 DEF WordsOf
  <2> QED BY <2>2, SameFunction
<1> QED BY <1>5, <1>10

\* What a device is given of the header for nonce 0, its bytes y, and the bytes
\* x of another nonce, is the two blocks of the header with that nonce.
Splits(front, x, y) ==
  LET first == SubSeq(front \o y, 1, 64)
      tail16 == SubSeq(front \o y, 65, 80)
      second == (tail16 \o x) \o Padding(84)
      whole == (front \o x) \o Padding(84)
  IN  /\ tail16 \in [1 .. 16 -> Byte] /\ first \in [1 .. 64 -> Byte]
      /\ second \in [1 .. 64 -> Byte] /\ whole \in [1 .. 128 -> Byte]
      /\ front \o x \in [1 .. 84 -> Byte]
      /\ BlockOf(first, whole, 1) /\ BlockOf(second, whole, 2)

\* The header splits that way, whatever the two nonces are.
LEMMA HeaderSplits ==
  ASSUME NEW front \in [1 .. 80 -> Byte],
         NEW x \in [1 .. 4 -> Byte], NEW y \in [1 .. 4 -> Byte]
  PROVE  Splits(front, x, y)
<1>1. PICK other, first, tail16, tail, second, header, whole, pad :
        /\ other = front \o y
        /\ first = SubSeq(other, 1, 64) /\ tail16 = SubSeq(other, 65, 80)
        /\ tail = tail16 \o x /\ second = tail \o pad
        /\ header = front \o x /\ whole = header \o pad /\ pad = Padding(84)
  OBVIOUS
<1>2. pad \in [1 .. 44 -> Byte]
  <2>1. PICK n \in Nat : n = 44
    OBVIOUS
  <2>2. pad \in Seq(Byte) /\ Len(pad) = n
    BY <1>1, <2>1, HeaderPadding
  <2>3. pad \in [1 .. n -> Byte]
    BY <2>2, SeqIsFunction
  <2> QED BY <2>1, <2>3
<1>3. other \in [1 .. 84 -> Byte] /\ Joins(other, front, y, 80, 4)
  <2>1. PICK k \in Nat, l \in Nat, m \in Nat : k = 80 /\ l = 4 /\ m = 84 /\ m = k + l
    OBVIOUS
  <2>2. front \in [1 .. k -> Byte] /\ y \in [1 .. l -> Byte] /\ m = k + l
    BY <2>1
  <2>3. front \o y \in [1 .. m -> Byte] /\ Joins(front \o y, front, y, k, l)
    BY <2>2, JoinedFunctions
  <2>4. other = front \o y
    BY <1>1
  <2> QED BY <2>1, <2>3, <2>4
<1>4. header \in [1 .. 84 -> Byte] /\ Joins(header, front, x, 80, 4)
  <2>1. PICK k \in Nat, l \in Nat, m \in Nat : k = 80 /\ l = 4 /\ m = 84 /\ m = k + l
    OBVIOUS
  <2>2. front \in [1 .. k -> Byte] /\ x \in [1 .. l -> Byte] /\ m = k + l
    BY <2>1
  <2>3. front \o x \in [1 .. m -> Byte] /\ Joins(front \o x, front, x, k, l)
    BY <2>2, JoinedFunctions
  <2>4. header = front \o x
    BY <1>1
  <2> QED BY <2>1, <2>3, <2>4
<1>5. whole \in [1 .. 128 -> Byte] /\ Joins(whole, header, pad, 84, 44)
  <2>1. PICK k \in Nat, l \in Nat, m \in Nat : k = 84 /\ l = 44 /\ m = 128 /\ m = k + l
    OBVIOUS
  <2>2. header \in [1 .. k -> Byte] /\ pad \in [1 .. l -> Byte] /\ m = k + l
    BY <1>2, <1>4, <2>1
  <2>3. header \o pad \in [1 .. m -> Byte] /\ Joins(header \o pad, header, pad, k, l)
    BY <2>2, JoinedFunctions
  <2>4. whole = header \o pad
    BY <1>1
  <2> QED BY <2>1, <2>3, <2>4
<1>6. first \in [1 .. 64 -> Byte] /\ Cuts(first, other, 0, 64)
  <2>1. PICK k \in Nat, a \in Nat, l \in Nat, b \in Nat, c \in Nat :
          k = 84 /\ a = 0 /\ l = 64 /\ b = 64 /\ c = 1 /\ b <= k /\ b = a + l /\ c = a + 1
    OBVIOUS
  <2>2. other \in [1 .. k -> Byte]
    BY <1>3, <2>1
  <2>3. SubSeq(other, c, b) \in [1 .. l -> Byte] /\ Cuts(SubSeq(other, c, b), other, a, l)
    <3>1. b <= k /\ b = a + l /\ c = a + 1
      BY <2>1
    <3> QED BY <2>2, <3>1, CutFunction
  <2>4. first = SubSeq(other, 1, 64)
    BY <1>1
  <2> QED BY <2>1, <2>3, <2>4
<1>7. tail16 \in [1 .. 16 -> Byte] /\ Cuts(tail16, other, 64, 16)
  <2>1. PICK k \in Nat, a \in Nat, l \in Nat, b \in Nat, c \in Nat :
          k = 84 /\ a = 64 /\ l = 16 /\ b = 80 /\ c = 65 /\ b <= k /\ b = a + l /\ c = a + 1
    OBVIOUS
  <2>2. other \in [1 .. k -> Byte]
    BY <1>3, <2>1
  <2>3. SubSeq(other, c, b) \in [1 .. l -> Byte] /\ Cuts(SubSeq(other, c, b), other, a, l)
    <3>1. b <= k /\ b = a + l /\ c = a + 1
      BY <2>1, SMTT(60)
    <3> QED BY <2>2, <3>1, CutFunction
  <2>4. tail16 = SubSeq(other, 65, 80)
    BY <1>1
  <2> QED BY <2>1, <2>3, <2>4
<1>8. tail \in [1 .. 20 -> Byte] /\ Joins(tail, tail16, x, 16, 4)
  <2>1. PICK k \in Nat, l \in Nat, m \in Nat : k = 16 /\ l = 4 /\ m = 20 /\ m = k + l
    OBVIOUS
  <2>2. tail16 \in [1 .. k -> Byte] /\ x \in [1 .. l -> Byte] /\ m = k + l
    BY <1>7, <2>1
  <2>3. tail16 \o x \in [1 .. m -> Byte] /\ Joins(tail16 \o x, tail16, x, k, l)
    BY <2>2, JoinedFunctions
  <2>4. tail = tail16 \o x
    BY <1>1
  <2> QED BY <2>1, <2>3, <2>4
<1>9. second \in [1 .. 64 -> Byte] /\ Joins(second, tail, pad, 20, 44)
  <2>1. PICK k \in Nat, l \in Nat, m \in Nat : k = 20 /\ l = 44 /\ m = 64 /\ m = k + l
    OBVIOUS
  <2>2. tail \in [1 .. k -> Byte] /\ pad \in [1 .. l -> Byte] /\ m = k + l
    BY <1>2, <1>8, <2>1
  <2>3. tail \o pad \in [1 .. m -> Byte] /\ Joins(tail \o pad, tail, pad, k, l)
    BY <2>2, JoinedFunctions
  <2>4. second = tail \o pad
    BY <1>1
  <2> QED BY <2>1, <2>3, <2>4
<1>10. \A p \in 1 .. 80 : other[p] = whole[p]
  <2> SUFFICES ASSUME NEW p \in 1 .. 80 PROVE other[p] = whole[p]
    OBVIOUS
  <2>1. p \in 1 .. 84
    OBVIOUS
  <2>2. other[p] = front[p]
    BY <1>3 DEF Joins
  <2>3. whole[p] = header[p]
    BY <1>5, <2>1 DEF Joins
  <2>4. header[p] = front[p]
    BY <1>4 DEF Joins
  <2> QED BY <2>2, <2>3, <2>4
<1>11. BlockOf(first, whole, 1)
  <2> SUFFICES ASSUME NEW p \in 1 .. 64 PROVE first[p] = whole[64 * (1 - 1) + p]
    BY DEF BlockOf
  <2>1. p \in 1 .. 80 /\ 64 * (1 - 1) + p = p
    OBVIOUS
  <2>2. 0 + p = p
    OBVIOUS
  <2> QED BY <1>6, <1>10, <2>1, <2>2 DEF Cuts
<1>12. BlockOf(second, whole, 2)
  <2> SUFFICES ASSUME NEW p \in 1 .. 64 PROVE second[p] = whole[64 * (2 - 1) + p]
    BY DEF BlockOf
  <2>1. PICK r \in Nat : r = 64 + p /\ r = 64 * (2 - 1) + p
    OBVIOUS
  <2>2. CASE p \in 1 .. 16
    <3>1. p \in 1 .. 20 /\ r \in 1 .. 80
      BY <2>1, <2>2
    <3>2. second[p] = tail[p]
      BY <1>9, <3>1 DEF Joins
    <3>3. tail[p] = tail16[p]
      BY <1>8, <2>2 DEF Joins
    <3>4. tail16[p] = other[r]
      BY <1>7, <2>1, <2>2 DEF Cuts
    <3> QED BY <1>10, <2>1, <3>1, <3>2, <3>3, <3>4
  <2>3. CASE p \in 17 .. 20
    <3>1. /\ p \in 1 .. 20 /\ p \in 16 + 1 .. 16 + 4 /\ r \in 80 + 1 .. 80 + 4 /\ r \in 1 .. 84
          /\ p - 16 = r - 80
      BY <2>1, <2>3
    <3>2. second[p] = tail[p]
      BY <1>9, <3>1 DEF Joins
    <3>3. tail[p] = x[p - 16]
      BY <1>8, <3>1 DEF Joins
    <3>4. header[r] = x[r - 80]
      BY <1>4, <3>1 DEF Joins
    <3>5. whole[r] = header[r]
      BY <1>5, <3>1 DEF Joins
    <3> QED BY <2>1, <3>1, <3>2, <3>3, <3>4, <3>5
  <2>4. CASE p \in 21 .. 64
    <3>1. p \in 20 + 1 .. 20 + 44 /\ r \in 84 + 1 .. 84 + 44 /\ p - 20 = r - 84
      BY <2>1, <2>4
    <3>2. second[p] = pad[p - 20]
      BY <1>9, <3>1 DEF Joins
    <3>3. whole[r] = pad[r - 84]
      BY <1>5, <3>1 DEF Joins
    <3> QED BY <2>1, <3>1, <3>2, <3>3
  <2>5. p \in 1 .. 16 \/ p \in 17 .. 20 \/ p \in 21 .. 64
    OBVIOUS
  <2> QED BY <2>2, <2>3, <2>4, <2>5
<1> QED BY <1>1, <1>4, <1>5, <1>6, <1>7, <1>9, <1>11, <1>12, ZenonT(60) DEF Splits

\* The bytes of a word, the least significant first.
LEMMA LEBytesType ==
  ASSUME NEW n \in Nat
  PROVE  /\ LEBytes(n) \in [1 .. 4 -> Byte]
         /\ LEBytes(n) = <<BEBytes(n)[4], BEBytes(n)[3], BEBytes(n)[2], BEBytes(n)[1]>>
<1>1. PICK b : b = BEBytes(n)
  OBVIOUS
<1>2. b \in [1 .. 4 -> Byte] /\ Len(b) = 4
  BY <1>1, BEBytesType
<1>3. Reverse(b) = [i \in 1 .. 4 |-> b[(4 - i) + 1]]
  BY <1>2 DEF Reverse
<1>4. Reverse(b) = <<b[4], b[3], b[2], b[1]>>
  BY <1>3
<1>5. Reverse(b) \in [1 .. 4 -> Byte]
  BY <1>2, <1>4, SMTT(60)
<1> QED BY <1>1, <1>4, <1>5 DEF LEBytes

\* Both devices, given the header for nonce 0, compute the digest of the header
\* with the nonce they try.
THEOREM DevicesHash ==
  ASSUME NEW front \in [1 .. 80 -> Byte], NEW nonce \in Nat, NEW device
  PROVE  OnDevice(device, front \o LEBytes(0), nonce) = Sha256d(front \o LEBytes(nonce))
<1>1. PICK x, y : /\ x = LEBytes(nonce) /\ y = LEBytes(0)
                  /\ x \in [1 .. 4 -> Byte] /\ y \in [1 .. 4 -> Byte]
  <2>1. 0 \in Nat
    OBVIOUS
  <2> QED BY <2>1, LEBytesType, SMTT(60)
<1>2. PICK first, tail16, second, header, whole :
        /\ first = SubSeq(front \o y, 1, 64) /\ tail16 = SubSeq(front \o y, 65, 80)
        /\ second = (tail16 \o x) \o Padding(84)
        /\ header = front \o x /\ whole = header \o Padding(84)
  OBVIOUS
<1>3. /\ tail16 \in [1 .. 16 -> Byte] /\ first \in [1 .. 64 -> Byte]
      /\ second \in [1 .. 64 -> Byte] /\ whole \in [1 .. 128 -> Byte]
      /\ header \in [1 .. 84 -> Byte]
      /\ BlockOf(first, whole, 1) /\ BlockOf(second, whole, 2)
  <2>1. x \in [1 .. 4 -> Byte] /\ y \in [1 .. 4 -> Byte]
    BY <1>1
  <2>2. Splits(front, x, y)
    BY <2>1, HeaderSplits
  <2> QED BY <1>2, <2>2 DEF Splits
<1>4. Block(Words(whole), 1) = Words(first) /\ Block(Words(whole), 2) = Words(second)
  BY <1>3, BlockWords
<1>5. PICK iv : iv = SHA256_IV /\ iv \in State
  BY HashAssumption DEF State
<1>6. Words(whole) \in Seq(Word) /\ Len(Words(whole)) = 32
  <2>1. PICK k \in Nat, n \in Nat : k = 32 /\ n = 128 /\ n = 4 * k
    OBVIOUS
  <2>2. whole \in [1 .. n -> Byte] /\ n = 4 * k
    BY <1>3, <2>1
  <2>3. WordsOf(Words(whole), whole, k)
    BY <2>2, WordsOfFunction
  <2> QED BY <2>1, <2>3 DEF WordsOf
<1>7. Digest(iv, Words(whole)) = Compress(Compress(iv, Words(first)), Words(second))
  BY <1>4, <1>5, <1>6, TwoBlocks
<1>8. Padded(header) = Words(whole)
  <2>1. Len(header) = 84
    BY <1>3
  <2> QED BY <1>2, <2>1 DEF Padded
<1>9. Sha256d(header) = Outer(Compress(Compress(iv, Words(first)), Words(second)))
  BY <1>5, <1>7, <1>8, SMTT(60) DEF Sha256d
<1>10. PICK mid : mid = Compress(iv, Words(first)) /\ mid = Midstate(front \o y)
  BY <1>2, <1>5 DEF Midstate
<1>11. mid \in State
  <2>1. PICK k \in Nat, n \in Nat : k = 16 /\ n = 64 /\ n = 4 * k
    OBVIOUS
  <2>2. first \in [1 .. n -> Byte] /\ n = 4 * k
    BY <1>3, <2>1
  <2>3. WordsOf(Words(first), first, k)
    BY <2>2, WordsOfFunction
  <2>4. Words(first) \in Seq(Word) /\ Len(Words(first)) = 16
    BY <2>1, <2>3, SMTT(60) DEF WordsOf
  <2> QED BY <1>5, <1>10, <2>4, CompressType
<1>12. FinishFromMidstate(mid, tail16 \o x) = Sha256d(header)
  BY <1>2, <1>9, <1>10 DEF FinishFromMidstate, SecondBlock
<1>13. tail16 \in Seq(Byte) /\ Len(tail16) = 16 /\ x \in Seq(Byte) /\ Len(x) = 4
  <2>1. tail16 \in [1 .. 16 -> Byte] /\ x \in [1 .. 4 -> Byte] /\ 16 \in Nat /\ 4 \in Nat
    BY <1>1, <1>3
  <2> QED BY <2>1, FunctionIsSeq, ZenonT(60)
<1>14. KernelHash(mid, InnerPrefix(mid, tail16), tail16 \o x) = Sha256d(header)
  BY <1>11, <1>12, <1>13, KernelFinishes
<1>15. OnDevice(device, front \o y, nonce)
         = IF device = "gpu" THEN KernelHash(mid, InnerPrefix(mid, tail16), tail16 \o x)
           ELSE FinishFromMidstate(mid, tail16 \o x)
  BY <1>1, <1>2, <1>10 DEF OnDevice
<1> QED BY <1>1, <1>2, <1>12, <1>14, <1>15

-----------------------------------------------------------------------------
(* The numbers bytes stand for.                                            *)

\* f holds the values of the first digits of s, which has n.
Evaluates(f, s, n) ==
  /\ f[0] = 0 /\ f[n] = FromBE(s)
  /\ \A i \in 1 .. n : f[i] = f[i - 1] * Base + s[i]
  /\ \A i \in 0 .. n : f[i] \in Nat

\* A byte has more than one value.
LEMMA BaseType == Base \in Nat /\ Base > 1
BY HashAssumption

\* A byte is a number.
LEMMA ByteNat == \A d \in Byte : d \in Nat
BY BaseType DEF Byte

\* The number of a sequence is the last of the values of its first digits.
LEMMA FromBESteps ==
  ASSUME NEW n \in Nat, NEW s \in [1 .. n -> Byte]
  PROVE  \E f : Evaluates(f, s, n)
<1> DEFINE step == [i \in 0 + 1 .. n |-> [v \in Nat |-> v * Base + s[i]]]
           R(f) == f = [i \in 0 .. n |-> IF i = 0 THEN 0 ELSE f[i - 1] * Base + s[i]]
<1>1. \A i \in 1 .. n : s[i] \in Nat
  BY ByteNat
<1>2. step \in [0 + 1 .. n -> [Nat -> Nat]]
  <2> SUFFICES ASSUME NEW i \in 0 + 1 .. n, NEW v \in Nat PROVE v * Base + s[i] \in Nat
    OBVIOUS
  <2>1. i \in 1 .. n
    OBVIOUS
  <2>2. s[i] \in Nat /\ v * Base \in Nat
    BY <1>1, <2>1, BaseType
  <2> QED BY <2>2
<1>3. 0 \in Nat /\ n \in Nat /\ 0 <= n /\ 0 \in 0 .. n /\ n \in 0 .. n
  OBVIOUS
<1>4. \E f : Follows(f, Nat, 0, n, 0, step)
  <2> HIDE DEF step
  <2> QED BY <1>2, <1>3, RecursionExists
<1>5. PICK f \in [0 .. n -> Nat] :
        f[0] = 0 /\ \A i \in 0 + 1 .. n : f[i] = step[i][f[i - 1]]
  <2> HIDE DEF step
  <2> QED BY <1>4 DEF Follows
<1>6. \A i \in 1 .. n : f[i] = f[i - 1] * Base + s[i]
  <2> SUFFICES ASSUME NEW i \in 1 .. n PROVE f[i] = f[i - 1] * Base + s[i]
    OBVIOUS
  <2>1. i \in 0 + 1 .. n /\ i - 1 \in 0 .. n
    OBVIOUS
  <2>2. PICK v \in Nat : v = f[i - 1]
    BY <2>1
  <2>3. step[i][v] = v * Base + s[i]
    BY <2>1
  <2> HIDE DEF step
  <2> QED BY <1>5, <2>1, <2>2, <2>3
<1>7. R(f)
  <2>1. \A i \in 0 .. n : f[i] = IF i = 0 THEN 0 ELSE f[i - 1] * Base + s[i]
    <3>1. \A i \in 0 .. n : i = 0 \/ i \in 1 .. n
      OBVIOUS
    <3> HIDE DEF step
    <3> QED BY <1>5, <1>6, <3>1
  <2> QED BY <2>1
<1> DEFINE g == CHOOSE h : R(h)
<1>8. R(g)
  <2> HIDE DEF R
  <2> QED BY <1>7
<1>9. FromBE(s) = g[n]
  <2>1. Len(s) = n
    BY FunctionIsSeq
  <2> QED BY <2>1 DEF FromBE
<1> HIDE DEF g
<1>10. g[0] = 0 /\ \A i \in 1 .. n : g[i] = g[i - 1] * Base + s[i]
  <2>1. \A i \in 1 .. n : i \in 0 .. n /\ i # 0
    OBVIOUS
  <2> QED BY <1>3, <1>8, <2>1
<1>11. \A i \in 0 .. n : g[i] \in Nat
  <2> DEFINE S == {i \in Nat : g[i] \in Nat}
  <2>1. 0 \in S
    BY <1>3, <1>10
  <2>2. ASSUME NEW i \in 0 .. n - 1, i \in S PROVE i + 1 \in S
    <3>1. i + 1 \in 1 .. n /\ (i + 1) - 1 = i /\ i + 1 \in Nat
      OBVIOUS
    <3>2. g[i + 1] = g[i] * Base + s[i + 1] /\ g[i] \in Nat /\ s[i + 1] \in Nat
      BY <1>1, <1>10, <2>2, <3>1
    <3>3. g[i] * Base \in Nat
      BY <3>2, BaseType, SMTT(60)
    <3> QED BY <3>1, <3>2, <3>3
  <2>3. \A i \in 0 .. n : i \in S
    <3> HIDE DEF S
    <3> QED BY <1>3, <2>1, <2>2, InductionFromTo
  <2> QED BY <2>3
<1> QED BY <1>9, <1>10, <1>11 DEF Evaluates

\* Bytes make a number.
LEMMA FromBEType ==
  ASSUME NEW s \in Seq(Byte)
  PROVE  FromBE(s) \in Nat
<1>1. PICK n \in Nat : s \in [1 .. n -> Byte]
  OBVIOUS
<1>2. PICK f : Evaluates(f, s, n)
  BY <1>1, FromBESteps
<1>3. n \in 0 .. n
  BY <1>1
<1> QED BY <1>2, <1>3 DEF Evaluates

\* Of four bytes, it is their word.
LEMMA FromBEOfFour ==
  ASSUME NEW s \in [1 .. 4 -> Byte]
  PROVE  FromBE(s) = FromBytes(s[1], s[2], s[3], s[4])
<1>1. PICK n \in Nat : n = 4
  OBVIOUS
<1>2. PICK f : Evaluates(f, s, n)
  <2>1. s \in [1 .. n -> Byte]
    BY <1>1
  <2> QED BY <2>1, FromBESteps
<1>3. \A i \in 1 .. 4 : f[i] = f[i - 1] * Base + s[i]
  BY <1>1, <1>2 DEF Evaluates
<1>4. f[0] = 0 /\ f[4] = FromBE(s)
  BY <1>1, <1>2 DEF Evaluates
<1>5. /\ f[1] = f[0] * Base + s[1] /\ f[2] = f[1] * Base + s[2]
      /\ f[3] = f[2] * Base + s[3] /\ f[4] = f[3] * Base + s[4]
  <2>1. 1 - 1 = 0 /\ 2 - 1 = 1 /\ 3 - 1 = 2 /\ 4 - 1 = 3 /\ 1 \in 1 .. 4 /\ 2 \in 1 .. 4
        /\ 3 \in 1 .. 4 /\ 4 \in 1 .. 4
    OBVIOUS
  <2> QED BY <1>3, <2>1
<1>6. f[1] = s[1]
  <2>1. s[1] \in Nat
    BY ByteNat
  <2> QED BY <1>4, <1>5, <2>1, BaseType
<1> QED BY <1>4, <1>5, <1>6 DEF FromBytes

\* A number below the size of a word survives the trip through its bytes.
LEMMA WordTrip ==
  ASSUME NEW n \in Word
  PROVE  FromBE(BEBytes(n)) = n
<1>1. BEBytes(n) \in [1 .. 4 -> Byte]
  BY WordNat, BEBytesType
<1> QED BY <1>1, FromBEOfFour, FromBEBytes

-----------------------------------------------------------------------------
(* The header on both sides of the wire.                                   *)

\* What is added above the low digit is not in it.
LEMMA AddedAbove ==
  ASSUME NEW x \in Nat, NEW c \in Nat, NEW b \in Nat, b > 0
  PROVE  (x + c * b) \div b = x \div b + c /\ (x + c * b) % b = x % b
<1>1. PICK q \in Nat, r \in 0 .. b - 1 : q = x \div b /\ r = x % b /\ x = q * b + r
  BY DivRemainder DEF Divides
<1>2. x + c * b = (q + c) * b + r /\ q + c \in Nat
  <2>1. (q + c) * b = q * b + c * b
    OBVIOUS
  <2>2. q * b \in Nat /\ c * b \in Nat /\ r \in Nat
    OBVIOUS
  <2> QED BY <1>1, <2>1, <2>2
<1>3. ((q + c) * b + r) \div b = q + c /\ ((q + c) * b + r) % b = r
  BY <1>2, DivUnique
<1> QED BY <1>1, <1>2, <1>3

\* The four low bytes of a number are those of its low word.
LEMMA LowBytes ==
  ASSUME NEW x \in Nat, NEW c \in Nat
  PROVE  BEBytes(x + c * Values) = BEBytes(x)
<1>1. Base \in Nat /\ Base > 0
  BY BaseType
<1>2. PICK c1 \in Nat, c2 \in Nat, c3 \in Nat, c4 \in Nat :
        c1 = c * Base /\ c2 = c1 * Base /\ c3 = c2 * Base /\ c4 = c3 * Base
  <2>1. \A d \in Nat : d * Base \in Nat
    BY <1>1
  <2> QED BY <2>1
<1>3. c * Values = c4
  BY <1>1, <1>2 DEF Values
<1>4. PICK y1 \in Nat, y2 \in Nat, y3 \in Nat :
        y1 = x \div Base /\ y2 = y1 \div Base /\ y3 = y2 \div Base
  BY <1>1, QuotientNat
<1>5. (x + c4) \div Base = y1 + c3 /\ (x + c4) % Base = x % Base
  BY <1>1, <1>2, <1>4, AddedAbove
<1>6. (y1 + c3) \div Base = y2 + c2 /\ (y1 + c3) % Base = y1 % Base
  BY <1>1, <1>2, <1>4, AddedAbove
<1>7. (y2 + c2) \div Base = y3 + c1 /\ (y2 + c2) % Base = y2 % Base
  BY <1>1, <1>2, <1>4, AddedAbove
<1>8. (y3 + c1) % Base = y3 % Base
  <2>1. /\ (y3 + c * Base) \div Base = y3 \div Base + c
        /\ (y3 + c * Base) % Base = y3 % Base
    BY <1>1, <1>4, AddedAbove
  <2> QED BY <1>2, <2>1
<1>9. x + c4 \in Nat
  BY <1>2
<1>10. BEBytes(x + c4) = <<(y3 + c1) % Base, (y2 + c2) % Base,
                           (y1 + c3) % Base, (x + c4) % Base>>
  BY <1>5, <1>6, <1>7, <1>9, BEBytesSteps
<1>11. BEBytes(x) = <<y3 % Base, y2 % Base, y1 % Base, x % Base>>
  BY <1>4, BEBytesSteps
<1> QED BY <1>3, <1>5, <1>6, <1>7, <1>8, <1>10, <1>11

\* The bytes of the word of four bytes are the four.
LEMMA BytesTrip ==
  ASSUME NEW a \in Byte, NEW b \in Byte, NEW c \in Byte, NEW d \in Byte
  PROVE  BEBytes(FromBytes(a, b, c, d)) = <<a, b, c, d>>
<1>1. Base \in Nat /\ Base > 0
  BY BaseType
<1>2. a \in Nat /\ b \in Nat /\ c \in Nat /\ d \in Nat
  BY ByteNat
<1>3. a \in 0 .. Base - 1 /\ b \in 0 .. Base - 1 /\ c \in 0 .. Base - 1 /\ d \in 0 .. Base - 1
  BY DEF Byte
<1>4. PICK p \in Nat, q \in Nat, n \in Nat :
        p = a * Base + b /\ q = p * Base + c /\ n = q * Base + d
  <2>1. \A x \in Nat : \A y \in Nat : x * Base + y \in Nat
    BY <1>1
  <2> QED BY <1>2, <2>1
<1>5. n \div Base = q /\ n % Base = d
  BY <1>1, <1>3, <1>4, DivUnique
<1>6. q \div Base = p /\ q % Base = c
  BY <1>1, <1>3, <1>4, DivUnique
<1>7. p \div Base = a /\ p % Base = b
  BY <1>1, <1>2, <1>3, <1>4, DivUnique
<1>8. a % Base = a
  BY <1>1, <1>2, <1>3
<1>9. BEBytes(n) = <<a, b, c, d>>
  BY <1>4, <1>5, <1>6, <1>7, <1>8, BEBytesSteps
<1> QED BY <1>4, <1>9 DEF FromBytes

\* Reversing four bytes.
LEMMA ReverseOfFour ==
  ASSUME NEW s \in [1 .. 4 -> Byte]
  PROVE  Reverse(s) = <<s[4], s[3], s[2], s[1]>> /\ Reverse(s) \in [1 .. 4 -> Byte]
<1>1. Len(s) = 4
  OBVIOUS
<1>2. Reverse(s) = [i \in 1 .. 4 |-> s[(4 - i) + 1]]
  BY <1>1 DEF Reverse
<1>3. Reverse(s) = <<s[4], s[3], s[2], s[1]>>
  BY <1>2
<1> QED BY <1>3

\* The extranonce1 the miner read from four bytes has these bytes.
LEMMA LETrip ==
  ASSUME NEW e \in [1 .. 4 -> Byte]
  PROVE  FromLE(e) \in Word /\ LEBytes(FromLE(e)) = e
<1>1. PICK r \in [1 .. 4 -> Byte] : r = Reverse(e) /\ r = <<e[4], e[3], e[2], e[1]>>
  BY ReverseOfFour
<1>2. PICK a \in Byte, b \in Byte, c \in Byte, d \in Byte :
        a = r[1] /\ b = r[2] /\ c = r[3] /\ d = r[4]
  BY <1>1
<1>3. FromLE(e) = FromBytes(a, b, c, d)
  BY <1>1, <1>2, FromBEOfFour DEF FromLE
<1>4. BEBytes(FromLE(e)) = r
  <2>1. BEBytes(FromLE(e)) = <<a, b, c, d>>
    BY <1>3, BytesTrip, SMTT(60)
  <2> QED BY <1>1, <1>2, <2>1
<1>5. Reverse(r) = e
  <2>1. Reverse(r) = <<r[4], r[3], r[2], r[1]>>
    BY <1>1, ReverseOfFour
  <2>2. r[4] = e[1] /\ r[3] = e[2] /\ r[2] = e[3] /\ r[1] = e[4]
    BY <1>1
  <2>3. e = <<e[1], e[2], e[3], e[4]>>
    OBVIOUS
  <2> QED BY <2>1, <2>2, <2>3
<1>6. FromLE(e) \in Word
  BY <1>3, FromBytesType
<1> QED BY <1>4, <1>5, <1>6 DEF LEBytes

\* The eight bytes of the composed extranonce are those the pool sent and those
\* the miner submits.
LEMMA ExtranonceBytes ==
  ASSUME NEW e \in [1 .. 4 -> Byte], NEW n \in Word
  PROVE  LE64(ComposeExtranonce(FromLE(e), n)) = e \o LEBytes(n)
<1>1. PICK x \in Word : x = FromLE(e) /\ LEBytes(x) = e
  BY LETrip
<1>2. x \in Nat /\ n \in Nat /\ Values \in Nat /\ Values > 0 /\ x \in 0 .. Values - 1
  BY WordNat, ValuesType DEF Word
<1>3. BEBytes(x + n * Values) = BEBytes(x)
  BY <1>2, LowBytes
<1>4. (x + n * Values) \div Values = n
  <2>1. (n * Values + x) \div Values = n
    BY <1>2, DivUnique
  <2>2. n * Values \in Nat
    BY <1>2
  <2>3. n * Values + x = x + n * Values
    BY <1>2, <2>2
  <2> QED BY <2>1, <2>3
<1> QED BY <1>1, <1>3, <1>4 DEF LE64, ComposeExtranonce, LEBytes

\* A u64 has eight bytes.
LEMMA LE64Type ==
  ASSUME NEW n \in Nat
  PROVE  LE64(n) \in [1 .. 8 -> Byte]
<1>1. n \div Values \in Nat
  BY ValuesType, QuotientNat
<1>2. PICK k \in Nat, m \in Nat : k = 4 /\ m = 8 /\ m = k + k
  OBVIOUS
<1>3. LEBytes(n) \in [1 .. k -> Byte] /\ LEBytes(n \div Values) \in [1 .. k -> Byte]
  BY <1>1, <1>2, LEBytesType
<1>4. LEBytes(n) \o LEBytes(n \div Values) \in [1 .. m -> Byte]
  BY <1>2, <1>3, JoinedFunctions
<1> QED BY <1>2, <1>4 DEF LE64

\* The root g of a branch of m nodes, for the bridge.
ClimbsTo(g, leaf, branch, m) ==
  /\ g[0] = leaf /\ \A k \in 1 .. m : g[k] = Sha256d(g[k - 1] \o branch[k])
  /\ \A k \in 0 .. m : g[k] \in Hash

\* The bridge climbs the branch one digest at a time.
LEMMA BridgeClimbs ==
  ASSUME NEW m \in Nat, NEW branch \in [1 .. m -> Hash], NEW leaf \in Hash
  PROVE  \E g : ClimbsTo(g, leaf, branch, m) /\ BridgeRoot(leaf, branch) = g[m]
<1> DEFINE step == [k \in 0 + 1 .. m |-> [h \in Hash |-> Sha256d(h \o branch[k])]]
           R(f) == f = [k \in 0 .. m |-> IF k = 0 THEN leaf
                                         ELSE Sha256d(f[k - 1] \o branch[k])]
<1>1. ASSUME NEW k \in 1 .. m, NEW h \in Hash PROVE Sha256d(h \o branch[k]) \in Hash
  <2>1. h \in Seq(Byte) /\ branch[k] \in Seq(Byte)
    BY DEF Hash
  <2>2. h \o branch[k] \in Seq(Byte)
    BY <2>1
  <2> QED BY <2>2, Sha256dType
<1>2. step \in [0 + 1 .. m -> [Hash -> Hash]]
  <2>1. \A k \in 0 + 1 .. m : k \in 1 .. m
    OBVIOUS
  <2> QED BY <1>1, <2>1
<1>3. 0 \in Nat /\ m \in Nat /\ 0 <= m /\ 0 \in 0 .. m /\ m \in 0 .. m
  OBVIOUS
<1>4. \E f : Follows(f, Hash, 0, m, leaf, step)
  <2> HIDE DEF step
  <2> QED BY <1>2, <1>3, RecursionExists
<1>5. PICK f \in [0 .. m -> Hash] :
        f[0] = leaf /\ \A k \in 0 + 1 .. m : f[k] = step[k][f[k - 1]]
  <2> HIDE DEF step
  <2> QED BY <1>4 DEF Follows
<1>6. \A k \in 1 .. m : f[k] = Sha256d(f[k - 1] \o branch[k])
  <2>1. \A k \in 1 .. m : k - 1 \in 0 .. m /\ k \in 0 + 1 .. m
    OBVIOUS
  <2>2. \A k \in 1 .. m : f[k - 1] \in Hash
    BY <2>1
  <2>3. \A k \in 1 .. m : step[k][f[k - 1]] = Sha256d(f[k - 1] \o branch[k])
    BY <2>1, <2>2
  <2> HIDE DEF step
  <2> QED BY <1>5, <2>1, <2>3
<1>7. R(f)
  <2>1. \A k \in 0 .. m : f[k] = IF k = 0 THEN leaf ELSE Sha256d(f[k - 1] \o branch[k])
    <3>1. \A k \in 0 .. m : k = 0 \/ k \in 1 .. m
      OBVIOUS
    <3> QED BY <1>5, <1>6, <3>1
  <2> QED BY <2>1
<1> DEFINE g == CHOOSE h : R(h)
<1>8. R(g)
  <2> HIDE DEF R
  <2> QED BY <1>7
<1>9. BridgeRoot(leaf, branch) = g[m]
  <2>1. Len(branch) = m
    BY FunctionIsSeq
  <2> QED BY <2>1 DEF BridgeRoot
<1> HIDE DEF g
<1>10. g[0] = leaf /\ \A k \in 1 .. m : g[k] = Sha256d(g[k - 1] \o branch[k])
  <2>1. \A k \in 1 .. m : k \in 0 .. m /\ k # 0
    OBVIOUS
  <2> QED BY <1>3, <1>8, <2>1
<1>11. \A k \in 0 .. m : g[k] \in Hash
  <2> DEFINE S == {k \in Nat : g[k] \in Hash}
  <2>1. 0 \in S
    BY <1>3, <1>10
  <2>2. ASSUME NEW k \in 0 .. m - 1, k \in S PROVE k + 1 \in S
    <3>1. k + 1 \in 1 .. m /\ (k + 1) - 1 = k /\ k + 1 \in Nat
      OBVIOUS
    <3>2. g[k + 1] = Sha256d(g[k] \o branch[k + 1]) /\ g[k] \in Hash
      BY <1>10, <2>2, <3>1
    <3> QED BY <1>1, <3>1, <3>2
  <2>3. \A k \in 0 .. m : k \in S
    <3> HIDE DEF S
    <3> QED BY <1>3, <2>1, <2>2, InductionFromTo
  <2> QED BY <2>3
<1> QED BY <1>9, <1>10, <1>11 DEF ClimbsTo

\* The miner climbs to the same root: its node stays the leftmost of its level.
LEMMA SameRoot ==
  ASSUME NEW m \in Nat, NEW branch \in [1 .. m -> Hash], NEW leaf \in Hash
  PROVE  /\ MerkleRoot(leaf, branch, 0) = BridgeRoot(leaf, branch)
         /\ MerkleRoot(leaf, branch, 0) \in Hash
<1>1. PICK g : ClimbsTo(g, leaf, branch, m) /\ BridgeRoot(leaf, branch) = g[m]
  BY BridgeClimbs
<1> DEFINE R(f) == f = [k \in 0 .. m |-> IF k = 0 THEN [hash |-> leaf, index |-> 0]
                                         ELSE Parent(f[k - 1], branch[k])]
           node == [k \in 0 .. m |-> [hash |-> g[k], index |-> 0]]
<1>2. 0 \in Nat /\ 0 \in 0 .. m /\ m \in 0 .. m
  OBVIOUS
<1>3. ASSUME NEW k \in 1 .. m PROVE node[k] = Parent(node[k - 1], branch[k])
  <2>1. k \in 0 .. m /\ k - 1 \in 0 .. m
    OBVIOUS
  <2>2. /\ node[k] = [hash |-> g[k], index |-> 0]
        /\ node[k - 1] = [hash |-> g[k - 1], index |-> 0]
    BY <2>1
  <2> HIDE DEF node
  <2>3. node[k - 1].hash = g[k - 1] /\ node[k - 1].index = 0
    BY <2>2
  <2>4. 0 % 2 = 0 /\ 0 \div 2 = 0
    OBVIOUS
  <2>5. Parent(node[k - 1], branch[k])
          = [hash |-> Sha256d(g[k - 1] \o branch[k]), index |-> 0]
    BY <2>3, <2>4 DEF Parent
  <2> QED BY <1>1, <2>2, <2>5 DEF ClimbsTo
<1>4. node[0] = [hash |-> leaf, index |-> 0]
  BY <1>1, <1>2 DEF ClimbsTo
<1>5. R(node)
  <2>1. \A k \in 0 .. m : node[k] = IF k = 0 THEN [hash |-> leaf, index |-> 0]
                                    ELSE Parent(node[k - 1], branch[k])
    <3>1. \A k \in 0 .. m : k = 0 \/ k \in 1 .. m
      OBVIOUS
    <3> HIDE DEF node
    <3> QED BY <1>3, <1>4, <3>1
  <2> QED BY <2>1
<1> DEFINE f == CHOOSE h : R(h)
<1>6. R(f)
  <2> HIDE DEF R, node
  <2> QED BY <1>5
<1>7. MerkleRoot(leaf, branch, 0) = f[m].hash
  <2>1. Len(branch) = m
    BY FunctionIsSeq
  <2> QED BY <2>1 DEF MerkleRoot
<1> HIDE DEF f
<1>8. /\ f[0] = [hash |-> leaf, index |-> 0]
      /\ \A k \in 1 .. m : f[k] = Parent(f[k - 1], branch[k])
  <2>1. \A k \in 1 .. m : k \in 0 .. m /\ k # 0
    OBVIOUS
  <2> QED BY <1>2, <1>6, <2>1
<1>9. SameFrom(f, node, 0, m)
  <2>1. f[0] = node[0]
    BY <1>4, <1>8
  <2>2. SameSteps(f, node, 0, m)
    <3>1. \A k \in 0 + 1 .. m : k \in 1 .. m
      OBVIOUS
    <3> HIDE DEF node
    <3> QED BY <1>3, <1>8, <3>1 DEF SameSteps
  <2> HIDE DEF node
  <2> QED BY <1>2, <2>1, <2>2, RecursionUnique
<1>10. f[m] = [hash |-> g[m], index |-> 0]
  <2>1. f[m] = node[m]
    <3> HIDE DEF node
    <3> QED BY <1>2, <1>9 DEF SameFrom
  <2> QED BY <1>2, <2>1
<1>11. f[m].hash = g[m] /\ g[m] \in Hash
  BY <1>1, <1>2, <1>10 DEF ClimbsTo
<1> QED BY <1>1, <1>7, <1>11

\* A job that can be mapped, with everything its header needs.
Frames(job) ==
  LET o == job.offer IN
  /\ Mappable(job)
  /\ {o.version, o.nbits, o.ntime, o.prev, o.coinb1, o.coinb2, job.extranonce1} \subseteq Hex
  /\ o.branch \in Seq(Hex)

\* What a job that can be mapped is made of.
LEMMA FrameTypes ==
  ASSUME NEW job, Frames(job)
  PROVE  LET o == job.offer IN
         /\ o.version \in Seq(Byte) /\ FromBE(o.version) \in Word
         /\ o.nbits \in Seq(Byte) /\ FromBE(o.nbits) \in Word
         /\ o.ntime \in Seq(Byte) /\ FromBE(o.ntime) \in Word
         /\ o.prev \in [1 .. 32 -> Byte]
         /\ o.coinb1 \in Seq(Byte) /\ o.coinb2 \in Seq(Byte)
         /\ \E m \in Nat : o.branch \in [1 .. m -> Hash]
         /\ job.extranonce1 \in [1 .. 4 -> Byte]
<1> DEFINE o == job.offer
<1>1. ASSUME NEW s \in Hex, Radix(s) PROVE s \in Seq(Byte) /\ FromBE(s) \in Word
  <2>1. s \in Seq(Byte) /\ FromBE(s) < Values
    BY <1>1 DEF Radix, Hex
  <2>2. FromBE(s) \in Nat
    BY <2>1, FromBEType
  <2> QED BY <2>1, <2>2, ValuesType DEF Word
<1>2. ASSUME NEW s \in Hex, NEW k \in Nat, Bytes(s, k) PROVE s \in [1 .. k -> Byte]
  <2>1. s \in Seq(Byte) /\ Len(s) = k
    BY <1>2 DEF Bytes, Hex
  <2> QED BY <2>1, SeqIsFunction
<1>3. /\ o.version \in Hex /\ o.nbits \in Hex /\ o.ntime \in Hex /\ o.prev \in Hex
      /\ o.coinb1 \in Hex /\ o.coinb2 \in Hex /\ job.extranonce1 \in Hex
      /\ o.branch \in Seq(Hex)
  BY DEF Frames
<1>4. /\ Radix(o.version) /\ Radix(o.nbits) /\ Radix(o.ntime)
      /\ Bytes(o.prev, 32) /\ Bytes(job.extranonce1, 4)
      /\ o.coinb1 # NotHex /\ o.coinb2 # NotHex
      /\ \A i \in 1 .. Len(o.branch) : Bytes(o.branch[i], 32)
  BY DEF Frames, Mappable
<1>5. o.prev \in [1 .. 32 -> Byte] /\ job.extranonce1 \in [1 .. 4 -> Byte]
  <2>1. 32 \in Nat /\ 4 \in Nat
    OBVIOUS
  <2> HIDE DEF o
  <2> QED BY <1>2, <1>3, <1>4, <2>1
<1>6. PICK m \in Nat : m = Len(o.branch) /\ o.branch \in [1 .. m -> Hex]
  <2> HIDE DEF o
  <2> QED BY <1>3
<1>7. o.branch \in [1 .. m -> Hash]
  <2> SUFFICES ASSUME NEW i \in 1 .. m PROVE o.branch[i] \in Hash
    BY <1>6
  <2>1. PICK b : b = o.branch[i] /\ b \in Hex /\ Bytes(b, 32)
    BY <1>4, <1>6
  <2>2. b \in Seq(Byte) /\ Len(b) = 32
    BY <2>1 DEF Bytes, Hex
  <2> QED BY <2>1, <2>2 DEF Hash
<1>8. o.coinb1 \in Seq(Byte) /\ o.coinb2 \in Seq(Byte)
  BY <1>3, <1>4 DEF Hex
<1>9. /\ o.version \in Seq(Byte) /\ FromBE(o.version) \in Word
      /\ o.nbits \in Seq(Byte) /\ FromBE(o.nbits) \in Word
      /\ o.ntime \in Seq(Byte) /\ FromBE(o.ntime) \in Word
  <2> HIDE DEF o
  <2> QED BY <1>1, <1>3, <1>4
<1> QED BY <1>5, <1>7, <1>8, <1>9

\* The miner's header for a nonce is the first 80 bytes and the nonce, and the
\* first 80 do not depend on it.
HeaderFront(w, n) ==
  LEBytes(w.version) \o w.prev \o MerkleRoot(CoinbaseTxid(w, n), w.branch, 0)
    \o LE64(w.time) \o LEBytes(w.bits)

\* Five pieces of 4, 32, 32, 8 and 4 bytes make 80.
LEMMA FivePieces ==
  ASSUME NEW a \in [1 .. 4 -> Byte], NEW b \in [1 .. 32 -> Byte], NEW c \in [1 .. 32 -> Byte],
         NEW d \in [1 .. 8 -> Byte], NEW e \in [1 .. 4 -> Byte]
  PROVE  a \o b \o c \o d \o e \in [1 .. 80 -> Byte]
<1>1. PICK i \in Nat, j \in Nat, k \in Nat, p \in Nat, q \in Nat, r \in Nat, s \in Nat :
        /\ i = 4 /\ j = 32 /\ k = 8 /\ p = 36 /\ q = 68 /\ r = 76 /\ s = 80
        /\ p = i + j /\ q = p + j /\ r = q + k /\ s = r + i
  OBVIOUS
<1>2. /\ a \in [1 .. i -> Byte] /\ b \in [1 .. j -> Byte] /\ c \in [1 .. j -> Byte]
      /\ d \in [1 .. k -> Byte] /\ e \in [1 .. i -> Byte]
  BY <1>1
<1>3. p = i + j /\ q = p + j /\ r = q + k /\ s = r + i
  BY <1>1
<1>4. PICK u \in [1 .. p -> Byte] : u = a \o b
  BY <1>2, <1>3, JoinedFunctions
<1>5. PICK v \in [1 .. q -> Byte] : v = u \o c
  BY <1>2, <1>3, JoinedFunctions
<1>6. PICK w \in [1 .. r -> Byte] : w = v \o d
  BY <1>2, <1>3, JoinedFunctions
<1>7. w \o e \in [1 .. s -> Byte]
  BY <1>2, <1>3, JoinedFunctions
<1> QED BY <1>1, <1>4, <1>5, <1>6, <1>7

\* The two headers are the same bytes, and the miner's has the shape the devices
\* rely on.
THEOREM SameHeader ==
  ASSUME NEW job, Frames(job), NEW d, NEW n \in Word, NEW nonce \in Word
  PROVE  LET w == Mapped(job, d) IN
         /\ HeaderFront(w, n) \in [1 .. 80 -> Byte]
         /\ HeaderOf(w, n, nonce) = BridgeHeader(job, BuildSubmit(w, n, nonce))
<1>1. PICK o, e, w, f : /\ o = job.offer /\ e = job.extranonce1 /\ w = Mapped(job, d)
                        /\ f = BuildSubmit(w, n, nonce)
  OBVIOUS
<1>2. /\ FromBE(o.version) \in Word /\ FromBE(o.nbits) \in Word /\ FromBE(o.ntime) \in Word
      /\ o.prev \in [1 .. 32 -> Byte] /\ o.coinb1 \in Seq(Byte) /\ o.coinb2 \in Seq(Byte)
      /\ e \in [1 .. 4 -> Byte]
  BY <1>1, FrameTypes
<1>3. PICK m \in Nat : o.branch \in [1 .. m -> Hash]
  BY <1>1, FrameTypes
<1>4. /\ w.version = FromBE(o.version) /\ w.bits = FromBE(o.nbits) /\ w.time = FromBE(o.ntime)
      /\ w.prev = Reverse(o.prev) /\ w.prefix = o.coinb1 /\ w.suffix = o.coinb2
      /\ w.branch = o.branch /\ w.xn1 = FromLE(e)
  BY <1>1 DEF Mapped
<1>5. f.xn2 = LEBytes(n) /\ f.ntime = BEBytes(w.time % Values) /\ f.nonce = BEBytes(nonce)
  BY <1>1 DEF BuildSubmit
<1>6. PICK leaf : leaf = Sha256d(o.coinb1 \o e \o f.xn2 \o o.coinb2)
  OBVIOUS
<1>7. leaf \in Hash /\ CoinbaseTxid(w, n) = leaf
  <2>1. PICK x : x = LEBytes(n) /\ x \in Seq(Byte)
    <3>1. n \in Nat /\ 4 \in Nat
      BY WordNat
    <3>2. LEBytes(n) \in [1 .. 4 -> Byte]
      BY <3>1, LEBytesType
    <3> QED BY <3>1, <3>2, FunctionIsSeq
  <2>2. e \in Seq(Byte)
    <3>1. 4 \in Nat
      OBVIOUS
    <3> QED BY <1>2, <3>1, FunctionIsSeq
  <2>3. LE64(ComposeExtranonce(FromLE(e), n)) = e \o x
    BY <1>2, <2>1, ExtranonceBytes
  <2>4. (o.coinb1 \o e) \o x = o.coinb1 \o (e \o x)
    <3>1. ASSUME NEW s \in Seq(Byte), NEW t \in Seq(Byte), NEW u \in Seq(Byte)
          PROVE  (s \o t) \o u = s \o (t \o u)
      BY SMTT(60)
    <3>2. o.coinb1 \in Seq(Byte) /\ x \in Seq(Byte)
      BY <1>2, <2>1
    <3> QED BY <2>2, <3>1, <3>2, Zenon
  <2>5. CoinbaseTxid(w, n) = leaf
    BY <1>4, <1>5, <1>6, <2>1, <2>3, <2>4 DEF CoinbaseTxid
  <2>6. o.coinb1 \o e \o x \o o.coinb2 \in Seq(Byte)
    BY <1>2, <2>1, <2>2
  <2> QED BY <1>5, <1>6, <2>1, <2>5, <2>6, Sha256dType
<1>8. PICK root : /\ root = MerkleRoot(leaf, o.branch, 0) /\ root \in Hash
                  /\ root = BridgeRoot(leaf, o.branch)
  BY <1>3, <1>7, SameRoot
<1>9. FromBE(f.ntime) = w.time
  <2>1. PICK t \in Word : t = w.time
    BY <1>2, <1>4
  <2>2. t % Values = t
    BY ValuesType DEF Word
  <2> QED BY <1>5, <2>1, <2>2, WordTrip
<1>10. HeaderFront(w, n) = LEBytes(FromBE(o.version)) \o Reverse(o.prev) \o root
                       \o LE64(FromBE(f.ntime)) \o LEBytes(FromBE(o.nbits))
  BY <1>4, <1>7, <1>8, <1>9 DEF HeaderFront
<1>11. HeaderOf(w, n, nonce) = HeaderFront(w, n) \o LEBytes(nonce)
  BY SMTT(60) DEF HeaderOf, Header84, HeaderFront
<1>12. BridgeHeader(job, f) = LEBytes(FromBE(o.version)) \o Reverse(o.prev) \o root
                       \o LE64(FromBE(f.ntime)) \o LEBytes(FromBE(o.nbits)) \o Reverse(f.nonce)
  BY <1>1, <1>6, <1>8, ZenonT(60) DEF BridgeHeader
<1>13. Reverse(f.nonce) = LEBytes(nonce)
  BY <1>5 DEF LEBytes
<1>14. HeaderOf(w, n, nonce) = BridgeHeader(job, f)
  BY <1>10, <1>11, <1>12, <1>13, SMTT(60)
<1>15. HeaderFront(w, n) \in [1 .. 80 -> Byte]
  <2>1. /\ LEBytes(w.version) \in [1 .. 4 -> Byte] /\ LEBytes(w.bits) \in [1 .. 4 -> Byte]
        /\ LE64(w.time) \in [1 .. 8 -> Byte]
    <3>1. w.version \in Nat /\ w.bits \in Nat /\ w.time \in Nat
      BY <1>2, <1>4, WordNat
    <3> QED BY <3>1, LEBytesType, LE64Type
  <2>2. w.prev \in [1 .. 32 -> Byte]
    <3>1. PICK k \in Nat : k = 32
      OBVIOUS
    <3>2. PICK p \in [1 .. k -> Byte] : p = o.prev
      BY <1>2, <3>1
    <3>3. Len(p) = k
      OBVIOUS
    <3>4. Reverse(p) = [i \in 1 .. k |-> p[(k - i) + 1]]
      BY <3>3 DEF Reverse
    <3>5. Reverse(p) \in [1 .. k -> Byte]
      <4>1. \A i \in 1 .. k : (k - i) + 1 \in 1 .. k
        OBVIOUS
      <4> QED BY <3>4, <4>1
    <3> QED BY <1>4, <3>1, <3>2, <3>5
  <2>3. root \in [1 .. 32 -> Byte]
    <3>1. PICK k \in Nat : k = 32
      OBVIOUS
    <3>2. root \in Seq(Byte) /\ Len(root) = k
      BY <1>8, <3>1 DEF Hash
    <3>3. root \in [1 .. k -> Byte]
      BY <3>2, SeqIsFunction
    <3> QED BY <3>1, <3>3
  <2>4. HeaderFront(w, n) = LEBytes(w.version) \o w.prev \o root
                              \o LE64(w.time) \o LEBytes(w.bits)
    BY <1>4, <1>7, <1>8 DEF HeaderFront
  <2>5. PICK a, b, c, x : /\ a = LEBytes(w.version) /\ b = w.prev /\ c = LE64(w.time)
                          /\ x = LEBytes(w.bits)
    OBVIOUS
  <2>6. a \o b \o root \o c \o x \in [1 .. 80 -> Byte]
    BY <2>1, <2>2, <2>3, <2>5, FivePieces
  <2> QED BY <2>4, <2>5, <2>6
<1> QED BY <1>1, <1>14, <1>15

-----------------------------------------------------------------------------
(* The target.                                                             *)

\* v holds the values of the first digits of s, which has n.
Sums(v, s, n) ==
  /\ v[0] = 0 /\ \A i \in 1 .. n : v[i] = v[i - 1] * Base + s[i]
  /\ \A i \in 0 .. n : v[i] \in Nat

\* Only the first digit may be beyond a byte.
Small(s, n) == \A i \in 2 .. n : s[i] < Base

\* The first n digits are the same, or the first that differs is less.
Equal(a, b, n) == \A i \in 1 .. n : a[i] = b[i]
Less(a, b, n) == \E i \in 1 .. n : a[i] < b[i] /\ \A j \in 1 .. i - 1 : a[j] = b[j]

\* The digits and the numbers they make compare alike.
Compared(a, b, va, vb, n) ==
  \/ Equal(a, b, n) /\ va[n] = vb[n]
  \/ Less(a, b, n) /\ va[n] < vb[n]
  \/ Less(b, a, n) /\ vb[n] < va[n]

\* A digit does not make up for the digits before it.
LEMMA NextDigit ==
  ASSUME NEW B \in Nat, NEW x \in Nat, NEW y \in Nat, NEW a \in Nat, NEW b \in Nat,
         a < B, x < y
  PROVE  x * B + a < y * B + b
<1>1. PICK z \in Nat : y = x + 1 + z
  <2>1. y - x - 1 \in Nat /\ y = x + 1 + (y - x - 1)
    OBVIOUS
  <2> QED BY <2>1
<1>2. y * B = x * B + B + z * B
  BY <1>1
<1>3. x * B \in Nat /\ z * B \in Nat
  OBVIOUS
<1> QED BY <1>2, <1>3

\* What is decided stays decided as digits follow.
LEMMA LessLater ==
  ASSUME NEW k \in Nat, NEW a, NEW b, Less(a, b, k)
  PROVE  Less(a, b, k + 1)
<1>1. PICK i \in 1 .. k : a[i] < b[i] /\ \A j \in 1 .. i - 1 : a[j] = b[j]
  BY DEF Less
<1>2. i \in 1 .. k + 1
  OBVIOUS
<1> QED BY <1>1, <1>2 DEF Less

\* The first digit that differs decides.
LEMMA LessHere ==
  ASSUME NEW k \in Nat, NEW a, NEW b, Equal(a, b, k), a[k + 1] < b[k + 1]
  PROVE  Less(a, b, k + 1)
<1>1. k + 1 \in 1 .. k + 1 /\ (k + 1) - 1 = k
  OBVIOUS
<1> QED BY <1>1 DEF Less, Equal

\* Being equal is symmetric.
LEMMA EqualSym ==
  ASSUME NEW k \in Nat, NEW a, NEW b, Equal(a, b, k)
  PROVE  Equal(b, a, k)
BY DEF Equal

\* Digits compare as the numbers they make, when only the first may be beyond a
\* byte.
LEMMA Compares ==
  ASSUME NEW n \in Nat, NEW a \in [1 .. n -> Nat], NEW b \in [1 .. n -> Nat],
         Small(a, n), Small(b, n), NEW va, NEW vb, Sums(va, a, n), Sums(vb, b, n)
  PROVE  Compared(a, b, va, vb, n)
<1> DEFINE S == {k \in Nat : Compared(a, b, va, vb, k)}
<1>1. 0 \in S
  BY DEF Compared, Equal, Sums
<1>2. ASSUME NEW k \in 0 .. n - 1, k \in S PROVE k + 1 \in S
  <2>1. k \in Nat /\ k \in 0 .. n /\ k + 1 \in 1 .. n /\ (k + 1) - 1 = k /\ k + 1 \in Nat
    OBVIOUS
  <2>2. Compared(a, b, va, vb, k)
    BY <1>2
  <2> SUFFICES Compared(a, b, va, vb, k + 1)
    BY <2>1
  <2> HIDE DEF S
  <2>3. PICK x \in Nat, y \in Nat, p \in Nat, q \in Nat, xb \in Nat, yb \in Nat :
          /\ x = va[k] /\ y = vb[k] /\ p = a[k + 1] /\ q = b[k + 1]
          /\ xb = x * Base /\ yb = y * Base
          /\ va[k + 1] = xb + p /\ vb[k + 1] = yb + q
    <3>1. va[k] \in Nat /\ vb[k] \in Nat /\ a[k + 1] \in Nat /\ b[k + 1] \in Nat
      BY <2>1 DEF Sums
    <3>2. va[k] * Base \in Nat /\ vb[k] * Base \in Nat
      BY <3>1, BaseType, SMTT(60)
    <3>3. /\ va[k + 1] = va[k] * Base + a[k + 1] /\ vb[k + 1] = vb[k] * Base + b[k + 1]
      <4>1. va[k + 1] = va[(k + 1) - 1] * Base + a[k + 1]
            /\ vb[k + 1] = vb[(k + 1) - 1] * Base + b[k + 1]
        BY <2>1 DEF Sums
      <4> QED BY <2>1, <4>1
    <3> QED BY <3>1, <3>2, <3>3
  <2>4. x # y => p < Base /\ q < Base
    <3> SUFFICES ASSUME x # y PROVE p < Base /\ q < Base
      OBVIOUS
    <3>1. k # 0
      BY <2>3 DEF Sums
    <3>2. k + 1 \in 2 .. n
      BY <2>1, <3>1
    <3> QED BY <2>3, <3>2 DEF Small
  <2>5. CASE Equal(a, b, k) /\ x = y
    <3>1. CASE p < q
      <4>1. Less(a, b, k + 1)
        BY <2>1, <2>3, <2>5, <3>1, LessHere
      <4>2. va[k + 1] < vb[k + 1]
        BY <2>3, <2>5, <3>1, SMTT(60)
      <4> QED BY <4>1, <4>2 DEF Compared
    <3>2. CASE q < p
      <4>1. Less(b, a, k + 1)
        BY <2>1, <2>3, <2>5, <3>2, EqualSym, LessHere
      <4>2. vb[k + 1] < va[k + 1]
        BY <2>3, <2>5, <3>2, SMTT(60)
      <4> QED BY <4>1, <4>2 DEF Compared
    <3>3. CASE p = q
      <4>1. Equal(a, b, k + 1)
        <5> SUFFICES ASSUME NEW i \in 1 .. k + 1 PROVE a[i] = b[i]
          BY DEF Equal
        <5>1. i \in 1 .. k \/ i = k + 1
          BY <2>1
        <5> QED BY <2>3, <2>5, <3>3, <5>1 DEF Equal
      <4>2. va[k + 1] = vb[k + 1]
        BY <2>3, <2>5, <3>3
      <4> QED BY <4>1, <4>2 DEF Compared
    <3> QED BY <2>3, <3>1, <3>2, <3>3
  <2>6. CASE Less(a, b, k) /\ x < y
    <3>1. Less(a, b, k + 1)
      BY <2>1, <2>6, LessLater
    <3>2. va[k + 1] < vb[k + 1]
      <4>1. p < Base
        BY <2>3, <2>4, <2>6
      <4>2. x * Base + p < y * Base + q
        BY <2>3, <2>6, <4>1, BaseType, NextDigit
      <4> QED BY <2>3, <4>2
    <3> QED BY <3>1, <3>2 DEF Compared
  <2>7. CASE Less(b, a, k) /\ y < x
    <3>1. Less(b, a, k + 1)
      BY <2>1, <2>7, LessLater
    <3>2. vb[k + 1] < va[k + 1]
      <4>1. q < Base
        BY <2>3, <2>4, <2>7
      <4>2. y * Base + q < x * Base + p
        BY <2>3, <2>7, <4>1, BaseType, NextDigit
      <4> QED BY <2>3, <4>2
    <3> QED BY <3>1, <3>2 DEF Compared
  <2>8. \/ Equal(a, b, k) /\ x = y
        \/ Less(a, b, k) /\ x < y
        \/ Less(b, a, k) /\ y < x
    BY <2>2, <2>3 DEF Compared
  <2> QED BY <2>5, <2>6, <2>7, <2>8
<1>3. 0 \in Nat /\ n \in 0 .. n
  OBVIOUS
<1>4. \A k \in 0 .. n : k \in S
  <2> HIDE DEF S
  <2> QED BY <1>1, <1>2, <1>3, InductionFromTo
<1> QED BY <1>3, <1>4

\* The bridge compares numbers.
LEMMA AtMostCompares ==
  ASSUME NEW n \in Nat, NEW a \in [1 .. n -> Nat], NEW b \in [1 .. n -> Nat],
         NEW va, NEW vb, Sums(va, a, n), Sums(vb, b, n), Compared(a, b, va, vb, n)
  PROVE  AtMost(a, b) <=> va[n] <= vb[n]
<1>1. PICK x \in Nat, y \in Nat : x = va[n] /\ y = vb[n]
  <2>1. n \in 0 .. n
    OBVIOUS
  <2> QED BY <2>1 DEF Sums
<1>2. CASE Equal(a, b, n) /\ x = y
  <2>1. a = b
    <3>1. PICK D : D = 1 .. n
      OBVIOUS
    <3>2. \A i \in D : a[i] = b[i]
      BY <1>2, <3>1 DEF Equal
    <3> QED BY <3>1, <3>2, SameFunction
  <2> QED BY <1>1, <1>2, <2>1 DEF AtMost
<1>3. CASE Less(a, b, n) /\ x < y
  <2>1. DOMAIN a = 1 .. n
    OBVIOUS
  <2> QED BY <1>1, <1>3, <2>1, SMTT(60) DEF AtMost, Less
<1>4. CASE Less(b, a, n) /\ y < x
  <2>1. PICK i \in 1 .. n : b[i] < a[i] /\ \A j \in 1 .. i - 1 : b[j] = a[j]
    BY <1>4 DEF Less
  <2>2. a[i] \in Nat /\ b[i] \in Nat
    OBVIOUS
  <2>3. a # b
    BY <2>1, <2>2
  <2>4. ASSUME NEW k \in 1 .. n, a[k] < b[k], \A j \in 1 .. k - 1 : a[j] = b[j]
        PROVE  FALSE
    <3>1. a[k] \in Nat /\ b[k] \in Nat
      OBVIOUS
    <3>2. k < i \/ i < k \/ i = k
      OBVIOUS
    <3>3. CASE k < i
      <4>1. k \in 1 .. i - 1
        BY <3>3
      <4> QED BY <2>1, <2>4, <3>1, <4>1
    <3>4. CASE i < k
      <4>1. i \in 1 .. k - 1
        BY <3>4
      <4> QED BY <2>1, <2>2, <2>4, <4>1
    <3>5. CASE i = k
      BY <2>1, <2>4, <3>1, <3>5
    <3> QED BY <3>2, <3>3, <3>4, <3>5
  <2>5. DOMAIN a = 1 .. n
    OBVIOUS
  <2>6. ~AtMost(a, b)
    BY <2>3, <2>4, <2>5 DEF AtMost
  <2> QED BY <1>1, <1>4, <2>6
<1> QED BY <1>1, <1>2, <1>3, <1>4 DEF Compared

\* And so does the miner, byte by byte.
LEMMA HashLeqCompares ==
  ASSUME NEW a \in [1 .. 32 -> Nat], NEW b \in [1 .. 32 -> Nat],
         NEW va, NEW vb, Sums(va, a, 32), Sums(vb, b, 32), Compared(a, b, va, vb, 32)
  PROVE  HashLeqTarget(a, b) <=> va[32] <= vb[32]
<1>1. PICK x \in Nat, y \in Nat : x = va[32] /\ y = vb[32]
  BY DEF Sums
<1>2. CASE Equal(a, b, 32) /\ x = y
  <2>1. \A i \in 1 .. 32 : a[i] \in Nat /\ b[i] \in Nat
    OBVIOUS
  <2>2. \A i \in 1 .. 32 : a[i] <= b[i]
    BY <1>2, <2>1 DEF Equal
  <2> QED BY <1>1, <1>2, <2>2 DEF HashLeqTarget
<1>3. CASE Less(a, b, 32) /\ x < y
  <2>1. PICK i \in 1 .. 32 : a[i] < b[i] /\ \A j \in 1 .. i - 1 : a[j] = b[j]
    BY <1>3 DEF Less
  <2>2. a[i] \in Nat /\ b[i] \in Nat
    OBVIOUS
  <2>3. ASSUME NEW k \in 1 .. 32, \A j \in 1 .. k - 1 : a[j] = b[j]
        PROVE  a[k] <= b[k]
    <3>1. a[k] \in Nat /\ b[k] \in Nat
      OBVIOUS
    <3>2. k < i \/ i < k \/ i = k
      OBVIOUS
    <3>3. CASE k < i
      <4>1. k \in 1 .. i - 1
        BY <3>3
      <4> QED BY <2>1, <3>1, <4>1
    <3>4. CASE i < k
      <4>1. i \in 1 .. k - 1
        BY <3>4
      <4> QED BY <2>1, <2>2, <2>3, <4>1
    <3>5. CASE i = k
      BY <2>1, <3>1, <3>5
    <3> QED BY <3>2, <3>3, <3>4, <3>5
  <2>4. HashLeqTarget(a, b)
    BY <2>3, ZenonT(60) DEF HashLeqTarget
  <2> QED BY <1>1, <1>3, <2>4
<1>4. CASE Less(b, a, 32) /\ y < x
  <2>1. PICK i \in 1 .. 32 : b[i] < a[i] /\ \A j \in 1 .. i - 1 : b[j] = a[j]
    BY <1>4 DEF Less
  <2>2. a[i] \in Nat /\ b[i] \in Nat
    OBVIOUS
  <2>3. ~(a[i] <= b[i])
    BY <2>1, <2>2
  <2>4. ~HashLeqTarget(a, b)
    BY <2>1, <2>3 DEF HashLeqTarget
  <2> QED BY <1>1, <1>4, <2>4
<1> QED BY <1>1, <1>2, <1>3, <1>4 DEF Compared

\* A number times the values of a digit, and a digit.
LEMMA DigitNat ==
  ASSUME NEW v \in Nat, NEW b \in Nat
  PROVE  v * Base + b \in Nat
<1>1. v * Base \in Nat
  BY BaseType, SMTT(60)
<1> QED BY <1>1

\* rem holds what is left after each digit of the long division of p by d.
Remains(rem, p, d) ==
  /\ rem[0] = 0
  /\ \A i \in 1 .. 32 : rem[i] = (rem[i - 1] * Base + p[i]) % d
  /\ \A i \in 0 .. 32 : rem[i] \in 0 .. d - 1
\* The digits of the quotient, from what is left before each.
QuotientOf(rem, p, d) == [i \in 1 .. 32 |-> ((rem[i - 1] * Base + p[i]) \div d) % Base]

\* The long division is made of what each digit leaves.
LEMMA QuotientSteps ==
  ASSUME NEW p \in [1 .. 32 -> Byte], NEW d \in Nat, d > 0
  PROVE  \E rem : Remains(rem, p, d) /\ Quotient(p, d) = QuotientOf(rem, p, d)
<1> DEFINE T == 0 .. d - 1
           step == [i \in 0 + 1 .. 32 |-> [v \in T |-> (v * Base + p[i]) % d]]
           R(f) == f = [i \in 0 .. 32 |-> IF i = 0 THEN 0 ELSE (f[i - 1] * Base + p[i]) % d]
<1>1. \A i \in 1 .. 32 : p[i] \in Nat
  BY ByteNat
<1>2. ASSUME NEW i \in 1 .. 32, NEW v \in T PROVE (v * Base + p[i]) % d \in T
  <2>1. v \in Nat /\ p[i] \in Nat
    BY <1>1
  <2>2. v * Base + p[i] \in Nat
    BY <2>1, DigitNat
  <2> QED BY <2>2, Remainder
<1>3. step \in [0 + 1 .. 32 -> [T -> T]]
  <2>1. \A i \in 0 + 1 .. 32 : i \in 1 .. 32
    OBVIOUS
  <2> HIDE DEF T
  <2> QED BY <1>2, <2>1
<1>4. 0 \in Nat /\ 32 \in Nat /\ 0 <= 32 /\ 0 \in 0 .. 32 /\ 32 \in 0 .. 32 /\ 0 \in T
  OBVIOUS
<1>5. \E f : Follows(f, T, 0, 32, 0, step)
  <2> HIDE DEF step, T
  <2> QED BY <1>3, <1>4, RecursionExists
<1>6. PICK f \in [0 .. 32 -> T] :
        f[0] = 0 /\ \A i \in 0 + 1 .. 32 : f[i] = step[i][f[i - 1]]
  <2> HIDE DEF step, T
  <2> QED BY <1>5 DEF Follows
<1>7. \A i \in 1 .. 32 : f[i] = (f[i - 1] * Base + p[i]) % d
  <2> SUFFICES ASSUME NEW i \in 1 .. 32 PROVE f[i] = (f[i - 1] * Base + p[i]) % d
    OBVIOUS
  <2>1. i \in 0 + 1 .. 32 /\ i - 1 \in 0 .. 32
    OBVIOUS
  <2>2. PICK v \in T : v = f[i - 1]
    BY <2>1
  <2> HIDE DEF T
  <2>3. step[i][v] = (v * Base + p[i]) % d
    BY <2>1
  <2> HIDE DEF step
  <2> QED BY <1>6, <2>1, <2>2, <2>3
<1>8. R(f)
  <2>1. \A i \in 0 .. 32 : f[i] = IF i = 0 THEN 0 ELSE (f[i - 1] * Base + p[i]) % d
    <3>1. \A i \in 0 .. 32 : i = 0 \/ i \in 1 .. 32
      OBVIOUS
    <3> HIDE DEF step, T
    <3> QED BY <1>6, <1>7, <3>1
  <2> QED BY <2>1
<1> DEFINE g == CHOOSE h : R(h)
<1>9. R(g)
  <2> HIDE DEF R
  <2> QED BY <1>8
<1>10. Quotient(p, d) = QuotientOf(g, p, d)
  BY SMTT(60) DEF Quotient, QuotientOf
<1> HIDE DEF g
<1>11. g[0] = 0 /\ \A i \in 1 .. 32 : g[i] = (g[i - 1] * Base + p[i]) % d
  <2>1. \A i \in 1 .. 32 : i \in 0 .. 32 /\ i # 0
    OBVIOUS
  <2> QED BY <1>4, <1>9, <2>1
<1>12. \A i \in 0 .. 32 : g[i] \in T
  <2> DEFINE S == {i \in Nat : g[i] \in T}
  <2> HIDE DEF T
  <2>1. 0 \in S
    BY <1>4, <1>11
  <2>2. ASSUME NEW i \in 0 .. 32 - 1, i \in S PROVE i + 1 \in S
    <3>1. i + 1 \in 1 .. 32 /\ (i + 1) - 1 = i /\ i + 1 \in Nat
      OBVIOUS
    <3>2. g[i + 1] = (g[i] * Base + p[i + 1]) % d /\ g[i] \in T
      BY <1>11, <2>2, <3>1
    <3> QED BY <1>2, <3>1, <3>2
  <2>3. \A i \in 0 .. 32 : i \in S
    <3> HIDE DEF S
    <3> QED BY <1>4, <2>1, <2>2, InductionFromTo
  <2> QED BY <2>3
<1> QED BY <1>10, <1>11, <1>12 DEF Remains

\* One digit of the long division: what it takes and what it leaves.
LEMMA QuotientDigit ==
  ASSUME NEW d \in Nat, d > 0, NEW r \in 0 .. d - 1, NEW b \in Byte,
         NEW q, NEW t, q = ((r * Base + b) \div d) % Base, t = (r * Base + b) % d
  PROVE  /\ q \in Byte /\ t \in 0 .. d - 1
         /\ r * Base + b = q * d + t
<1>1. r \in Nat /\ b \in Nat /\ Base \in Nat /\ Base > 0
  BY ByteNat, BaseType
<1>2. PICK n \in Nat : n = r * Base + b
  BY <1>1, DigitNat
<1>3. PICK u \in Nat, s \in 0 .. d - 1 : u = n \div d /\ s = n % d /\ n = u * d + s
  BY DivRemainder DEF Divides
<1>4. n \in 0 .. d * Base - 1
  BY <1>1, <1>2, Horner DEF Byte
<1>5. u < Base
  <2> SUFFICES ASSUME u >= Base PROVE FALSE
    BY <1>1
  <2>1. PICK z \in Nat : u = Base + z
    <3>1. u - Base \in Nat /\ u = Base + (u - Base)
      BY <1>1
    <3> QED BY <3>1
  <2>2. u * d = d * Base + z * d /\ z * d \in Nat /\ d * Base \in Nat
    BY <1>1, <2>1
  <2> QED BY <1>3, <1>4, <2>2
<1>6. u % Base = u
  BY <1>1, <1>5
<1>7. q = u /\ t = s
  BY <1>2, <1>3, <1>6
<1> QED BY <1>1, <1>2, <1>3, <1>5, <1>7 DEF Byte

\* The long division divides: the number of its digits is the quotient.
IsQuotient(q, y, d) ==
  \A vq : Sums(vq, q, 32) => \E r \in 0 .. d - 1 : y = vq[32] * d + r

LEMMA QuotientDivides ==
  ASSUME NEW p \in [1 .. 32 -> Byte], NEW d \in Nat, d > 0, NEW vp, Sums(vp, p, 32)
  PROVE  Quotient(p, d) \in [1 .. 32 -> Byte] /\ IsQuotient(Quotient(p, d), vp[32], d)
<1>1. PICK rem : Remains(rem, p, d) /\ Quotient(p, d) = QuotientOf(rem, p, d)
  BY QuotientSteps
<1>2. PICK q : q = Quotient(p, d)
  OBVIOUS
<1>3. ASSUME NEW i \in 1 .. 32
      PROVE  /\ q[i] \in Byte /\ p[i] \in Byte /\ rem[i] \in Nat /\ rem[i - 1] \in Nat
             /\ rem[i - 1] * Base + p[i] = q[i] * d + rem[i]
  <2>1. i \in 0 .. 32 /\ i - 1 \in 0 .. 32
    OBVIOUS
  <2>2. q[i] = ((rem[i - 1] * Base + p[i]) \div d) % Base
    BY <1>1, <1>2 DEF QuotientOf
  <2>3. PICK r \in 0 .. d - 1, t \in 0 .. d - 1, b \in Byte :
          r = rem[i - 1] /\ t = rem[i] /\ b = p[i] /\ t = (r * Base + b) % d
    BY <1>1, <2>1 DEF Remains
  <2>4. q[i] = ((r * Base + b) \div d) % Base
    BY <2>2, <2>3
  <2>5. q[i] \in Byte /\ r * Base + b = q[i] * d + t
    BY <2>3, <2>4, QuotientDigit
  <2> QED BY <2>3, <2>5
<1>4. q \in [1 .. 32 -> Byte]
  <2>1. q = [i \in 1 .. 32 |-> ((rem[i - 1] * Base + p[i]) \div d) % Base]
    BY <1>1, <1>2 DEF QuotientOf
  <2>2. \A i \in 1 .. 32 : q[i] \in Byte
    BY <1>3
  <2> QED BY <2>1, <2>2
<1>5. ASSUME NEW vq, Sums(vq, q, 32) PROVE \E r \in 0 .. d - 1 : vp[32] = vq[32] * d + r
  <2> DEFINE S == {k \in Nat : vp[k] = vq[k] * d + rem[k]}
  <2>1. 0 \in S
    <3>1. vp[0] = 0 /\ vq[0] = 0 /\ rem[0] = 0
      BY <1>1, <1>5 DEF Sums, Remains
    <3> QED BY <3>1
  <2>2. ASSUME NEW k \in 0 .. 32 - 1, k \in S PROVE k + 1 \in S
    <3>1. k + 1 \in 1 .. 32 /\ (k + 1) - 1 = k /\ k + 1 \in Nat /\ k \in 0 .. 32
      OBVIOUS
    <3>2. PICK x \in Nat, y \in Nat, r \in Nat, t \in Nat, a \in Nat, b \in Nat :
            /\ x = vp[k] /\ y = vq[k] /\ r = rem[k] /\ t = rem[k + 1]
            /\ a = q[k + 1] /\ b = p[k + 1] /\ r * Base + b = a * d + t
      <4>1. /\ vp[k] \in Nat /\ vq[k] \in Nat
        BY <1>5, <3>1 DEF Sums
      <4>2. /\ q[k + 1] \in Nat /\ p[k + 1] \in Nat /\ rem[k] \in Nat /\ rem[k + 1] \in Nat
            /\ rem[k] * Base + p[k + 1] = q[k + 1] * d + rem[k + 1]
        BY <1>3, <3>1, ByteNat
      <4> QED BY <4>1, <4>2
    <3>3. vp[k + 1] = x * Base + b /\ vq[k + 1] = y * Base + a
      <4>1. /\ vp[k + 1] = vp[(k + 1) - 1] * Base + p[k + 1]
            /\ vq[k + 1] = vq[(k + 1) - 1] * Base + q[k + 1]
        BY <1>5, <3>1 DEF Sums
      <4> QED BY <3>1, <3>2, <4>1
    <3>4. x = y * d + r
      BY <2>2, <3>2
    <3>5. x * Base + b = (y * Base + a) * d + t
      <4>1. x * Base = (y * d) * Base + r * Base
        BY <3>2, <3>4, BaseType
      <4>2. (y * d) * Base = (y * Base) * d
        BY <3>2, BaseType
      <4>3. (y * Base + a) * d = (y * Base) * d + a * d
        BY <3>2, BaseType
      <4>4. PICK m1 \in Nat, m2 \in Nat, m3 \in Nat, m4 \in Nat :
              /\ m1 = x * Base /\ m2 = (y * Base) * d /\ m3 = r * Base /\ m4 = a * d
        <5>1. x * Base \in Nat /\ y * Base \in Nat /\ r * Base \in Nat /\ a * d \in Nat
          BY <3>2, BaseType
        <5>2. (y * Base) * d \in Nat
          BY <5>1
        <5> QED BY <5>1, <5>2
      <4>5. m1 = m2 + m3 /\ (y * Base + a) * d = m2 + m4 /\ m3 + b = m4 + t
        BY <3>2, <4>1, <4>2, <4>3, <4>4
      <4>6. m1 + b = (m2 + m4) + t
        BY <3>2, <4>5
      <4> QED BY <4>4, <4>5, <4>6
    <3> QED BY <3>1, <3>2, <3>3, <3>5
  <2>3. 0 \in Nat /\ 32 \in Nat /\ 32 \in 0 .. 32
    OBVIOUS
  <2>4. \A k \in 0 .. 32 : k \in S
    <3> HIDE DEF S
    <3> QED BY <2>1, <2>2, <2>3, InductionFromTo
  <2>5. vp[32] = vq[32] * d + rem[32]
    BY <2>3, <2>4
  <2>6. rem[32] \in 0 .. d - 1
    BY <1>1, <2>3 DEF Remains
  <2> QED BY <2>5, <2>6
<1> QED BY <1>2, <1>4, <1>5 DEF IsQuotient

\* A product of a sum.
LEMMA Distributes ==
  ASSUME NEW a \in Nat, NEW b \in Nat, NEW c \in Nat
  PROVE  (a + b) * c = a * c + b * c
OBVIOUS

\* u is f with x in front.
Prepends(u, x, f) ==
  u \in [1 .. 33 -> Nat] /\ u[1] = x /\ \A i \in 1 .. 32 : u[i + 1] = f[i]

\* A digit put in front of 32.
LEMMA Prepended ==
  ASSUME NEW x \in Nat, NEW f \in [1 .. 32 -> Nat]
  PROVE  Prepends(<<x>> \o f, x, f)
<1>1. PICK k \in Nat, l \in Nat, m \in Nat : k = 1 /\ l = 32 /\ m = 33 /\ m = k + l
  OBVIOUS
<1>2. PICK s \in [1 .. k -> Nat] : s = <<x>> /\ s[1] = x
  <2>1. <<x>> \in [1 .. 1 -> Nat] /\ <<x>>[1] = x
    OBVIOUS
  <2> QED BY <1>1, <2>1
<1>3. f \in [1 .. l -> Nat] /\ m = k + l
  BY <1>1
<1>4. s \o f \in [1 .. m -> Nat] /\ Joins(s \o f, s, f, k, l)
  BY <1>3, JoinedFunctions
<1>5. PICK u : u = <<x>> \o f /\ u \in [1 .. 33 -> Nat] /\ Joins(u, s, f, 1, 32)
  BY <1>1, <1>2, <1>4
<1>6. u[1] = x
  <2>1. 1 \in 1 .. 1
    OBVIOUS
  <2> QED BY <1>2, <1>5, <2>1 DEF Joins
<1>7. ASSUME NEW i \in 1 .. 32 PROVE u[i + 1] = f[i]
  <2>1. i + 1 \in 1 + 1 .. 1 + 32 /\ (i + 1) - 1 = i
    OBVIOUS
  <2>2. u[i + 1] = f[(i + 1) - 1]
    BY <1>5, <2>1 DEF Joins
  <2> QED BY <2>1, <2>2
<1> QED BY <1>5, <1>6, <1>7 DEF Prepends

\* c holds the carries of n times d.
Carries(c, n, d) ==
  /\ c[0] = 0
  /\ \A k \in 1 .. 32 : c[k] = (n[33 - k] * d + c[k - 1]) \div Base
  /\ \A k \in 0 .. 32 : c[k] \in Nat
\* The digits of the product, from the carries.
TimesOf(c, n, d) == <<c[32]>> \o [i \in 1 .. 32 |-> (n[i] * d + c[32 - i]) % Base]

\* The product is made of its carries.
LEMMA TimesSteps ==
  ASSUME NEW n \in [1 .. 32 -> Byte], NEW d \in Nat
  PROVE  \E c : Carries(c, n, d) /\ Times(n, d) = TimesOf(c, n, d)
<1> DEFINE step == [k \in 0 + 1 .. 32 |-> [v \in Nat |-> (n[33 - k] * d + v) \div Base]]
           R(f) == f = [k \in 0 .. 32 |-> IF k = 0 THEN 0
                                          ELSE (n[33 - k] * d + f[k - 1]) \div Base]
<1>1. ASSUME NEW k \in 1 .. 32, NEW v \in Nat PROVE (n[33 - k] * d + v) \div Base \in Nat
  <2>1. 33 - k \in 1 .. 32
    OBVIOUS
  <2>2. n[33 - k] \in Nat
    BY <2>1, ByteNat
  <2>3. n[33 - k] * d \in Nat
    BY <2>2
  <2>4. n[33 - k] * d + v \in Nat
    BY <2>3
  <2> QED BY <2>4, BaseType, QuotientNat
<1>2. step \in [0 + 1 .. 32 -> [Nat -> Nat]]
  <2>1. \A k \in 0 + 1 .. 32 : k \in 1 .. 32
    OBVIOUS
  <2> QED BY <1>1, <2>1
<1>3. 0 \in Nat /\ 32 \in Nat /\ 0 <= 32 /\ 0 \in 0 .. 32 /\ 32 \in 0 .. 32
  OBVIOUS
<1>4. \E f : Follows(f, Nat, 0, 32, 0, step)
  <2> HIDE DEF step
  <2> QED BY <1>2, <1>3, RecursionExists
<1>5. PICK f \in [0 .. 32 -> Nat] :
        f[0] = 0 /\ \A k \in 0 + 1 .. 32 : f[k] = step[k][f[k - 1]]
  <2> HIDE DEF step
  <2> QED BY <1>4 DEF Follows
<1>6. \A k \in 1 .. 32 : f[k] = (n[33 - k] * d + f[k - 1]) \div Base
  <2> SUFFICES ASSUME NEW k \in 1 .. 32 PROVE f[k] = (n[33 - k] * d + f[k - 1]) \div Base
    OBVIOUS
  <2>1. k \in 0 + 1 .. 32 /\ k - 1 \in 0 .. 32
    OBVIOUS
  <2>2. PICK v \in Nat : v = f[k - 1]
    BY <2>1
  <2>3. step[k][v] = (n[33 - k] * d + v) \div Base
    BY <2>1
  <2> HIDE DEF step
  <2> QED BY <1>5, <2>1, <2>2, <2>3
<1>7. R(f)
  <2>1. \A k \in 0 .. 32 : f[k] = IF k = 0 THEN 0 ELSE (n[33 - k] * d + f[k - 1]) \div Base
    <3>1. \A k \in 0 .. 32 : k = 0 \/ k \in 1 .. 32
      OBVIOUS
    <3> HIDE DEF step
    <3> QED BY <1>5, <1>6, <3>1
  <2> QED BY <2>1
<1> DEFINE g == CHOOSE h : R(h)
<1>8. R(g)
  <2> HIDE DEF R
  <2> QED BY <1>7
<1>9. Times(n, d) = TimesOf(g, n, d)
  BY SMTT(60) DEF Times, TimesOf
<1> HIDE DEF g
<1>10. g[0] = 0 /\ \A k \in 1 .. 32 : g[k] = (n[33 - k] * d + g[k - 1]) \div Base
  <2>1. \A k \in 1 .. 32 : k \in 0 .. 32 /\ k # 0
    OBVIOUS
  <2> QED BY <1>3, <1>8, <2>1
<1>11. \A k \in 0 .. 32 : g[k] \in Nat
  <2> DEFINE S == {k \in Nat : g[k] \in Nat}
  <2>1. 0 \in S
    BY <1>3, <1>10
  <2>2. ASSUME NEW k \in 0 .. 32 - 1, k \in S PROVE k + 1 \in S
    <3>1. k + 1 \in 1 .. 32 /\ (k + 1) - 1 = k /\ k + 1 \in Nat
      OBVIOUS
    <3>2. g[k + 1] = (n[33 - (k + 1)] * d + g[k]) \div Base /\ g[k] \in Nat
      BY <1>10, <2>2, <3>1
    <3> QED BY <1>1, <3>1, <3>2
  <2>3. \A k \in 0 .. 32 : k \in S
    <3> HIDE DEF S
    <3> QED BY <1>3, <2>1, <2>2, InductionFromTo
  <2> QED BY <2>3
<1> QED BY <1>9, <1>10, <1>11 DEF Carries

\* The product has 33 digits, of which only the first may be beyond a byte, and
\* their number is the number of n times d.
Multiplies(u, number) ==
  /\ u \in [1 .. 33 -> Nat] /\ Small(u, 33)
  /\ \E v : Sums(v, u, 33) /\ v[33] = number

\* Times multiplies: its digits make n times d.
LEMMA TimesNumber ==
  ASSUME NEW n \in [1 .. 32 -> Byte], NEW d \in Nat, NEW vn, Sums(vn, n, 32)
  PROVE  Multiplies(Times(n, d), vn[32] * d)
<1>1. PICK c : Carries(c, n, d) /\ Times(n, d) = TimesOf(c, n, d)
  BY TimesSteps
<1>2. PICK digit : digit = [i \in 1 .. 32 |-> (n[i] * d + c[32 - i]) % Base]
  OBVIOUS
<1>3. ASSUME NEW i \in 1 .. 32
      PROVE  /\ digit[i] \in Byte /\ n[i] \in Nat /\ c[32 - i] \in Nat /\ c[33 - i] \in Nat
             /\ n[i] * d + c[32 - i] = c[33 - i] * Base + digit[i]
  <2>1. /\ 32 - i \in 0 .. 32 /\ 33 - i \in 1 .. 32 /\ 33 - i \in 0 .. 32
        /\ 33 - (33 - i) = i /\ (33 - i) - 1 = 32 - i
    OBVIOUS
  <2>2. c[32 - i] \in Nat /\ c[33 - i] \in Nat
    BY <1>1, <2>1 DEF Carries
  <2>3. c[33 - i] = (n[i] * d + c[32 - i]) \div Base
    <3>1. c[33 - i] = (n[33 - (33 - i)] * d + c[(33 - i) - 1]) \div Base
      BY <1>1, <2>1 DEF Carries
    <3> QED BY <2>1, <3>1
  <2>4. PICK m \in Nat : m = n[i] * d + c[32 - i]
    <3>1. n[i] \in Nat
      BY ByteNat
    <3>2. n[i] * d \in Nat
      BY <3>1
    <3> QED BY <2>2, <3>2
  <2>5. Divides(m, Base, m \div Base, m % Base)
    BY BaseType, DivRemainder
  <2>6. digit[i] = m % Base /\ c[33 - i] = m \div Base
    BY <1>2, <2>3, <2>4
  <2>7. digit[i] \in Byte /\ m = c[33 - i] * Base + digit[i]
    BY <2>5, <2>6 DEF Divides, Byte
  <2>8. n[i] \in Nat
    BY ByteNat, SMTT(60)
  <2> QED BY <2>2, <2>4, <2>7, <2>8
<1>4. digit \in [1 .. 32 -> Byte] /\ digit \in [1 .. 32 -> Nat]
  <2>1. \A i \in 1 .. 32 : digit[i] \in Byte /\ digit[i] \in Nat
    BY <1>3, ByteNat, SMTT(60)
  <2> QED BY <1>2, <2>1
<1>5. PICK u : u = Times(n, d) /\ Prepends(u, c[32], digit)
  <2>1. 32 \in 0 .. 32
    OBVIOUS
  <2>2. c[32] \in Nat
    BY <1>1, <2>1 DEF Carries
  <2>3. Prepends(<<c[32]>> \o digit, c[32], digit)
    BY <1>4, <2>2, Prepended
  <2> QED BY <1>1, <1>2, <2>3 DEF TimesOf
<1>6. u \in [1 .. 33 -> Nat] /\ u[1] = c[32] /\ \A i \in 1 .. 32 : u[i + 1] = digit[i]
  BY <1>5 DEF Prepends
<1>7. Small(u, 33)
  <2> SUFFICES ASSUME NEW i \in 2 .. 33 PROVE u[i] < Base
    BY DEF Small
  <2>1. i - 1 \in 1 .. 32 /\ (i - 1) + 1 = i
    OBVIOUS
  <2>2. u[i] = digit[i - 1] /\ digit[i - 1] \in Byte
    BY <1>3, <1>6, <2>1
  <2> QED BY <2>2, BaseType DEF Byte
<1>8. PICK v : v = [j \in 0 .. 33 |-> IF j = 0 THEN 0 ELSE vn[j - 1] * d + c[33 - j]]
  OBVIOUS
<1>9. ASSUME NEW j \in 1 .. 33
      PROVE  /\ vn[j - 1] \in Nat /\ c[33 - j] \in Nat /\ vn[j - 1] * d \in Nat
             /\ v[j] = vn[j - 1] * d + c[33 - j]
  <2>1. j \in 0 .. 33 /\ j # 0 /\ j - 1 \in 0 .. 32 /\ 33 - j \in 0 .. 32
    OBVIOUS
  <2>2. vn[j - 1] \in Nat /\ c[33 - j] \in Nat
    BY <1>1, <2>1 DEF Sums, Carries
  <2>3. v[j] = vn[j - 1] * d + c[33 - j]
    BY <1>8, <2>1
  <2> QED BY <2>2, <2>3
<1>10. v[0] = 0
  <2>1. 0 \in 0 .. 33
    OBVIOUS
  <2> QED BY <1>8, <2>1
<1>11. ASSUME NEW j \in 1 .. 33 PROVE v[j] = v[j - 1] * Base + u[j]
  <2>1. CASE j = 1
    <3>1. 1 \in 1 .. 33 /\ 1 - 1 = 0 /\ 33 - 1 = 32
      OBVIOUS
    <3>2. v[1] = vn[0] * d + c[32] /\ c[32] \in Nat
      BY <1>9, <3>1
    <3>3. vn[0] = 0
      BY DEF Sums
    <3>4. v[1] = c[32] /\ 0 * Base + c[32] = c[32]
      BY <3>2, <3>3, BaseType
    <3> QED BY <1>6, <1>10, <2>1, <3>1, <3>4
  <2>2. CASE j # 1
    <3>1. PICK i \in 1 .. 32 : i + 1 = j
      <4>1. j - 1 \in 1 .. 32 /\ (j - 1) + 1 = j
        BY <2>2
      <4> QED BY <4>1
    <3>2. /\ j - 1 = i /\ 33 - j = 32 - i /\ i \in 1 .. 33 /\ i - 1 \in 0 .. 32
      BY <3>1
    <3>3. v[j] = vn[i] * d + c[32 - i] /\ vn[i] \in Nat
      BY <1>9, <3>2
    <3>4. v[i] = vn[i - 1] * d + c[33 - i] /\ vn[i - 1] \in Nat
      BY <1>9, <3>2
    <3>5. vn[i] = vn[i - 1] * Base + n[i]
      BY DEF Sums
    <3>6. u[j] = digit[i]
      BY <1>6, <3>1
    <3>7. PICK x \in Nat, y \in Nat, a \in Nat, b \in Nat, e \in Nat, g \in Nat :
            /\ x = vn[i] /\ y = vn[i - 1] /\ a = n[i] /\ b = digit[i]
            /\ e = c[32 - i] /\ g = c[33 - i] /\ a * d + e = g * Base + b /\ x = y * Base + a
      <4>1. /\ digit[i] \in Nat /\ n[i] \in Nat /\ c[32 - i] \in Nat /\ c[33 - i] \in Nat
            /\ n[i] * d + c[32 - i] = c[33 - i] * Base + digit[i]
        BY <1>3, ByteNat
      <4> QED BY <3>3, <3>4, <3>5, <4>1, ZenonT(60)
    <3>8. x * d + e = (y * d + g) * Base + b
      <4>1. y * Base \in Nat /\ y * d \in Nat /\ a * d \in Nat /\ g * Base \in Nat
        BY <3>7, BaseType
      <4>2. x * d = (y * Base) * d + a * d
        BY <3>7, <4>1
      <4>3. (y * Base) * d = (y * d) * Base
        BY <3>7, BaseType
      <4>4. (y * d + g) * Base = (y * d) * Base + g * Base
        <5>1. PICK z \in Nat : z = y * d
          BY <4>1
        <5>2. g \in Nat /\ Base \in Nat
          BY <3>7, BaseType
        <5>3. (z + g) * Base = z * Base + g * Base
          BY <5>1, <5>2, Distributes
        <5> QED BY <5>1, <5>3
      <4>5. PICK m1 \in Nat, m2 \in Nat, m3 \in Nat :
              m1 = (y * d) * Base /\ m2 = a * d /\ m3 = g * Base
        <5>1. (y * d) * Base \in Nat
          BY <4>1, BaseType
        <5> QED BY <4>1, <5>1
      <4>6. x * d = m1 + m2 /\ (y * d + g) * Base = m1 + m3 /\ m2 + e = m3 + b
        BY <3>7, <4>2, <4>3, <4>4, <4>5
      <4>7. (m1 + m2) + e = (m1 + m3) + b
        BY <3>7, <4>5, <4>6
      <4> QED BY <4>6, <4>7
    <3>9. v[j] = x * d + e /\ v[j - 1] = y * d + g /\ u[j] = b
      BY <3>2, <3>3, <3>4, <3>6, <3>7
    <3> QED BY <3>8, <3>9
  <2> QED BY <2>1, <2>2
<1>12. \A j \in 0 .. 33 : v[j] \in Nat
  <2> SUFFICES ASSUME NEW j \in 0 .. 33 PROVE v[j] \in Nat
    OBVIOUS
  <2>1. CASE j = 0
    BY <1>10, <2>1
  <2>2. CASE j # 0
    <3>1. j \in 1 .. 33
      BY <2>2
    <3>2. vn[j - 1] * d \in Nat /\ c[33 - j] \in Nat /\ v[j] = vn[j - 1] * d + c[33 - j]
      BY <1>9, <3>1
    <3> QED BY <3>2
  <2> QED BY <2>1, <2>2
<1>13. v[33] = vn[32] * d
  <2>1. 33 \in 1 .. 33 /\ 33 - 1 = 32 /\ 33 - 33 = 0
    OBVIOUS
  <2>2. v[33] = vn[32] * d + c[0] /\ vn[32] * d \in Nat
    BY <1>9, <2>1
  <2>3. c[0] = 0
    BY <1>1 DEF Carries
  <2> QED BY <2>2, <2>3
<1>14. Sums(v, u, 33)
  BY <1>10, <1>11, <1>12 DEF Sums
<1> QED BY <1>5, <1>6, <1>7, <1>13, <1>14 DEF Multiplies

\* The pdiff 1 target, as bytes and with a zero in front.
LEMMA PdiffType == PDIFF1_BE \in [1 .. 32 -> Byte]
<1>1. Base - 1 \in Byte /\ 0 \in Byte
  BY BaseType DEF Byte
<1> QED BY <1>1 DEF PDIFF1_BE

\* A zero in front changes no number.
LEMMA PaddedNumber ==
  ASSUME NEW p \in [1 .. 32 -> Byte], NEW vp, Sums(vp, p, 32)
  PROVE  Multiplies(<<0>> \o p, vp[32])
<1>1. p \in [1 .. 32 -> Nat]
  <2>1. \A i \in 1 .. 32 : p[i] \in Nat
    BY ByteNat
  <2> QED BY <2>1
<1>2. PICK u : u = <<0>> \o p /\ Prepends(u, 0, p)
  <2>1. 0 \in Nat
    OBVIOUS
  <2> QED BY <1>1, <2>1, Prepended
<1>3. u \in [1 .. 33 -> Nat] /\ u[1] = 0 /\ \A i \in 1 .. 32 : u[i + 1] = p[i]
  BY <1>2 DEF Prepends
<1>4. Small(u, 33)
  <2> SUFFICES ASSUME NEW i \in 2 .. 33 PROVE u[i] < Base
    BY DEF Small
  <2>1. i - 1 \in 1 .. 32 /\ (i - 1) + 1 = i
    OBVIOUS
  <2>2. u[i] = p[i - 1] /\ p[i - 1] \in Byte
    BY <1>3, <2>1
  <2> QED BY <2>2, BaseType DEF Byte
<1>5. PICK v : v = [j \in 0 .. 33 |-> IF j = 0 THEN 0 ELSE vp[j - 1]]
  OBVIOUS
<1>6. v[0] = 0 /\ \A j \in 1 .. 33 : v[j] = vp[j - 1] /\ v[j] \in Nat
  <2>1. 0 \in 0 .. 33 /\ \A j \in 1 .. 33 : j \in 0 .. 33 /\ j # 0 /\ j - 1 \in 0 .. 32
    OBVIOUS
  <2>2. \A j \in 0 .. 32 : vp[j] \in Nat
    BY DEF Sums
  <2> QED BY <1>5, <2>1, <2>2
<1>7. ASSUME NEW j \in 1 .. 33 PROVE v[j] = v[j - 1] * Base + u[j]
  <2>1. CASE j = 1
    <3>1. 1 \in 1 .. 33 /\ 1 - 1 = 0 /\ 0 * Base + 0 = 0
      BY BaseType
    <3>2. v[1] = 0
      BY <1>6, <3>1 DEF Sums
    <3> QED BY <1>3, <1>6, <2>1, <3>1, <3>2
  <2>2. CASE j # 1
    <3>1. PICK i \in 1 .. 32 : i + 1 = j
      <4>1. j - 1 \in 1 .. 32 /\ (j - 1) + 1 = j
        BY <2>2
      <4> QED BY <4>1
    <3>2. j - 1 = i /\ i \in 1 .. 33
      BY <3>1
    <3>3. v[j] = vp[i] /\ v[i] = vp[i - 1]
      BY <1>6, <3>2
    <3>4. vp[i] = vp[i - 1] * Base + p[i]
      BY DEF Sums
    <3>5. u[j] = p[i]
      BY <1>3, <3>1
    <3> QED BY <3>2, <3>3, <3>4, <3>5
  <2> QED BY <2>1, <2>2
<1>8. \A j \in 0 .. 33 : v[j] \in Nat
  <2>1. \A j \in 0 .. 33 : j = 0 \/ j \in 1 .. 33
    OBVIOUS
  <2> QED BY <1>6, <2>1
<1>9. v[33] = vp[32]
  <2>1. 33 \in 1 .. 33 /\ 33 - 1 = 32
    OBVIOUS
  <2> QED BY <1>6, <2>1
<1>10. Sums(v, u, 33)
  BY <1>6, <1>7, <1>8 DEF Sums
<1> QED BY <1>2, <1>3, <1>4, <1>9, <1>10 DEF Multiplies

\* A digest is a number.
LEMMA Numbered ==
  ASSUME NEW s \in [1 .. 32 -> Byte]
  PROVE  \E v : Sums(v, s, 32) /\ s \in [1 .. 32 -> Nat] /\ Small(s, 32)
<1>1. PICK n \in Nat : n = 32
  OBVIOUS
<1>2. s \in [1 .. n -> Byte]
  BY <1>1
<1>3. PICK v : Evaluates(v, s, n)
  BY <1>2, FromBESteps
<1>4. Sums(v, s, n)
  BY <1>3 DEF Evaluates, Sums
<1>5. \A i \in 1 .. 32 : s[i] \in Nat /\ s[i] < Base
  BY ByteNat, BaseType DEF Byte
<1>6. s \in [1 .. 32 -> Nat]
  BY <1>5
<1>7. Small(s, 32)
  <2>1. \A i \in 2 .. 32 : i \in 1 .. 32
    OBVIOUS
  <2> QED BY <1>5, <2>1 DEF Small
<1> QED BY <1>1, <1>4, <1>6, <1>7

\* Below a multiple.
LEMMA BelowQuotient ==
  ASSUME NEW h \in Nat, NEW q \in Nat, NEW d \in Nat, d > 0, NEW r \in 0 .. d - 1
  PROVE  h * d <= q * d + r <=> h <= q
<1>1. h * d \in Nat /\ q * d \in Nat /\ r \in Nat
  OBVIOUS
<1>2. CASE h <= q
  <2>1. PICK z \in Nat : q = h + z
    <3>1. q - h \in Nat /\ q = h + (q - h)
      BY <1>2
    <3> QED BY <3>1
  <2>2. q * d = h * d + z * d /\ z * d \in Nat
    BY <2>1
  <2> QED BY <1>1, <1>2, <2>2
<1>3. CASE h > q
  <2>1. PICK z \in Nat : h = q + 1 + z
    <3>1. h - q - 1 \in Nat /\ h = q + 1 + (h - q - 1)
      BY <1>3
    <3> QED BY <3>1
  <2>2. h * d = q * d + d + z * d /\ z * d \in Nat
    BY <2>1
  <2> QED BY <1>1, <1>3, <2>2
<1> QED BY <1>2, <1>3

\* A difficulty has a divisor, of at least 1.
LEMMA DivisorType ==
  ASSUME NEW d \in Int
  PROVE  Divisor(d) \in Nat /\ Divisor(d) > 0
<1>1. CASE d <= 0
  BY <1>1 DEF Divisor
<1>2. CASE d > 0
  <2>1. (d + 1) \div 2 \in Nat
    <3>1. d + 1 \in Nat /\ 2 \in Nat /\ 2 > 0
      BY <1>2
    <3> QED BY <3>1, QuotientNat
  <2> QED BY <1>2, <2>1 DEF Divisor
<1> QED BY <1>1, <1>2

\* The miner's comparison with the target of the long division decides what the
\* bridge's does with the product.
THEOREM SameComparison ==
  ASSUME NEW h \in [1 .. 32 -> Byte], NEW d \in Int
  PROVE  HashLeqTarget(h, TargetOf(d))
           <=> AtMost(Times(h, Divisor(d)), <<0>> \o PDIFF1_BE)
<1>1. PICK p \in [1 .. 32 -> Byte] : p = PDIFF1_BE
  BY PdiffType
<1>2. PICK div \in Nat : div = Divisor(d) /\ div > 0
  BY DivisorType
<1>3. PICK vh : Sums(vh, h, 32) /\ h \in [1 .. 32 -> Nat] /\ Small(h, 32)
  BY Numbered
<1>4. PICK vp : Sums(vp, p, 32) /\ p \in [1 .. 32 -> Nat] /\ Small(p, 32)
  BY Numbered
<1>5. PICK x \in Nat, y \in Nat : x = vh[32] /\ y = vp[32]
  <2>1. 32 \in 0 .. 32
    OBVIOUS
  <2> QED BY <1>3, <1>4, <2>1 DEF Sums
<1>6. AtMost(Times(h, div), <<0>> \o p) <=> x * div <= y
  <2>1. PICK a, b : a = Times(h, div) /\ b = <<0>> \o p
    OBVIOUS
  <2>2. Multiplies(a, x * div) /\ Multiplies(b, y)
    BY <1>3, <1>4, <1>5, <2>1, TimesNumber, PaddedNumber
  <2>3. PICK va : Sums(va, a, 33) /\ va[33] = x * div
    BY <2>2 DEF Multiplies
  <2>4. PICK vb : Sums(vb, b, 33) /\ vb[33] = y
    BY <2>2 DEF Multiplies
  <2>5. PICK n \in Nat : n = 33
    OBVIOUS
  <2>6. /\ a \in [1 .. n -> Nat] /\ b \in [1 .. n -> Nat] /\ Small(a, n) /\ Small(b, n)
        /\ Sums(va, a, n) /\ Sums(vb, b, n)
    BY <2>2, <2>3, <2>4, <2>5 DEF Multiplies
  <2>7. Compared(a, b, va, vb, n)
    BY <2>6, Compares
  <2>8. AtMost(a, b) <=> va[n] <= vb[n]
    BY <2>6, <2>7, AtMostCompares
  <2> QED BY <2>1, <2>3, <2>4, <2>5, <2>8
<1>7. ASSUME NEW t \in [1 .. 32 -> Byte], NEW vt, Sums(vt, t, 32)
      PROVE  HashLeqTarget(h, t) <=> x <= vt[32]
  <2>1. t \in [1 .. 32 -> Nat] /\ Small(t, 32)
    BY Numbered
  <2>2. 32 \in Nat
    OBVIOUS
  <2>3. Compared(h, t, vh, vt, 32)
    BY <1>3, <1>7, <2>1, <2>2, Compares
  <2>4. HashLeqTarget(h, t) <=> vh[32] <= vt[32]
    BY <1>3, <1>7, <2>1, <2>3, HashLeqCompares
  <2> QED BY <1>5, <2>4
<1>8. CASE div <= 1
  <2>1. div = 1 /\ x * div = x
    BY <1>2, <1>8
  <2>2. TargetOf(d) = p
    BY <1>1, <1>2, <1>8 DEF TargetOf
  <2>3. HashLeqTarget(h, p) <=> x <= y
    BY <1>4, <1>5, <1>7
  <2> QED BY <1>1, <1>2, <1>6, <2>1, <2>2, <2>3
<1>9. CASE ~(div <= 1)
  <2>1. PICK q \in [1 .. 32 -> Byte] : q = Quotient(p, div)
    BY <1>2, <1>4, QuotientDivides
  <2>2. TargetOf(d) = q
    BY <1>1, <1>2, <1>9, <2>1 DEF TargetOf
  <2>3. PICK vq : Sums(vq, q, 32)
    BY Numbered
  <2>4. PICK r \in 0 .. div - 1 : y = vq[32] * div + r
    <3>1. IsQuotient(q, vp[32], div)
      BY <1>2, <1>4, <2>1, QuotientDivides
    <3> QED BY <1>5, <2>3, <3>1 DEF IsQuotient
  <2>5. PICK z \in Nat : z = vq[32]
    <3>1. 32 \in 0 .. 32
      OBVIOUS
    <3> QED BY <2>3, <3>1 DEF Sums
  <2>6. HashLeqTarget(h, q) <=> x <= z
    BY <1>7, <2>3, <2>5
  <2>7. x * div <= z * div + r <=> x <= z
    BY <1>2, BelowQuotient
  <2>8. x * div <= y <=> x <= z
    BY <2>4, <2>5, <2>7
  <2> QED BY <1>1, <1>2, <1>6, <2>2, <2>6, <2>8
<1> QED BY <1>8, <1>9

-----------------------------------------------------------------------------
(* The verdict.                                                            *)

\* A nonce that is tried is sent exactly when the bridge credits it.
LEMMA TriedAgrees ==
  ASSUME NEW job, Frames(job), NEW d \in Int, NEW n \in Word, NEW nonce \in Word, NEW device
  PROVE  LET v == Tried(device, Mapped(job, d), n, nonce)
         IN  v.sent <=> Credits(job, d, v.fields)
<1>1. PICK w, fields, header, h, front :
        /\ w = Mapped(job, d) /\ fields = BuildSubmit(w, n, nonce)
        /\ header = HeaderOf(w, n, nonce) /\ h = Sha256d(header) /\ front = HeaderFront(w, n)
  OBVIOUS
<1>2. front \in [1 .. 80 -> Byte] /\ header = BridgeHeader(job, fields)
  BY <1>1, SameHeader
<1>3. header = front \o LEBytes(nonce) /\ HeaderOf(w, n, 0) = front \o LEBytes(0)
  BY <1>1 DEF HeaderOf, Header84, HeaderFront
<1>4. OnDevice(device, HeaderOf(w, n, 0), nonce) = h
  <2>1. nonce \in Nat
    BY WordNat
  <2>2. OnDevice(device, front \o LEBytes(0), nonce) = Sha256d(front \o LEBytes(nonce))
    BY <1>2, <2>1, DevicesHash
  <2> QED BY <1>1, <1>3, <2>2
<1>5. h \in [1 .. 32 -> Byte]
  <2>1. header \in Seq(Byte)
    <3>1. front \in Seq(Byte)
      <4>1. 80 \in Nat
        OBVIOUS
      <4> QED BY <1>2, <4>1, FunctionIsSeq
    <3>2. LEBytes(nonce) \in Seq(Byte)
      <4>1. nonce \in Nat
        BY WordNat
      <4>2. LEBytes(nonce) \in [1 .. 4 -> Byte] /\ 4 \in Nat
        BY <4>1, LEBytesType
      <4> QED BY <4>2, FunctionIsSeq
    <3> QED BY <1>3, <3>1, <3>2
  <2>2. PICK k \in Nat : k = 32
    OBVIOUS
  <2>3. h \in Seq(Byte) /\ Len(h) = k
    BY <1>1, <2>1, <2>2, Sha256dType DEF Hash
  <2>4. h \in [1 .. k -> Byte]
    BY <2>3, SeqIsFunction
  <2> QED BY <2>2, <2>4
<1>6. w.target = TargetOf(d)
  BY <1>1 DEF Mapped
<1>7. Tried(device, w, n, nonce)
        = [fields |-> fields,
           sent |-> /\ HashLeqTarget(h, w.target) /\ h = h /\ HashLeqTarget(h, w.target)]
  BY <1>1, <1>4 DEF Tried
<1>8. Tried(device, w, n, nonce).fields = fields
  BY <1>7
<1>9. Tried(device, w, n, nonce).sent <=> HashLeqTarget(h, w.target)
  <2>1. PICK r : r = Tried(device, w, n, nonce)
    OBVIOUS
  <2>2. PICK a : a = HashLeqTarget(h, w.target)
    BY SMTT(60)
  <2>3. a \in BOOLEAN
    BY <2>2, ZenonT(60) DEF HashLeqTarget
  <2>4. r = [fields |-> fields, sent |-> a]
    BY <1>7, <2>1, <2>2, <2>3, Zenon
  <2>5. r.sent = a
    BY <2>4, Zenon
  <2> QED BY <2>1, <2>2, <2>5, Zenon
<1>10. Credits(job, d, fields) <=> AtMost(Times(h, Divisor(d)), <<0>> \o PDIFF1_BE)
  BY <1>1, <1>2 DEF Credits
<1>11. HashLeqTarget(h, TargetOf(d)) <=> AtMost(Times(h, Divisor(d)), <<0>> \o PDIFF1_BE)
  BY <1>5, SameComparison
<1> QED BY <1>1, <1>6, <1>8, <1>9, <1>10, <1>11

\* What the loop holds is a job of the pool that can be mapped, mapped at the
\* difficulty kept with it.
Holds ==
  work # Nothing =>
    /\ Frames(work.job) /\ work.difficulty \in Int
    /\ work.template = Mapped(work.job, work.difficulty)

\* What was tried was tried on that work, under the extranonce2 of now.
Tries ==
  verdict # Nothing =>
    /\ work # Nothing
    /\ \E device : \E nonce \in Word : verdict = Tried(device, work.template, xn2, nonce)

\* The inductive invariant: what the slot, the work and the verdict hold is made of
\* what the pool may send, and the verdict of the work.
IInv ==
  /\ extranonce1 \in Extranonces
  /\ slot # Nothing => \E o \in Offers, x \in Extranonces : slot = StratumJob(o, x)
  /\ difficulty \in Int /\ xn2 \in Word
  /\ Holds /\ Tries

\* The invariant holds at the start.
LEMMA InitInv == Init => IInv
<1> SUFFICES ASSUME Init PROVE IInv
  OBVIOUS
<1>1. xn2 \in Word
  BY WireAssumption DEF Init
<1> QED BY <1>1 DEF Init, IInv, Holds, Tries

\* Every step keeps it.
LEMMA NextInv == IInv /\ [Next]_vars => IInv'
<1> SUFFICES ASSUME IInv, [Next]_vars PROVE IInv'
  OBVIOUS
<1>1. CASE SetDifficulty
  <2>1. difficulty' \in Int
    BY <1>1, WireAssumption DEF SetDifficulty
  <2> QED BY <1>1, <2>1 DEF SetDifficulty, IInv, Holds, Tries
<1>2. CASE Notify
  <2>1. slot' = slot \/ \E o \in Offers : slot' = StratumJob(o, extranonce1)
    BY <1>2 DEF Notify
  <2>2. (slot # Nothing => \E o \in Offers, x \in Extranonces : slot = StratumJob(o, x))'
    BY <1>2, <2>1 DEF Notify, IInv
  <2> QED BY <1>2, <2>2 DEF Notify, IInv, Holds, Tries
<1>3. CASE Intake
  <2>1. PICK o \in Offers, x \in Extranonces : slot = StratumJob(o, x)
    BY <1>3 DEF Intake, IInv
  <2>2. slot.offer = o /\ slot.extranonce1 = x
    BY <2>1 DEF StratumJob
  <2>3. Mappable(slot) => Frames(slot)
    <3>1. /\ {o.version, o.nbits, o.ntime, o.prev, o.coinb1, o.coinb2} \subseteq Hex
          /\ o.branch \in Seq(Hex) /\ x \in Hex
      BY WireAssumption
    <3> QED BY <2>2, <3>1 DEF Frames
  <2>4. CASE Mappable(slot)
    <3>1. work' = [template |-> Mapped(slot, difficulty), job |-> slot,
                   difficulty |-> difficulty]
      BY <1>3, <2>4 DEF Intake
    <3>2. /\ work'.template = Mapped(slot, difficulty) /\ work'.job = slot
          /\ work'.difficulty = difficulty
      BY <3>1
    <3>3. Holds'
      BY <2>3, <2>4, <3>2 DEF Holds, IInv
    <3>4. Tries'
      BY <1>3 DEF Intake, Waiting, IInv, Tries
    <3> QED BY <1>3, <3>3, <3>4 DEF Intake, IInv
  <2>5. CASE ~Mappable(slot)
    BY <1>3, <2>5 DEF Intake, Waiting, IInv, Holds, Tries
  <2> QED BY <2>4, <2>5
<1>4. CASE Roll
  <2>1. xn2' \in Word
    BY <1>4, WireAssumption DEF Roll
  <2> QED BY <1>4, <2>1 DEF Roll, IInv, Holds, Tries
<1>5. ASSUME NEW device \in {"cpu", "gpu"}, NEW nonce \in Nonces, Try(device, nonce)
      PROVE  IInv'
  <2>1. nonce \in Word
    BY WireAssumption
  <2>2. Tries'
    <3>1. /\ verdict' = Tried(device, work'.template, xn2', nonce)
          /\ work' # Nothing
      BY <1>5 DEF Try
    <3> QED BY <2>1, <3>1 DEF Tries
  <2>3. Holds'
    BY <1>5 DEF Try, Holds, IInv
  <2> QED BY <1>5, <2>2, <2>3 DEF Try, IInv
<1>6. CASE UNCHANGED vars
  BY <1>6 DEF vars, IInv, Holds, Tries
<1> QED BY <1>1, <1>2, <1>3, <1>4, <1>5, <1>6 DEF Next

\* What the invariant says of the last nonce tried.
LEMMA InvAgrees == IInv => SameVerdict
<1> SUFFICES ASSUME IInv, verdict # Nothing
             PROVE  verdict.sent <=> Credits(work.job, work.difficulty, verdict.fields)
  BY DEF SameVerdict
<1>1. PICK device : \E nonce \in Word : verdict = Tried(device, work.template, xn2, nonce)
  BY DEF IInv, Tries
<1>0. PICK nonce \in Word : verdict = Tried(device, work.template, xn2, nonce)
  BY <1>1
<1>2. PICK job, d : /\ job = work.job /\ d = work.difficulty /\ Frames(job) /\ d \in Int
                    /\ work.template = Mapped(job, d)
  BY DEF IInv, Tries, Holds
<1>3. xn2 \in Word
  BY DEF IInv
<1>4. PICK v : v = Tried(device, Mapped(job, d), xn2, nonce)
  OBVIOUS
<1>5. v.sent <=> Credits(job, d, v.fields)
  BY <1>2, <1>3, <1>4, TriedAgrees
<1> QED BY <1>0, <1>2, <1>4, <1>5

\* The miner and the bridge agree on every share: a nonce is sent exactly when
\* the bridge, which rebuilds the header from the job it sent and the fields it
\* receives, credits it.
THEOREM MinerAndBridgeAgree == Spec => []SameVerdict
<1>1. Init => IInv
  BY InitInv
<1>2. IInv /\ [Next]_vars => IInv'
  BY NextInv
<1>3. IInv => SameVerdict
  BY InvAgrees
<1> QED BY <1>1, <1>2, <1>3, PTL DEF Spec

=============================================================================
