------------------------------ MODULE HeaderHash ------------------------------
(***************************************************************************)
(* SHA-256d of the block header (src/src/sha256d_cpu.rs), the way each     *)
(* engine computes it: the plain digest, the CPU finisher that starts from *)
(* the midstate of the first 64 bytes, and the GPU kernel, which also      *)
(* skips the four rounds that no nonce reaches.                            *)
(*                                                                         *)
(* The width is a parameter, the structure is the code's: a byte has       *)
(* ByteBits bits (8 in the code), a word is four bytes.                    *)
(***************************************************************************)
EXTENDS Naturals, Sequences

CONSTANTS
  ByteBits,               \* bits of a byte
  Base,                   \* values of a byte
  SHA256_IV, SHA256_K,
  Xor(_, _), And(_, _),   \* the machine's operations on words
  RotR(_, _), ShR(_, _)

Values == Base * Base * Base * Base      \* of a word
Byte == 0 .. Base - 1
Word == 0 .. Values - 1

\* The length of a header fits a word.
ASSUME HashAssumption ==
  /\ ByteBits \in Nat /\ Base = 2 ^ ByteBits /\ Base \in Nat /\ Base > 1
  /\ 84 * ByteBits < Values
  /\ SHA256_IV \in [1 .. 8 -> Word] /\ SHA256_K \in [1 .. 64 -> Word]
  /\ \A x, y \in Word : Xor(x, y) \in Word /\ And(x, y) \in Word
  /\ \A x \in Word, n \in 1 .. 25 : RotR(x, n) \in Word /\ ShR(x, n) \in Word

Sum3(x, y, z) == (x + y + z) % Values        \* wrapping_add
Xor3(x, y, z) == Xor(Xor(x, y), z)
Complement(x) == Values - 1 - x

SmallSigma0(x) == Xor3(RotR(x, 7), RotR(x, 18), ShR(x, 3))
SmallSigma1(x) == Xor3(RotR(x, 17), RotR(x, 19), ShR(x, 10))
BigSigma0(x) == Xor3(RotR(x, 2), RotR(x, 13), RotR(x, 22))
BigSigma1(x) == Xor3(RotR(x, 6), RotR(x, 11), RotR(x, 25))
Ch(e, f, g) == Xor(And(e, f), And(Complement(e), g))
Maj(a, b, c) == Xor3(And(a, b), And(a, c), And(b, c))

-----------------------------------------------------------------------------
\* u32::from_be_bytes and to_be_bytes
FromBytes(a, b, c, d) == ((a * Base + b) * Base + c) * Base + d
BEBytes(n) ==
  <<(n \div (Base * Base * Base)) % Base, (n \div (Base * Base)) % Base,
    (n \div Base) % Base, n % Base>>
Words(bytes) ==
  [i \in 1 .. Len(bytes) \div 4 |->
     FromBytes(bytes[4 * i - 3], bytes[4 * i - 2], bytes[4 * i - 1], bytes[4 * i])]
BytesOf(words) ==
  [i \in 1 .. 4 * Len(words) |-> BEBytes(words[(i + 3) \div 4])[((i - 1) % 4) + 1]]

\* The message schedule w, one word longer.
Extended(w) ==
  LET i == Len(w) + 1 IN
  Append(w, Sum3(w[i - 16] + SmallSigma0(w[i - 15]), w[i - 7], SmallSigma1(w[i - 2])))
\* All of it, from a schedule that is begun.
Schedule(w) ==
  LET upTo[n \in Len(w) .. 64] == IF n = Len(w) THEN w ELSE Extended(upTo[n - 1])
  IN  upTo[64]

\* The round that consumes the word w with the constant k, on the variables
\* <<a, ..., h>>.
State == [1 .. 8 -> Word]
Round(w, k) ==
  [s \in State |->
     LET t1 == Sum3(s[8] + BigSigma1(s[5]), Ch(s[5], s[6], s[7]), k + w)
         t2 == BigSigma0(s[1]) + Maj(s[1], s[2], s[3])
     IN  <<Sum3(t1, t2, 0), s[1], s[2], s[3], Sum3(s[4], t1, 0), s[5], s[6], s[7]>>]
\* The rounds of w that follow its first i words.
Rounds(s, w, i) ==
  LET after[n \in i .. Len(w)] ==
        IF n = i THEN s ELSE Round(w[n], SHA256_K[n])[after[n - 1]]
  IN  after[Len(w)]

\* The words are added to the state the block started from.
Fold(state, s) ==
  <<Sum3(state[1], s[1], 0), Sum3(state[2], s[2], 0), Sum3(state[3], s[3], 0),
    Sum3(state[4], s[4], 0), Sum3(state[5], s[5], 0), Sum3(state[6], s[6], 0),
    Sum3(state[7], s[7], 0), Sum3(state[8], s[8], 0)>>
Compress(state, block) == Fold(state, Rounds(state, Schedule(block), 0))

\* The mark, the zeros and the length that end a message of n bytes.
HighBit == Base \div 2
Padding(n) ==
  LET zeros == (64 - ((n + 9) % 64)) % 64
  IN  <<HighBit>> \o [i \in 1 .. zeros + 4 |-> 0] \o BEBytes((n * ByteBits) % Values)

\* The state after all the blocks of a message.
Digest(state, words) ==
  LET after[n \in 0 .. Len(words) \div 16] ==
        IF n = 0 THEN state
        ELSE Compress(after[n - 1], SubSeq(words, 16 * n - 15, 16 * n))
  IN  after[Len(words) \div 16]
Padded(bytes) == Words(bytes \o Padding(Len(bytes)))
\* The digest of a digest.
Outer(inner) == BytesOf(Digest(SHA256_IV, inner \o Words(Padding(32))))

Sha256d(bytes) == Outer(Digest(SHA256_IV, Padded(bytes)))
-----------------------------------------------------------------------------
Midstate(header) == Compress(SHA256_IV, Words(SubSeq(header, 1, 64)))

\* The words of the second block: tail, time, bits, nonce and the padding of 84.
SecondBlock(tail) == Words(tail \o Padding(84))
FinishFromMidstate(midstate, tail) == Outer(Compress(midstate, SecondBlock(tail)))

HeaderBits == 84 * ByteBits     \* w15, the length in bits

W16(w) == Sum3(w[1], SmallSigma0(w[2]), SmallSigma1(0))
W17(w) == Sum3(w[2], SmallSigma0(w[3]), SmallSigma1(HeaderBits))
W18(w) == Sum3(w[3], SmallSigma0(w[4]), SmallSigma1(W16(w)))

\* The state after round 3 and the words w16, w17 and w18: of the second block,
\* they depend on the first four words only, and not on the nonce, the fifth.
InnerPrefix(midstate, tail16) ==
  LET w == Words(tail16)
  IN  [state |-> Rounds(midstate, w, 0), sched |-> <<W16(w), W17(w), W18(w)>>]

\* The kernel: the other words, rounds 4 to 63, and the midstate added back.
KernelHash(midstate, prefix, tail) ==
  LET w == Schedule(SecondBlock(tail) \o prefix.sched)
  IN  Outer(Fold(midstate, Rounds(prefix.state, w, 4)))
=============================================================================
