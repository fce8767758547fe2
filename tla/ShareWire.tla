------------------------------ MODULE ShareWire -------------------------------
(***************************************************************************)
(* One share on the wire: the job of a mining.notify (protocol.rs) is      *)
(* mapped to a template (mapping.rs), the template to the 84 bytes of a    *)
(* header (coinbase.rs), a device hashes a nonce (sha256d_cpu.rs), the     *)
(* loop checks it again and submits three fields (loop_stratum.rs), and    *)
(* the bridge, external, rebuilds the header from the job and the fields.  *)
(*                                                                         *)
(* A byte is a digit below Base, a u32 has four of them.                   *)
(* A hex string is the sequence of the bytes it encodes, or NotHex.        *)
(* A difficulty is counted in halves, so that rounding shows.              *)
(***************************************************************************)
EXTENDS HeaderHash, Integers, SequencesExt

CONSTANTS
  Offers,          \* params of mining.notify the pool may send
  Extranonces,     \* extranonce1 a subscribe result may hold
  Difficulties,    \* of mining.set_difficulty, in halves
  Seeds, Rolled,   \* first xn2 of the loop, and those it may roll to
  Nonces,          \* nonces tried
  Full,            \* the bytes of the pdiff 1 target that are not 0 ({5, 6})
  NotHex, Nothing

\* The strings of a frame, decoded.
Hex == {NotHex} \cup Seq(Byte)
ASSUME WireAssumption ==
  /\ \A o \in Offers :
       /\ {o.version, o.nbits, o.ntime, o.prev, o.coinb1, o.coinb2} \subseteq Hex
       /\ o.branch \in Seq(Hex)
  /\ Extranonces \subseteq Hex /\ Difficulties \subseteq Int
  /\ Seeds \cup Rolled \cup Nonces \subseteq Word
  /\ Full \subseteq 1 .. 32

VARIABLES
  extranonce1,     \* of the session
  slot,            \* the latest job, with the extranonce1 it came under
  difficulty,
  work,            \* the mapped job the loop holds, or Nothing
  xn2,
  verdict          \* the last nonce tried: what was offered, sent, or dropped
vars == <<extranonce1, slot, difficulty, work, xn2, verdict>>

-----------------------------------------------------------------------------
\* to_le_bytes of a u32 and of a u64
LEBytes(n) == Reverse(BEBytes(n))
LE64(n) == LEBytes(n) \o LEBytes(n \div Values)
\* The number whose digits are s, the first one the most significant.
FromBE(s) ==
  LET value[i \in 0 .. Len(s)] == IF i = 0 THEN 0 ELSE value[i - 1] * Base + s[i]
  IN  value[Len(s)]
FromLE(s) == FromBE(Reverse(s))
Bytes(s, k) == s # NotHex /\ Len(s) = k
\* u32::from_str_radix
Radix(s) == s # NotHex /\ s # <<>> /\ FromBE(s) < Values

\* The target of a difficulty: pdiff 1 over the rounded, floored divisor.
PDIFF1_BE == [i \in 1 .. 32 |-> IF i \in Full THEN Base - 1 ELSE 0]
Divisor(d) == IF d <= 0 THEN 1 ELSE IF (d + 1) \div 2 > 1 THEN (d + 1) \div 2 ELSE 1
\* Long division from the most significant byte; rem[i] is left after i bytes.
Quotient(dividend, div) ==
  LET rem[i \in 0 .. 32] == IF i = 0 THEN 0 ELSE (rem[i - 1] * Base + dividend[i]) % div
  IN  [i \in 1 .. 32 |-> ((rem[i - 1] * Base + dividend[i]) \div div) % Base]
TargetOf(d) == IF Divisor(d) <= 1 THEN PDIFF1_BE ELSE Quotient(PDIFF1_BE, Divisor(d))

\* The first byte that differs decides; byte 0 is the most significant.
HashLeqTarget(hash, target) ==
  \A i \in 1 .. 32 : (\A j \in 1 .. i - 1 : hash[j] = target[j]) => hash[i] <= target[i]

-----------------------------------------------------------------------------
\* NotifyParams::parse: nine parameters, each of its JSON type.
Parses(offer) == ~offer.misshapen

\* A job is published with the extranonce1 of its session.
StratumJob(offer, x) == [offer |-> offer, extranonce1 |-> x]

\* What notify_to_template can map; anything else leaves the loop idle.
Mappable(job) ==
  LET o == job.offer IN
  /\ Radix(o.version) /\ Radix(o.nbits) /\ Radix(o.ntime)
  /\ Bytes(o.prev, 32)
  /\ o.coinb1 # NotHex /\ o.coinb2 # NotHex
  /\ \A i \in 1 .. Len(o.branch) : Bytes(o.branch[i], 32)
  /\ Bytes(job.extranonce1, 4)

Mapped(job, d) ==
  LET o == job.offer IN
  [id |-> o.id,
   version |-> FromBE(o.version), bits |-> FromBE(o.nbits), time |-> FromBE(o.ntime),
   prev |-> Reverse(o.prev), target |-> TargetOf(d),
   prefix |-> o.coinb1, suffix |-> o.coinb2, branch |-> o.branch,
   xn1 |-> FromLE(job.extranonce1)]

\* Mutant: the miner's half takes the low bytes of the slot.
ComposeSwapped(low, high) == high + low * Values
ComposeExtranonce(low, high) == low + high * Values

CoinbaseTxid(w, n) == Sha256d(w.prefix \o LE64(ComposeExtranonce(w.xn1, n)) \o w.suffix)
\* One level up: the sibling is on the right of an even node, on the left of an
\* odd one.
Parent(node, sibling) ==
  [hash |-> Sha256d(IF node.index % 2 = 0 THEN node.hash \o sibling
                    ELSE sibling \o node.hash),
   index |-> node.index \div 2]
MerkleRoot(leaf, branch, leafIndex) ==
  LET node[k \in 0 .. Len(branch)] ==
        IF k = 0 THEN [hash |-> leaf, index |-> leafIndex]
        ELSE Parent(node[k - 1], branch[k])
  IN  node[Len(branch)].hash
Header84(w, merkle, nonce) ==
  LEBytes(w.version) \o w.prev \o merkle
    \o LE64(w.time) \o LEBytes(w.bits) \o LEBytes(nonce)

\* The header of a launch, and what the devices are given of it.
HeaderOf(w, n, nonce) == Header84(w, MerkleRoot(CoinbaseTxid(w, n), w.branch, 0), nonce)
OnDevice(device, header, nonce) ==
  LET mid == Midstate(header)
      tail16 == SubSeq(header, 65, 80)
      tail == tail16 \o LEBytes(nonce)
  IN  IF device = "gpu" THEN KernelHash(mid, InnerPrefix(mid, tail16), tail)
      ELSE FinishFromMidstate(mid, tail)

\* The fields of mining.submit.
BuildSubmit(w, n, nonce) ==
  [id |-> w.id, xn2 |-> LEBytes(n), ntime |-> BEBytes(w.time % Values),
   nonce |-> BEBytes(nonce)]

\* A device tries a nonce; what it reports is hashed again before it is sent.
Tried(device, w, n, nonce) ==
  LET claimed == OnDevice(device, HeaderOf(w, n, 0), nonce)
      again == Sha256d(HeaderOf(w, n, nonce))
  IN  [fields |-> BuildSubmit(w, n, nonce),
       sent |-> /\ HashLeqTarget(claimed, w.target)
                /\ again = claimed
                /\ HashLeqTarget(again, w.target)]

-----------------------------------------------------------------------------
Init ==
  /\ extranonce1 \in Extranonces
  /\ slot = Nothing /\ work = Nothing /\ verdict = Nothing
  /\ difficulty = 2
  /\ xn2 \in Seeds

\* Bound: the pushes of one job, which MiningLoop interleaves with the launches,
\* all come before the loop has it.
Waiting == work = Nothing

SetDifficulty ==
  /\ Waiting
  /\ difficulty' \in Difficulties
  /\ UNCHANGED <<extranonce1, slot, work, xn2, verdict>>

\* dispatch_frame: a push that does not parse leaves the slot alone.
Notify ==
  /\ Waiting
  /\ \E offer \in Offers :
       slot' = IF Parses(offer) THEN StratumJob(offer, extranonce1) ELSE slot
  /\ UNCHANGED <<extranonce1, difficulty, work, xn2, verdict>>

\* next_work: the latest job at the difficulty of now, or idle.
Intake ==
  /\ Waiting /\ slot # Nothing
  /\ work' = IF Mappable(slot)
             THEN [template |-> Mapped(slot, difficulty), job |-> slot,
                   difficulty |-> difficulty]
             ELSE Nothing
  /\ UNCHANGED <<extranonce1, slot, difficulty, xn2, verdict>>

Try(device, nonce) ==
  /\ work # Nothing /\ verdict = Nothing
  /\ verdict' = Tried(device, work.template, xn2, nonce)
  /\ UNCHANGED <<extranonce1, slot, difficulty, work, xn2>>

\* The next launch: wrapping_add.
Roll ==
  /\ verdict # Nothing
  /\ verdict' = Nothing
  /\ xn2' = (xn2 + 1) % Values
  /\ xn2' \in Rolled
  /\ UNCHANGED <<extranonce1, slot, difficulty, work>>

Next ==
  \/ SetDifficulty \/ Notify \/ Intake \/ Roll
  \/ \E device \in {"cpu", "gpu"}, nonce \in Nonces : Try(device, nonce)

Spec == Init /\ [][Next]_vars

-----------------------------------------------------------------------------
\* The bridge, as the golden header of mapping.rs' tests documents it: it
\* reassembles the header from the job it sent and the fields it received, and
\* compares hash and target as big numbers.
BridgeRoot(leaf, branch) ==
  LET root[k \in 0 .. Len(branch)] ==
        IF k = 0 THEN leaf ELSE Sha256d(root[k - 1] \o branch[k])
  IN  root[Len(branch)]
BridgeHeader(job, f) ==
  LET o == job.offer
      leaf == Sha256d(o.coinb1 \o job.extranonce1 \o f.xn2 \o o.coinb2)
  IN  LEBytes(FromBE(o.version)) \o Reverse(o.prev) \o BridgeRoot(leaf, o.branch)
        \o LE64(FromBE(f.ntime)) \o LEBytes(FromBE(o.nbits)) \o Reverse(f.nonce)

\* n times d, with one more digit in front; carry[k] is carried out of the k
\* least significant digits.
Times(n, d) ==
  LET carry[k \in 0 .. 32] ==
        IF k = 0 THEN 0 ELSE (n[33 - k] * d + carry[k - 1]) \div Base
  IN  <<carry[32]>> \o [i \in 1 .. 32 |-> (n[i] * d + carry[32 - i]) % Base]
AtMost(a, b) ==
  \/ a = b
  \/ \E i \in DOMAIN a : a[i] < b[i] /\ \A j \in 1 .. i - 1 : a[j] = b[j]

Credits(job, d, f) ==
  AtMost(Times(Sha256d(BridgeHeader(job, f)), Divisor(d)), <<0>> \o PDIFF1_BE)

\* The miner sends a nonce exactly when the bridge credits what is sent: the
\* two build the same 84 bytes from opposite ends of the wire (byte orders, the
\* split of the extranonce, the widened time, the branch), the devices' short
\* cuts hash them to the same digest, and the target of the long division with
\* the lexicographic comparison is the bridge's on big numbers.
SameVerdict ==
  verdict # Nothing => (verdict.sent <=> Credits(work.job, work.difficulty, verdict.fields))
=============================================================================
