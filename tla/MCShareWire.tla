---------------------------- MODULE MCShareWire ----------------------------
(* Bytes of 2 bits.  Jobs of 0 to 2 branch nodes, and every way a job       *)
(* cannot be mapped.                                                        *)
EXTENDS ShareWire

\* The low bytes of the code's constants.
MCIV == <<103, 133, 114, 58, 127, 140, 171, 25>>
MCK ==
  <<152, 145, 207, 165, 91, 241, 164, 213, 152, 1, 190, 195, 116, 254, 167, 116,
    193, 134, 198, 204, 111, 170, 220, 218, 82, 109, 200, 199, 243, 71, 81, 103,
    133, 56, 252, 19, 84, 187, 46, 133, 161, 75, 112, 163, 25, 36, 133, 112,
    22, 8, 76, 181, 179, 74, 79, 243, 238, 111, 20, 8, 250, 235, 247, 242>>

\* Bit operations are digitwise in the base of a byte, and looked up in tables
\* (tuples, so that they are computed once); rotations are modulo 8.
Digit(x, i) == (x \div 4 ^ i) % 4
ByDigit(Op(_, _), x, y) ==
  Op(Digit(x, 0), Digit(y, 0)) + Op(Digit(x, 1), Digit(y, 1)) * 4
    + Op(Digit(x, 2), Digit(y, 2)) * 16 + Op(Digit(x, 3), Digit(y, 3)) * 64
Table(Op(_, _)) ==
  [x \in 1 .. 256 |-> [y \in 1 .. 256 |-> ByDigit(Op, x - 1, y - 1)] \o <<>>] \o <<>>
XorDigit(a, b) == 2 * (((a \div 2) + (b \div 2)) % 2) + ((a + b) % 2)
AndDigit(a, b) == 2 * (a \div 2) * (b \div 2) + (a % 2) * (b % 2)
XorTable == Table(XorDigit)
AndTable == Table(AndDigit)
MCXor(x, y) == XorTable[x + 1][y + 1]
MCAnd(x, y) == AndTable[x + 1][y + 1]
MCShR(x, n) == x \div 2 ^ n
MCRotR(x, n) == LET k == n % 8 IN MCShR(x, k) + ((x % 2 ^ k) * 2 ^ (8 - k))

Fill(n, a) == [i \in 1 .. n |-> (i * i + a * i + a) % Base]

Plain ==
  [misshapen |-> FALSE, id |-> 1, prev |-> Fill(32, 1), coinb1 |-> Fill(5, 3),
   coinb2 |-> Fill(3, 2), branch |-> <<>>, version |-> <<1, 2, 0, 3>>,
   nbits |-> <<0, 3, 1, 2>>, ntime |-> <<3, 1, 2, 2>>]
OneDeep == [Plain EXCEPT !.id = 2, !.branch = <<Fill(32, 2)>>, !.version = <<2>>]
TwoDeep == [Plain EXCEPT !.id = 3, !.branch = <<Fill(32, 3), Fill(32, 7)>>, !.coinb1 = <<>>]

MCOffers ==
  {Plain, OneDeep, TwoDeep,
   [Plain EXCEPT !.misshapen = TRUE],
   [Plain EXCEPT !.ntime = <<1, 0, 0, 0, 0>>],
   [Plain EXCEPT !.version = <<>>],
   [Plain EXCEPT !.nbits = NotHex],
   [Plain EXCEPT !.prev = Fill(31, 1)],
   [Plain EXCEPT !.coinb2 = NotHex],
   [OneDeep EXCEPT !.branch = <<Fill(33, 2)>>]}
MCExtranonces == {<<1, 2, 3, 0>>, <<3, 0, 0, 2>>, <<1, 2, 3>>, NotHex}
=============================================================================
