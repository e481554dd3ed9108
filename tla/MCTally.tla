------------------------------- MODULE MCTally -------------------------------
(* Any sequence of calls on two numbers: the first is replaced by the result. *)
EXTENDS Tally

CONSTANTS MaxWords      \* bound on the length of the first number

VARIABLES x, y
vars == <<x, y>>

Numbers(words) == {OfValue(n, words) : n \in 0..(W^words - 1)}

Init == x \in Numbers(D) /\ y \in Numbers(D)

Becomes(c) == x' \in {c} /\ Words(x') <= MaxWords /\ y' = y

DoAdd == Becomes(Add(x, y))
DoSub == Becomes(Sub(x, y))
DoMul == Becomes(Mul(x, y))
DoDiv == Becomes(Div(x, y))
DoMod == Becomes(Mod(x, y))

Next == DoAdd \/ DoSub \/ DoMul \/ DoDiv \/ DoMod

Spec == Init /\ [][Next]_vars

------------------------------------------------------------------------------
A == Value(x)
B == Value(y)
Signed(n) == IF IsNeg(n) THEN Value(n) - W^Words(n) ELSE Value(n)

TypeOK ==
    /\ x \in UNION {[1..(2 * n) -> 0..(H - 1)] : n \in D..MaxWords}
    /\ y \in [1..(2 * D) -> 0..(H - 1)]

(* A product has as many words as it needs: nothing of it is lost. *)
MulIsExact == Value(Mul(x, y)) = A * B

(* A difference wraps at the longer of the two lengths, through any number of
   borrows. *)
SubWraps == Value(Sub(x, y)) = (A - B) % W^Larger(Words(x), Words(y))

(* Products and differences are those of integers, the first at whatever length
   it needs, the second modulo the longer of the two. *)
MulSubExact == MulIsExact /\ SubWraps

(* The quotient found digit by digit and what is left are those of division
   with remainder, and zero when dividing by zero. *)
DivIsEuclidean ==
    \A qr \in {DivRem(x, y)} :
       IF B = 0 THEN IsZero(qr[1]) /\ IsZero(qr[2])
       ELSE Value(qr[1]) * B + Value(qr[2]) = A /\ Value(qr[2]) < B

(* The comparisons word by word, with numbers of different lengths, are those of
   the values; the signed ones those of two's complement at one length. *)
OrderAgrees ==
    /\ Lt(x, y) = (A < B) /\ Gt(x, y) = (A > B) /\ Eq(x, y) = (A = B)
    /\ Words(x) = Words(y) =>
           Slt(x, y) = (Signed(x) < Signed(y)) /\ Sgt(x, y) = (Signed(x) > Signed(y))

(* Shifting right word by word is division by a power of two, and keeps the
   sign when the shift is arithmetic. *)
ShrIsDivision ==
    \A n \in 0..(WordBits * Words(x)) :
        /\ Value(Shr(x, n)) = A \div 2^n
        /\ Words(x) = D /\ n < WordBits * D =>
               Signed(Sar(x, n, WordBits * D)) = Signed(x) \div 2^n

(* Read with their sign, numbers are compared and shifted as what they stand for. *)
OrderAndShiftAgree == OrderAgrees /\ ShrIsDivision

(* The greatest common divisor divides both and the least common multiple is
   the product over it. *)
GcdDivides ==
    A > 0 /\ B > 0 =>
        \A g \in {Value(Gcd[x, y])} :
           /\ A % g = 0 /\ B % g = 0
           /\ \A k \in (g + 1)..B : A % k # 0 \/ B % k # 0
           /\ Words(x) = D => Value(Lcm(x, y)) * g = A * B

(* Long division and what is built from it, repeated remainders and the least
   common multiple, agree with division of integers. *)
DivisionAgrees == DivIsEuclidean /\ GcdDivides

(* Adding gives the sum. *)
AddIsExact == Value(Add(x, y)) = A + B

(* Reading back what was written gives the same number. *)
TextRoundTrip == Eq(OfText(Text(x)), x)
PositiveRoundTrip == ~IsNeg(x) => TextRoundTrip
=============================================================================
