-------------------------------- MODULE Tally --------------------------------
(* The arbitrary-precision integers of as-tally, scaled down: a half digit (u16
   in the code) is one of 0 .. H - 1 and a word (u32) is two of them. A number is
   the sequence of its half digits, least significant first, and its length is
   part of it: results grow with their operands and are never cut to a width.

   The loops of the code are recursive functions. *)
EXTENDS Integers, Sequences

CONSTANTS
    H,          \* 2^16 in the code, a power of two
    D           \* words of a number made without a length: 8 in the code

ASSUME TallyAssumption == H \in {2, 4, 8, 16} /\ D \in Nat \ {0}

W == H * H

------------------------------------------------------------------------------
(* Half digits, words and values. *)
Half(a, i) == IF i < Len(a) THEN a[i + 1] ELSE 0
Words(a) == Len(a) \div 2
Word(a, i) == Half(a, 2 * i) + H * Half(a, 2 * i + 1)

OfWords(w) == [i \in 1..(2 * Len(w)) |->
                  IF i % 2 = 1 THEN w[(i + 1) \div 2] % H ELSE w[i \div 2] \div H]

Number == Seq(Int)

ValueOf[a \in Number] == IF a = <<>> THEN 0 ELSE Head(a) + H * ValueOf[Tail(a)]
Value(a) == ValueOf[a]

OfValue(n, words) == [i \in 1..(2 * words) |-> (n \div H^(i - 1)) % H]

Empty == [i \in 1..(2 * D) |-> 0]
FromU32(n) == OfValue(n, D)

Larger(m, n) == IF m > n THEN m ELSE n
Significant(a) ==
    LET s == {i \in 1..Len(a) : a[i] # 0}
    IN  IF s = {} THEN 0 ELSE CHOOSE i \in s : \A j \in s : j <= i
SignificantWords(a) == (Significant(a) + 1) \div 2

IsZero(a) == \A i \in 1..Len(a) : a[i] = 0
IsNeg(a) == Word(a, Words(a) - 1) >= W \div 2

------------------------------------------------------------------------------
(* add notes the carry of the sum of two words, not that of adding a carry. *)
Add(a, b) ==
    LET n == Larger(Words(a), Words(b))
        t(i) == Word(a, i) + Word(b, i)
        carry(i) == IF i > 0 /\ t(i - 1) > W - 1 THEN 1 ELSE 0
        c == [i \in 1..(n + 1) |-> IF i = n + 1 THEN carry(n) ELSE (carry(i - 1) + t(i - 1)) % W]
    IN  OfWords(IF c[n + 1] > 0 THEN c ELSE SubSeq(c, 1, n))

(* sub borrows from the words above, one by one while they are zero. *)
CarryFrom[w \in Number] ==
    IF w = <<>> THEN <<>>
    ELSE LET h == (Head(w) - 1) % W
         IN  <<h>> \o (IF h = W - 1 THEN CarryFrom[Tail(w)] ELSE Tail(w))

CarryOnce(w) == IF w = <<>> THEN <<>> ELSE <<(Head(w) - 1) % W>> \o Tail(w)

Carry(w) == CarryFrom[w]

SubFrom[w \in Number, v \in Number] ==
    IF w = <<>> THEN <<>>
    ELSE LET borrow == Head(w) < Head(v)
         IN  <<Head(w) + (IF borrow THEN W ELSE 0) - Head(v)>>
                \o SubFrom[IF borrow THEN Carry(Tail(w)) ELSE Tail(w), Tail(v)]

SubUnborrowed(a, b) ==
    OfWords([i \in 1..Larger(Words(a), Words(b)) |-> Word(a, i - 1) - Word(b, i - 1)])

Sub(a, b) ==
    LET words(c) == [i \in 1..Larger(Words(a), Words(b)) |-> Word(c, i - 1)]
    IN  OfWords(SubFrom[words(a), words(b)])

Neg(a) == Sub(Empty, a)
Abs(a) == IF IsNeg(a) THEN Neg(a) ELSE a

(* mul: the schoolbook product on half digits, row by row; the last carry of a
   row takes the place above it. *)
MulRow[c \in Number, d \in Nat, b \in Number, carry \in Nat] ==
    IF b = <<>> THEN <<carry>> \o Tail(c)
    ELSE LET temp == Head(c) + carry + d * Head(b)
         IN  <<temp % H>> \o MulRow[Tail(c), d, Tail(b), temp \div H]

MulFrom[c \in Number, a \in Number, b \in Number] ==
    IF a = <<>> THEN c
    ELSE LET row == MulRow[c, Head(a), b, 0]
         IN  <<Head(row)>> \o MulFrom[Tail(row), Tail(a), b]

MulTruncated(a, b) ==
    SubSeq(MulFrom[[i \in 1..(Len(a) + Len(b)) |-> 0], a, b], 1, Larger(Len(a), Len(b)))

Mul(a, b) ==
    LET c == MulFrom[[i \in 1..(Len(a) + Len(b)) |-> 0], a, b]
        n == Larger(SignificantWords(c), Larger(Words(a), Words(b)))
    IN  IF n < Words(c) THEN SubSeq(c, 1, 2 * n) ELSE c

Pown[a \in Number, n \in Nat] == 
    IF n = 0 THEN FromU32(1) ELSE IF n = 1 THEN a ELSE Mul(Pown[a, n - 1], a)

------------------------------------------------------------------------------
LessAnywhere(a, b, n) == \E i \in 0..(n - 1) : Word(a, i) < Word(b, i)

LessBelow(a, b, n) ==
    \E i \in 0..(n - 1) : /\ Word(a, i) < Word(b, i)
                          /\ \A j \in (i + 1)..(n - 1) : Word(a, j) = Word(b, j)

Lt(a, b) == LessBelow(a, b, Larger(Words(a), Words(b)))
Gt(a, b) == Lt(b, a)
Eq(a, b) == \A i \in 0..(Larger(Words(a), Words(b)) - 1) : Word(a, i) = Word(b, i)

(* lt_t starts at the top word of a, whatever b has above it. *)
LtT(a, b) == LessBelow(a, b, Words(a))

SltUnsigned(a, b) == Lt(a, b)

Slt(a, b) == IF IsNeg(a) # IsNeg(b) THEN ~Lt(a, b) ELSE Lt(a, b)
Sgt(a, b) == IF IsNeg(a) # IsNeg(b) THEN ~Gt(a, b) ELSE Gt(a, b)

------------------------------------------------------------------------------
(* Long division: _findDiv guesses the next digit of the quotient from the top
   digits, and searches for it by halving when the guess is too large. *)
FindDigit[b \in Number, t \in Number, max \in Nat, min \in Nat, current \in Nat] ==
    LET v == Mul(b, FromU32(current))
        next == (current + (IF Gt(v, t) THEN min ELSE max)) \div 2
    IN  IF Eq(v, t) \/ next = current THEN current
        ELSE IF Gt(v, t) THEN FindDigit[b, t, current, min, next]
        ELSE FindDigit[b, t, max, current, next]

GuessLow(t, b) ==
    LET m == Significant(t)
        n == Significant(b)
    IN  IF m = n THEN t[m] \div b[n] ELSE (t[m] * H) \div b[n]

Guess(t, b) ==
    LET m == Significant(t)
        n == Significant(b)
        q == (t[m] * H + t[m - 1]) \div b[n]
    IN  IF m = n THEN (t[m] + 1) \div b[n] ELSE IF q < H THEN q ELSE H - 1

FindDiv(t, b) ==
    LET m == Significant(t)
        n == Significant(b)
        max == Guess(t, b)
        prod == Mul(b, FromU32(max))
        min == t[m] \div (b[n] + 1)
        found == FindDigit[b, t, max + 1, min, (max + 1 + min) \div 2]
    IN  IF m < n THEN [q |-> 0, r |-> t]
        ELSE IF Eq(prod, t) THEN [q |-> max, r |-> Empty]
        ELSE IF Lt(prod, t) THEN [q |-> max, r |-> Sub(t, prod)]
        ELSE [q |-> found, r |-> Sub(t, Mul(b, FromU32(found)))]

Shifted(s, d) == <<d>> \o SubSeq(s, 1, Len(s) - 1)

DivFrom[cat \in Number, set \in Number, a \in Number, b \in Number, pos \in Nat] ==
    LET next == IF Gt(b, set) THEN Shifted(set, a[pos]) ELSE set
        f == FindDiv(next, b)
    IN  IF pos = 0 THEN <<cat, set>>
        ELSE DivFrom[Shifted(cat, f.q), f.r, a, b, IF Gt(b, set) THEN pos - 1 ELSE pos]

DivRem(a, b) ==
    LET n == Larger(Len(a), Len(b))
        s == Significant(b)
        pos == Significant(a) - s
        f == FindDiv([i \in 1..n |-> IF i <= s THEN a[i + pos] ELSE 0], b)
    IN  IF IsZero(b) \/ IsZero(a) THEN <<Empty, Empty>>
        ELSE IF Gt(b, a) THEN <<Empty, a>>
        ELSE DivFrom[[i \in 1..n |-> IF i = 1 THEN f.q ELSE 0], f.r, a, b, pos]

Div(a, b) == DivRem(a, b)[1]
Mod(a, b) == DivRem(a, b)[2]

Magnitude(a) == IF IsNeg(a) THEN Neg(a) ELSE a
Sdiv(a, b) ==
    LET c == Div(Magnitude(a), Magnitude(b)) IN IF IsNeg(a) # IsNeg(b) THEN Neg(c) ELSE c
Smod(a, b) ==
    LET c == Mod(Magnitude(a), Magnitude(b)) IN IF IsNeg(a) THEN Neg(c) ELSE c

AddMod(a, b, c) == Mod(Add(a, b), c)
MulMod(a, b, c) == Mod(Mul(a, b), c)

Gcd[a \in Number, b \in Number] ==
    IF IsZero(b) THEN a ELSE IF IsZero(a) THEN b
    ELSE IF Gt(a, b) THEN Gcd[Mod(a, b), b] ELSE Gcd[a, Mod(b, a)]
LcmUndivided(a, b) == Mul(a, b)

Lcm(a, b) == Div(Mul(a, b), Gcd[a, b])

------------------------------------------------------------------------------
(* Shifts, by bits; a word has WordBits of them. *)
WordBits == CHOOSE k \in 1..8 : 2^k = W

ShrUncarried(a, n) ==
    OfWords([i \in 1..Words(a) |-> Word(a, i - 1 + n \div WordBits) \div 2^(n % WordBits)])

Shr(a, n) ==
    LET offset == n \div WordBits
        k == n % WordBits
        c(i) == IF i + offset < Words(a) THEN Word(a, i + offset) ELSE 0
    IN  OfWords([i \in 1..Words(a) |->
                    (c(i - 1) \div 2^k) + ((c(i) * 2^(WordBits - k)) % W)])

Shl(a, n) == Mul(a, Pown[FromU32(2), n])

Filled[v \in Number, top \in Int, n \in Nat] ==
    IF n = 0 THEN v ELSE Filled[Add(v, Pown[FromU32(2), top]), top - 1, n - 1]

Sar(a, n, bits) == IF IsNeg(a) THEN Filled[Shr(a, n), bits - 1, n] ELSE Shr(a, n)

------------------------------------------------------------------------------
(* Text: toString writes the sign of a negative number, fromString skips it. *)
Digits[a \in Number] ==
    IF IsZero(a) THEN <<>>
    ELSE Append(Digits[Div(a, FromU32(10))], Word(Mod(a, FromU32(10)), 0))

Text(a) == [neg |-> IsNeg(a), digits |-> IF IsZero(a) THEN <<0>> ELSE Digits[Abs(a)]]

OfDigits[res \in Number, s \in Number] ==
    IF s = <<>> THEN res
    ELSE OfDigits[Add(Mul(res, FromU32(10)), FromU32(s[1])), Tail(s)]

OfText(t) == OfDigits[FromU32(0), t.digits]
=============================================================================
