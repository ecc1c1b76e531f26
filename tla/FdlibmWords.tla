---------------------------- MODULE FdlibmWords ----------------------------
(***************************************************************************)
(* The functions of fdlibm that compute on the two words of a double       *)
(* (s_floor.c, s_rint.c, s_scalbn.c, e_fmod.c, e_sqrt.c and so on), over   *)
(* the arithmetic of SoftFloat: a target without a floating-point unit     *)
(* links both.  A double is the integer of its bits; its low word keeps    *)
(* the LowBits last bits of the fraction, its high word the rest.          *)
(***************************************************************************)
EXTENDS FloatReference

CONSTANTS
  LowBits,       \* 32 in the program
  WordOperands,  \* the doubles passed
  OtherWords,    \* second operands
  Shifts         \* n of scalbn and ldexp

\* The low word is the wider, as in the program.
WordSizes == LowBits \in Double.frac \div 2 + 1..Double.frac - 3

HighBits == Double.frac - LowBits      \* the fraction's bits in the high word: 20
SignHi == 2^(Double.exp + HighBits)

HI(x) == x \div 2^LowBits
LO(x) == x % 2^LowBits
Words(hi, lo) == (hi % (2 * SignHi)) * 2^LowBits + lo
Minus(x) == HI(x) >= SignHi            \* the high word as an int is negative
Clear(w, bits) == w - (w % 2^bits)

One == Pack(Double, 0, Bias(Double), 0)
SignBit(x) == Pack(Double, Sign(Double, x), 0, 0)
Power(n) == Pack(Double, 0, Bias(Double) + n, 0)
two54 == Power(Double.frac + 2)
twom54 == Power(-(Double.frac + 2))
huge == Power(Bias(Double))
tiny == Power(1 - Bias(Double))

Times(x, y) == float64_mul(rounding, x, y).z
Plus(x, y) == float64_add(rounding, x, y).z
Less64(x, y) == float64_lt(x, y).z = 1
AtMost(x, y) == float64_le(x, y).z = 1

copysign(x, y) == Magnitude(Double, x) + SignBit(y)
fabs(x) == Magnitude(Double, x)

\* the low word counts for one bit of the high word when it is not zero
NonZero(lo) == Bit(lo # 0)
InfHi == ExpMax(Double) * 2^HighBits
isnan(x) == Bit((HI(x) % SignHi) + (IF HI(x) % 2 = 1 THEN 0 ELSE NonZero(LO(x))) > InfHi)
finite(x) == Bit((HI(x) % SignHi) < InfHi)

\* j0, the exponent of x
Unbiased(x) == Exp(Double, x) - Bias(Double)

-----------------------------------------------------------------------------
(* To an integral value.                                                   *)

\* The bits of x >= 1 below the units.
Fraction(x) == x % 2^(Double.frac - Unbiased(x))

\* a NaN comes back quiet, any other x as it is
Same(x) == IF isnan(x) = 1 THEN PropagateNaN(Double, x, x).z ELSE x

Truncated(x) ==
  IF Unbiased(x) < HighBits THEN Words(Clear(HI(x), HighBits - Unbiased(x)), 0)
  ELSE Words(HI(x), Clear(LO(x), Double.frac - Unbiased(x)))

\* Mutant: the carry out of the low word forgotten
AwayWithoutCarry(x) ==
  IF Unbiased(x) < HighBits
  THEN Words(Clear(HI(x) + 2^(HighBits - Unbiased(x)), HighBits - Unbiased(x)), 0)
  ELSE Words(HI(x), Clear((LO(x) + 2^(Double.frac - Unbiased(x))) % 2^LowBits, Double.frac - Unbiased(x)))

\* One unit more in magnitude, without the fraction.
Away(x) ==
  LET j0 == Unbiased(x)
      lo == LO(x) + 2^(Double.frac - j0)
  IN CASE j0 < HighBits -> Words(Clear(HI(x) + 2^(HighBits - j0), HighBits - j0), 0)
       [] j0 = HighBits -> Words(HI(x) + 1, 0)
       [] j0 > HighBits -> Words(HI(x) + lo \div 2^LowBits, Clear(lo % 2^LowBits, Double.frac - j0))

floor(x) ==
  IF Unbiased(x) < 0 THEN (IF ~Minus(x) THEN 0 ELSE IF fabs(x) # 0 THEN copysign(One, x) ELSE x)
  ELSE IF Unbiased(x) >= Double.frac THEN Same(x)
  ELSE IF Fraction(x) = 0 THEN x
  ELSE IF Minus(x) THEN Away(x) ELSE Truncated(x)

ceil(x) ==
  IF Unbiased(x) < 0 THEN (IF Minus(x) THEN SignBit(x) ELSE IF x # 0 THEN One ELSE x)
  ELSE IF Unbiased(x) >= Double.frac THEN Same(x)
  ELSE IF Fraction(x) = 0 THEN x
  ELSE IF Minus(x) THEN Truncated(x) ELSE Away(x)

\* adding and taking away 2^52 rounds off the fraction
ByAddition(sx, x) ==
  LET TWO52 == copysign(Power(Double.frac), sx)
  IN float64_sub(rounding, Plus(TWO52, x), TWO52).z

\* The program keeps the first bit of the fraction and gathers the others in one,
\* for the addition to round once.
GatherBelowOne(x) ==
  LET kept == Clear(HI(x), HighBits - 3)
      first == (kept \div 2^(HighBits - 1)) % 2 = 1
  IN Words(IF first \/ Frac(Double, x) = 0 THEN kept ELSE kept + 2^(HighBits - 1), LO(x))

Gather(x) ==
  LET h == HighBits - Unbiased(x)        \* the fraction's bits in the high word
      low == Double.frac - Unbiased(x)   \* all of them
  IN IF Fraction(x) % 2^(low - 1) = 0 THEN x
     ELSE IF h = 1 THEN Words(HI(x), 2^(LowBits - 2))
     ELSE IF h > 1 THEN Words(Clear(HI(x), h - 1) + (IF h > 2 THEN 2^(h - 3) ELSE 0), LO(x))
     ELSE Words(HI(x), Clear(LO(x), low - 1) + 2^(low - 2))

rint(x) ==
  IF Unbiased(x) < 0 THEN (IF fabs(x) = 0 THEN x ELSE copysign(ByAddition(x, GatherBelowOne(x)), x))
  ELSE IF Unbiased(x) >= Double.frac THEN Same(x)
  ELSE IF Fraction(x) = 0 THEN x ELSE ByAddition(x, Gather(x))

\* the fraction and the integral part; of a NaN the fraction is a zero
modf(x) ==
  IF Unbiased(x) < 0 THEN [z |-> x, stored |-> SignBit(x)]
  ELSE IF Unbiased(x) >= Double.frac THEN [z |-> SignBit(x), stored |-> Times(x, One)]
  ELSE IF Fraction(x) = 0 THEN [z |-> SignBit(x), stored |-> x]
  ELSE [z |-> float64_sub(rounding, x, Truncated(x)).z, stored |-> Truncated(x)]

-----------------------------------------------------------------------------
(* The exponent.                                                           *)

ClearExp(x) == Frac(Double, x) + SignBit(x)
WithExp(x, k) == ClearExp(x) + Pack(Double, 0, k, 0)

\* the exponent field, of a subnormal after scaling by two54, and what it is of
ExpTaken(y, scale) == [x |-> y, k |-> Exp(Double, y) - scale]
Scaled(x) == IF Exp(Double, x) = 0 THEN ExpTaken(Times(x, two54), Double.frac + 2) ELSE ExpTaken(x, 0)

frexp(x) ==
  IF Exp(Double, x) = ExpMax(Double) \/ fabs(x) = 0 THEN [z |-> x, stored |-> 0]
  ELSE [z |-> WithExp(Scaled(x).x, Bias(Double) - 1), stored |-> Scaled(x).k - (Bias(Double) - 1)]

\* 50000: further than any exponent
FarShift == 500

\* y with its exponent raised by n to k
Rescaled(y, k, n) ==
  IF k > ExpMax(Double) - 1 \/ (k <= -(Double.frac + 2) /\ n > FarShift) THEN Times(huge, copysign(huge, y))
  ELSE IF k > 0 THEN WithExp(y, k)
  ELSE IF k <= -(Double.frac + 2) THEN Times(tiny, copysign(tiny, y))
  ELSE Times(WithExp(y, k + Double.frac + 2), twom54)

scalbn(x, n) ==
  IF Exp(Double, x) = ExpMax(Double) THEN Same(x)
  ELSE IF fabs(x) = 0 THEN x
  ELSE IF Exp(Double, x) = 0 /\ n < -FarShift THEN Times(tiny, Scaled(x).x)
  ELSE Rescaled(Scaled(x).x, Scaled(x).k + n, n)

RangeChecked(y) == Result(y, IF finite(y) = 0 \/ fabs(y) = 0 THEN {"ERANGE"} ELSE {})
ldexp(x, n) == IF finite(x) = 0 \/ fabs(x) = 0 THEN Exact(x) ELSE RangeChecked(scalbn(x, n))

\* The loops that shift until the first bit is the sign; for zero, and for infinity
\* and NaN, the ends of the int.
INT_MAX == 2^30
ilogb(x) ==
  IF Exp(Double, x) = ExpMax(Double) THEN INT_MAX
  ELSE IF Exp(Double, x) # 0 THEN Unbiased(x)
  ELSE IF fabs(x) = 0 THEN -INT_MAX
  ELSE IF HI(fabs(x)) = 0 THEN -(Bias(Double) - 1) - (HighBits + 1) - CountLeadingZeros(LowBits, LO(x))
  ELSE -(Bias(Double) - 1) - 1 - CountLeadingZeros(HighBits, HI(fabs(x)))

\* for a subnormal the exponent of its format
logb(x) ==
  IF fabs(x) = 0 THEN Inf(Double, 1)
  ELSE IF Exp(Double, x) = ExpMax(Double) THEN Times(x, x)
  ELSE int32_to_float64(IF Exp(Double, x) = 0 THEN 1 - Bias(Double) ELSE Unbiased(x)).z

\* by way of scalb, which saturates the shift
significand(x) ==
  IF Exp(Double, x) = ExpMax(Double) THEN Same(x)
  ELSE IF fabs(x) = 0 THEN x ELSE scalbn(x, -ilogb(x))

nextafter(x, y) ==
  LET up == IF ~Minus(x) THEN ~Minus(y) /\ (HI(x) < HI(y) \/ (HI(x) = HI(y) /\ LO(x) <= LO(y)))
            ELSE Minus(y) /\ (HI(x) < HI(y) \/ (HI(x) = HI(y) /\ LO(x) <= LO(y)))
      next == IF up THEN Words(HI(x) + Bit(LO(x) = 2^LowBits - 1), (LO(x) + 1) % 2^LowBits)
              ELSE Words(HI(x) - Bit(LO(x) = 0), (LO(x) - 1) % 2^LowBits)
  IN IF isnan(x) = 1 \/ isnan(y) = 1 THEN PropagateNaN(Double, x, y).z
     ELSE IF float64_eq(x, y).z = 1 THEN x
     ELSE IF fabs(x) = 0 THEN SignBit(y) + 1
     ELSE IF Exp(Double, next) = ExpMax(Double) THEN Plus(x, x) ELSE next

-----------------------------------------------------------------------------
(* Remainders and the square root: shift, compare and subtract, on a pair of *)
(* words with what is carried from one into the other.                       *)

Pair(hi, lo) == [hi |-> hi, lo |-> lo % 2^LowBits]

\* hx+hx+(lx>>31), lx+lx
Doubled(w) == Pair(2 * w.hi + w.lo \div 2^(LowBits - 1), 2 * w.lo)
\* hx-hy, lx-ly and one less when lx < ly
Subtract(w, v) == Pair(w.hi - v.hi - Bit(w.lo < v.lo), w.lo - v.lo)

\* |x| with its leading bit in its place; the bits of a subnormal are shifted there.
Normal(x) ==
  LET hi == HI(x) % 2^HighBits
      n == 1 - Bias(Double) - ilogb(x)
  IN CASE n <= 0 -> Pair(2^HighBits + hi, LO(x))
       [] n \in 1..LowBits - 1 -> Pair(hi * 2^n + LO(x) \div 2^(LowBits - n), LO(x) * 2^n)
       [] n >= LowBits -> Pair(LO(x) * 2^(n - LowBits), 0)

\* n times: take y away when it fits, and shift
RECURSIVE Divide(_, _, _)
Divide(wx, wy, n) ==
  LET wz == Subtract(wx, wy)
  IN IF n = 0 THEN IF wz.hi >= 0 THEN wz ELSE wx
     ELSE IF wz.hi < 0 THEN Divide(Doubled(wx), wy, n - 1)
     ELSE IF wz = Pair(0, 0) THEN wz ELSE Divide(Doubled(wz), wy, n - 1)

\* Back to a double with the sign bit sx in the high word: the leading bit to its
\* place, and for a subnormal the words to the right.
RECURSIVE Remainder(_, _, _)
Remainder(w, iy, sx) ==
  LET n == 1 - Bias(Double) - iy
  IN IF w.hi < 2^HighBits THEN Remainder(Doubled(w), iy - 1, sx)
     ELSE CASE n <= 0 -> Words(w.hi - 2^HighBits + (iy + Bias(Double)) * 2^HighBits + sx, w.lo)
            [] n \in 1..HighBits ->
                 Times(Words(w.hi \div 2^n + sx, (w.lo \div 2^n + w.hi * 2^(LowBits - n)) % 2^LowBits), One)
            [] n \in HighBits + 1..LowBits - 1 ->
                 Times(Words(sx, (w.hi * 2^(LowBits - n) + w.lo \div 2^n) % 2^LowBits), One)
            [] n >= LowBits -> Times(Words(sx, w.hi \div 2^(n - LowBits)), One)

ieee754_fmod(x, y) ==
  LET w == Divide(Normal(x), Normal(y), ilogb(x) - ilogb(y))
  IN IF fabs(y) = 0 \/ Exp(Double, x) = ExpMax(Double) \/ isnan(y) = 1
     THEN (IF isnan(x) = 1 \/ isnan(y) = 1 THEN PropagateNaN(Double, x, y).z ELSE DefaultNaN(Double))
     ELSE IF fabs(x) < fabs(y) THEN x
     ELSE IF fabs(x) = fabs(y) \/ w = Pair(0, 0) THEN SignBit(x)
     ELSE Remainder(w, ilogb(y), HI(SignBit(x)))

\* one p less, if a half of p is not above x
TakenAgain(x, p) ==
  IF IF Exp(Double, p) < 2 THEN AtMost(p, Plus(x, x)) ELSE AtMost(Times(Power(-1), p), x)
  THEN float64_sub(rounding, x, p).z ELSE x

\* x - p, and once more, if x is above a half of p
Nearest(x, p) ==
  IF IF Exp(Double, p) < 2 THEN Less64(p, Plus(x, x)) ELSE Less64(Times(Power(-1), p), x)
  THEN TakenAgain(float64_sub(rounding, x, p).z, p) ELSE x

\* the sign bit of x turns that of r
TurnedBy(r, x) == IF Minus(x) THEN (IF Minus(r) THEN fabs(r) ELSE r + SignBit(x)) ELSE r

ieee754_remainder(x, p) ==
  IF fabs(p) = 0 \/ Exp(Double, x) = ExpMax(Double) \/ isnan(p) = 1
  THEN (IF isnan(x) = 1 \/ isnan(p) = 1 THEN PropagateNaN(Double, x, p).z ELSE DefaultNaN(Double))
  ELSE IF fabs(x) = fabs(p) THEN SignBit(x)
  ELSE LET r == IF Exp(Double, p) < ExpMax(Double) - 1 THEN ieee754_fmod(x, Plus(p, p)) ELSE x
       IN TurnedBy(Nearest(fabs(r), fabs(p)), x)

\* A subnormal before its root: words while the high one is empty, then bits.  The
\* last shift is by LowBits when no bit is missing, undefined in C: the word comes
\* out empty, or unshifted.
RECURSIVE LeadingBitUp(_, _, _)
LeadingBitUp(w, m, unshifted) ==
  LET i == CountLeadingZeros(HighBits + 1, w.hi)
      above == IF i > 0 THEN w.lo \div 2^(LowBits - i) ELSE IF unshifted THEN w.lo ELSE 0
  IN IF w.hi = 0
     THEN LeadingBitUp(Pair(w.lo \div 2^(LowBits - HighBits - 1), w.lo * 2^(HighBits + 1)), m - (HighBits + 1), unshifted)
     ELSE [w |-> Pair(w.hi * 2^i + above, w.lo * 2^i), m |-> m - (i - 1)]

\* The bits of the root, one more than the fraction has, first those in the high
\* word and then those in the low: q so far, s twice q, r the bit tried.
RECURSIVE RootHigh(_, _, _, _)
RootHigh(w, s, q, r) ==
  LET t == s + r
  IN IF r = 0 THEN [w |-> w, s |-> s, q |-> q]
     ELSE IF t <= w.hi THEN RootHigh(Doubled(Pair(w.hi - t, w.lo)), t + r, q + r, r \div 2)
     ELSE RootHigh(Doubled(w), s, q, r \div 2)

RECURSIVE RootLow(_, _, _, _)
RootLow(w, s, q1, r) ==
  LET t == Pair(s.hi, s.lo + r)
      lo == (t.lo + r) % 2^LowBits
      carry == Bit(t.lo >= 2^(LowBits - 1) /\ lo < 2^(LowBits - 1))
  IN IF r = 0 THEN [w |-> w, q1 |-> q1]
     ELSE IF t.hi < w.hi \/ (t.hi = w.hi /\ t.lo <= w.lo)
     THEN RootLow(Doubled(Subtract(w, t)), Pair(s.hi + carry, lo), q1 + r, r \div 2)
     ELSE RootLow(Doubled(w), s, q1, r \div 2)

\* one-tiny and one+tiny tell the rounding mode
RoundRoot(q, low) ==
  IF low.w = Pair(0, 0) \/ Less64(float64_sub(rounding, One, tiny).z, One) THEN Pair(q, low.q1)
  ELSE IF low.q1 = 2^LowBits - 1 THEN Pair(q + 1, 0)
  ELSE IF Less64(One, Plus(One, tiny)) THEN Pair(q + Bit(low.q1 = 2^LowBits - 2), low.q1 + 2)
  ELSE Pair(q, low.q1 + (low.q1 % 2))

\* half of q, with the exponent in the high word
RootWords(q, exp) == Words(q.hi \div 2 + exp * 2^HighBits, q.lo \div 2 + (q.hi % 2) * 2^(LowBits - 1))

\* of the number with the exponent m, the bits ix of its words in place
RootOf(ix, m) ==
  LET high == RootHigh(Doubled(IF m % 2 = 1 THEN Doubled(ix) ELSE ix), 0, 0, 2^(HighBits + 1))
  IN RootWords(RoundRoot(high.q, RootLow(high.w, Pair(high.s, 0), 0, 2^(LowBits - 1))), Bias(Double) - 1 + m \div 2)

ieee754_sqrt(x, unshifted) ==
  IF isnan(x) = 1 THEN PropagateNaN(Double, x, x).z
  ELSE IF fabs(x) = 0 THEN x
  ELSE IF Minus(x) THEN DefaultNaN(Double)
  ELSE IF finite(x) = 0 THEN x
  ELSE LET a == IF Exp(Double, x) # 0 THEN [w |-> Pair(HI(x), LO(x)), m |-> Exp(Double, x)]
                ELSE LeadingBitUp(Pair(HI(x), LO(x)), 0, unshifted)
       IN RootOf(Pair((a.w.hi % 2^HighBits) + 2^HighBits, a.w.lo), a.m - Bias(Double))

-----------------------------------------------------------------------------
(* One call.                                                               *)

VARIABLE stored     \* what modf and frexp store through their second argument

wordVars == <<vars, stored>>

Call(op, x, y, result) == Returns(op, Double, x, y, Exact(result)) /\ UNCHANGED stored

CallStoring(op, x, result) == \E r \in {result} : Returns(op, Double, x, 0, Exact(r.z)) /\ stored' = r.stored

Integral ==
  \E x \in WordOperands :
    \/ Call("floor", x, 0, floor(x))
    \/ Call("ceil", x, 0, ceil(x))
    \/ Call("rint", x, 0, rint(x))
    \/ CallStoring("modf", x, modf(x))
    \/ Call("isnan", x, 0, isnan(x))
    \/ Call("finite", x, 0, finite(x))

ByPowersOfTwo ==
  \E x \in WordOperands :
    \/ CallStoring("frexp", x, frexp(x))
    \/ Call("ilogb", x, 0, ilogb(x))
    \/ Call("logb", x, 0, logb(x))
    \/ Call("significand", x, 0, significand(x))
    \/ \E n \in Shifts :
         \/ Call("scalbn", x, n, scalbn(x, n))
         \/ Returns("ldexp", Double, x, n, ldexp(x, n)) /\ UNCHANGED stored

Dividing ==
  \E x \in WordOperands :
    \/ \E unshifted \in BOOLEAN : Call("ieee754_sqrt", x, 0, ieee754_sqrt(x, unshifted))
    \/ \E y \in OtherWords :
         \/ Call("nextafter", x, y, nextafter(x, y))
         \/ Call("fmod", x, y, ieee754_fmod(x, y))
         \/ Call("remainder", x, y, ieee754_remainder(x, y))

WordsNext ==
  /\ call = NoCall
  /\ Integral \/ Dividing \/ ByPowersOfTwo

WordsSpec == Init /\ stored = 0 /\ [][WordsNext]_wordVars

-----------------------------------------------------------------------------
(* Properties.                                                             *)

\* x as a multiple of 2^e0, the smallest step of the format, is too wide for an
\* integer: values are compared through the rounding of the reference.
RoundedTo(rm, x) ==
  LET v == Value(Double, x)
  IN IF IsNaN(Double, x) \/ Exp(Double, x) = ExpMax(Double) THEN Same(x) ELSE IeeeRound(Double, rm, x).z

\* x minus the quotient cut to an integer, times y
TruncatedRem(x, y) ==
  LET a == Value(Double, x)
      b == Value(Double, y)
      d == a.e - b.e
      r == IF d >= 0 THEN TimesPowerMod(a.n, d, b.n) ELSE a.n % (b.n * 2^(-d))
  IN IF SomeNaN(Double, {x, y}) \/ IsInf(Double, x) \/ b.n = 0 THEN DefaultNaN(Double)
     ELSE IF IsInf(Double, y) \/ a.n = 0 \/ d < -12 THEN x
     ELSE Rounded(Double, "to_zero", a.s, r, IF d < 0 THEN a.e ELSE b.e).z

\* the doubles in order are consecutive integers, but for the two zeros
Neighbour(x, y) ==
  LET place(f) == PlusMinus(Sign(Double, f), Magnitude(Double, f))
      next == place(x) + (IF place(y) > place(x) THEN 1 ELSE -1)
      sign == IF next = 0 THEN Sign(Double, x) ELSE Bit(next < 0)
  IN IF SomeNaN(Double, {x, y}) THEN DefaultNaN(Double)
     ELSE IF place(x) = place(y) THEN x ELSE Pack(Double, sign, 0, Abs(next))

WordFunctions == {"floor", "ceil", "rint", "modf", "isnan", "finite", "frexp", "ilogb", "logb", "significand",
                  "scalbn", "ldexp", "ieee754_sqrt", "nextafter", "fmod", "remainder"}

ExpectedWord ==
  LET x == call.a
      y == call.b
      v == Value(Double, x)
      e == Log2(v.n) + v.e
      plain == ~IsNaN(Double, x) /\ ~IsInf(Double, x)
  IN CASE call.op = "floor" -> RoundedTo("down", x)
       [] call.op = "ceil" -> RoundedTo("up", x)
       [] call.op = "isnan" -> Bit(IsNaN(Double, x))
       [] call.op = "finite" -> Bit(plain)
       [] call.op = "modf" ->
            IF x = RoundedTo("to_zero", x) \/ IsNaN(Double, x) THEN SignBit(x)
            ELSE IeeeAdd(Double, rounding, x, Neg(Double, RoundedTo("to_zero", x))).z
       [] call.op = "frexp" ->
            IF ~plain \/ v.n = 0 THEN x ELSE Rounded(Double, rounding, v.s, v.n, v.e - e - 1).z
       [] call.op = "ilogb" -> IF ~plain THEN INT_MAX ELSE IF v.n = 0 THEN -INT_MAX ELSE e
       [] call.op = "logb" ->
            IF IsNaN(Double, x) THEN Same(x) ELSE IF IsInf(Double, x) THEN Inf(Double, 0)
            ELSE IF v.n = 0 THEN Inf(Double, 1)
            ELSE Rounded(Double, rounding, Bit(e < 0), Abs(IF Exp(Double, x) = 0 THEN 1 - Bias(Double) ELSE e), 0).z
       [] call.op = "significand" ->
            IF ~plain THEN Same(x) ELSE IF v.n = 0 THEN x ELSE Rounded(Double, rounding, v.s, v.n, v.e - e).z
       [] call.op \in {"scalbn", "ldexp"} ->
            IF ~plain THEN (IF call.op = "ldexp" THEN x ELSE Same(x)) ELSE IF v.n = 0 THEN x
            ELSE Rounded(Double, rounding, v.s, v.n, v.e + y).z
       [] call.op = "ieee754_sqrt" -> IeeeSqrt(Double, rounding, x).z
       [] call.op = "remainder" -> IeeeRem(Double, x, y).z
       [] call.op = "fmod" -> TruncatedRem(x, y)
       [] call.op = "nextafter" ->
            IF IsInf(Double, Neighbour(x, y)) /\ ~IsInf(Double, x) THEN IeeeAdd(Double, rounding, x, x).z
            ELSE Neighbour(x, y)

\* The sign of a zero that x - p leaves in Nearest depends on the rounding mode.
ZeroOfEitherSign == call.op = "remainder" /\ rounding = "down" /\ fabs(z) = 0

IsResult(r) ==
  IF call.op \in {"nextafter", "fmod", "remainder", "floor", "ceil", "logb", "significand", "scalbn", "ldexp", "ieee754_sqrt"}
     /\ IsNaN(Double, r)
  THEN IsNaN(Double, z) ELSE z = r \/ (ZeroOfEitherSign /\ fabs(r) = 0)

\* The functions return, in every rounding mode and through every carry and borrow
\* between the two words: floor, ceil and modf the integral value below, above and
\* towards zero, nextafter the neighbour, frexp, ilogb and significand the exponent
\* and the rest, fmod and remainder the exact remainder (s_floor.c:16, e_fmod.c:16,
\* e_remainder.c:15-18), and scalbn and the square root the exact result rounded once
\* in the prevailing mode.  What a reader might not expect, as the program has it:
\* ceil rounds up, where its comment says "toward -inf" (s_ceil.c:16); logb of a
\* subnormal is the exponent of its format; modf gives a zero for the fraction of a
\* NaN; beyond the largest double nextafter gives x+x, which some rounding modes leave
\* at the largest; and rounding down a zero remainder may have the other sign than x.
WordsTell ==
  /\ call.op \in WordFunctions \ {"rint"} => IsResult(ExpectedWord)
  /\ call.op = "modf" => stored = RoundedTo("to_zero", call.a)
  /\ call.op = "frexp" =>
       stored = IF finite(call.a) = 0 \/ fabs(call.a) = 0 THEN 0
                ELSE Log2(PlainSig(Double, call.a)) + Value(Double, call.a).e + 1

\* s_rint.c:16 says of rint "Return x rounded to integral value according to the
\* prevailing rounding mode".
RintRounds == call.op = "rint" => IF IsNaN(Double, call.a) THEN IsNaN(Double, z) ELSE z = RoundedTo(rounding, call.a)

=============================================================================
