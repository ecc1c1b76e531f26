----------------------------- MODULE SoftFloat -----------------------------
(***************************************************************************)
(* softfloat.c: arithmetic on float32 and float64 with integers, and       *)
(* softfloat-for-gcc.c, the names the compiler calls for it.  Both formats *)
(* and the integers are as in the code, with fewer bits: what the code     *)
(* writes as a number (0x7F, 0x3FE, <<7) is written by what it is of the   *)
(* format.  The formats of FLOATX80 and FLOAT128 are not compiled.         *)
(*                                                                         *)
(* One behaviour is one call: it finds a rounding mode and leaves a result *)
(* and the exception flags it raised.                                      *)
(***************************************************************************)
EXTENDS FloatFormat

CONSTANTS
  Single, Double,   \* the formats: float32 and float64
  Int32, Int64,     \* bits of the integers; Int64 is also the width of Double
  IntGuard,         \* bits that roundAndPackInt32 rounds off: 7
  Operands32, Others32, Operands64, Others64,   \* first and second operands
  Ints32, Ints64    \* integers to convert

FormatAssumption ==
  /\ Single.exp < Double.exp /\ Single.frac < Double.frac
  /\ Width(Double) = 2 * Width(Single) /\ Int64 = Width(Double) /\ Int32 <= Width(Single)
  /\ Single.frac >= IntGuard /\ Double.frac >= Int32 + IntGuard /\ IntGuard >= 2
  /\ Bias(Single) + Int64 - 1 < ExpMax(Single)

W32 == Width(Single)
W64 == Width(Double)

\* the largest integer of each sign
Largest(bits, sign) == IF sign = 1 THEN -(2^(bits - 1)) ELSE 2^(bits - 1) - 1

Signed(bits, x) == LET y == x % 2^bits IN IF y >= 2^(bits - 1) THEN y - 2^bits ELSE y

Abs(i) == IF i < 0 THEN -i ELSE i

Inexact(z, lost) == Result(z, IF lost THEN {"inexact"} ELSE {})

Signs(f, a, b) == Xor(Sign(f, a), Sign(f, b))

Inf(f, sign) == Pack(f, sign, ExpMax(f), 0)

IsInf(f, a) == Magnitude(f, a) = Inf(f, 0)

IsZero(f, a) == Magnitude(f, a) = 0

-----------------------------------------------------------------------------
(* The copies for each format, by their names in the code.                 *)

packFloat32(sign, exp, sig) == Pack(Single, sign, exp, sig)
roundAndPackFloat32(rm, sign, exp, sig) == RoundAndPack(Single, rm, sign, exp, sig)
normalizeRoundAndPackFloat32(rm, sign, exp, sig) == NormalizeRoundAndPack(Single, rm, sign, exp, sig)

packFloat64(sign, exp, sig) == Pack(Double, sign, exp, sig)
roundAndPackFloat64(rm, sign, exp, sig) == RoundAndPack(Double, rm, sign, exp, sig)
normalizeRoundAndPackFloat64(rm, sign, exp, sig) == NormalizeRoundAndPack(Double, rm, sign, exp, sig)

-----------------------------------------------------------------------------
(* To and from integers.                                                   *)

roundAndPackInt32(rm, sign, absZ) ==
  LET r == RoundOff(rm, sign, IntGuard, absZ)
      z == Signed(Int32, IF sign = 1 THEN -r ELSE r)
  IN IF r >= 2^Int32 \/ (z # 0 /\ (z < 0) # (sign = 1)) THEN Invalid(Largest(Int32, sign))
     ELSE Inexact(z, absZ % 2^IntGuard # 0)

roundAndPackInt64(rm, sign, absZ0, absZ1) ==
  LET increment == CASE rm = "nearest_even" -> absZ1 >= 2^(Int64 - 1)
                     [] rm = "to_zero" -> FALSE
                     [] rm = "down" -> sign = 1 /\ absZ1 # 0
                     [] rm = "up" -> sign = 0 /\ absZ1 # 0
      tie == rm = "nearest_even" /\ absZ1 % 2^(Int64 - 1) = 0
      next == absZ0 + 1
      r == CASE ~increment -> absZ0 [] increment /\ tie -> next - (next % 2) [] OTHER -> next
      z == Signed(Int64, IF sign = 1 THEN -r ELSE r)
  IN IF (increment /\ next = 2^Int64) \/ (z # 0 /\ (z < 0) # (sign = 1))
     THEN Invalid(Largest(Int64, sign))
     ELSE Inexact(z, absZ1 # 0)

\* shift64ExtraRightJamming with no bits below a
ShiftRightExtra(a, count) ==
  IF count <= W64 THEN <<a \div 2^count, (a % 2^count) * 2^(W64 - count)>> ELSE <<0, Bit(a # 0)>>

int32_to_float32(rm, a) ==
  CASE a = 0 -> Exact(0)
    [] a = Largest(Int32, 1) -> Exact(packFloat32(1, Bias(Single) + Int32 - 1, 0))
    [] OTHER -> normalizeRoundAndPackFloat32(rm, Bit(a < 0), Bias(Single) + W32 - 3, Abs(a))

int32_to_float64(a) ==
  LET shift == CountLeadingZeros(Int32, Abs(a)) + Double.frac - (Int32 - 1)
  IN IF a = 0 THEN Exact(0)
     ELSE Exact(packFloat64(Bit(a < 0), Bias(Double) + Double.frac - 1 - shift, Abs(a) * 2^shift))

int64_to_float32(rm, a) ==
  LET shift == CountLeadingZeros(Int64, Abs(a)) - (Int64 - Single.frac - 1)
      wide == shift + Guard(Single)
  IN CASE a = 0 -> Exact(0)
       [] a # 0 /\ shift >= 0 ->
            Exact(packFloat32(Bit(a < 0), Bias(Single) + Single.frac - 1 - shift, Abs(a) * 2^shift))
       [] OTHER ->
            roundAndPackFloat32(rm, Bit(a < 0), Bias(Single) + W32 - 3 - wide,
                         IF wide < 0 THEN ShiftRightJam(Abs(a), -wide) ELSE Abs(a) * 2^wide)

int64_to_float64(rm, a) ==
  CASE a = 0 -> Exact(0)
    [] a = Largest(Int64, 1) -> Exact(packFloat64(1, Bias(Double) + Int64 - 1, 0))
    [] OTHER -> normalizeRoundAndPackFloat64(rm, Bit(a < 0), Bias(Double) + W64 - 3, Abs(a))

\* what the conversions return for infinities, NaNs and numbers out of range
OutOfRange(f, bits, a) == Invalid(Largest(bits, IF IsNaN(f, a) THEN 0 ELSE Sign(f, a)))

float32_to_int32(rm, a) ==
  LET shift == Bias(Single) + Single.frac + W32 - IntGuard - Exp(Single, a)
      sig == PlainSig(Single, a) * 2^W32
  IN roundAndPackInt32(rm, IF IsNaN(Single, a) THEN 0 ELSE Sign(Single, a),
                       IF 0 < shift THEN ShiftRightJam(sig, shift) ELSE sig)

\* Toward zero, for the integers of either width.
ToIntRoundToZero(f, bits, a) ==
  LET shift == Bias(f) + bits - 1 - Exp(f, a)
      sig == (Frac(f, a) + Hidden(f)) * 2^(bits - 1 - f.frac)
      z == sig \div 2^shift
  IN CASE shift <= 0 -> IF a = Pack(f, 1, Bias(f) + bits - 1, 0) THEN Exact(Largest(bits, 1))
                        ELSE OutOfRange(f, bits, a)
       [] shift > 0 /\ Exp(f, a) < Bias(f) -> Inexact(0, ~IsZero(f, a))
       [] OTHER -> Inexact(IF Sign(f, a) = 1 THEN -z ELSE z, sig % 2^shift # 0)

float32_to_int32_round_to_zero(a) == ToIntRoundToZero(Single, Int32, a)

float32_to_int64(rm, a) ==
  LET shift == Bias(Single) + Int64 - 1 - Exp(Single, a)
      pair == ShiftRightExtra(PlainSig(Single, a) * 2^(Int64 - Single.frac - 1), shift)
  IN IF shift < 0 THEN OutOfRange(Single, Int64, a)
     ELSE roundAndPackInt64(rm, Sign(Single, a), pair[1], pair[2])

float32_to_int64_round_to_zero(a) == ToIntRoundToZero(Single, Int64, a)

float64_to_int32(rm, a) ==
  LET shift == Bias(Double) + Double.frac - IntGuard - Exp(Double, a)
      sig == PlainSig(Double, a)
  IN roundAndPackInt32(rm, IF IsNaN(Double, a) THEN 0 ELSE Sign(Double, a),
                       IF 0 < shift THEN ShiftRightJam(sig, shift) ELSE sig)

float64_to_int32_round_to_zero(a) ==
  LET shift == Bias(Double) + Double.frac - Exp(Double, a)
      sig == Frac(Double, a) + Hidden(Double)
      q == sig \div 2^shift
      z == Signed(Int32, IF Sign(Double, a) = 1 THEN -q ELSE q)
  IN CASE Exp(Double, a) > Bias(Double) + Int32 - 1 -> OutOfRange(Double, Int32, a)
       [] Exp(Double, a) < Bias(Double) -> Inexact(0, ~IsZero(Double, a))
       [] OTHER -> IF (z < 0) # (Sign(Double, a) = 1) THEN OutOfRange(Double, Int32, a)
                   ELSE Inexact(z, q * 2^shift # sig)

float64_to_int64(rm, a) ==
  LET shift == Bias(Double) + Double.frac - Exp(Double, a)
      sig == PlainSig(Double, a)
      pair == IF shift <= 0 THEN <<sig * 2^(-shift), 0>> ELSE ShiftRightExtra(sig, shift)
  IN IF Exp(Double, a) > Bias(Double) + Int64 - 1 THEN OutOfRange(Double, Int64, a)
     ELSE roundAndPackInt64(rm, Sign(Double, a), pair[1], pair[2])

float64_to_int64_round_to_zero(a) ==
  LET shift == Exp(Double, a) - (Bias(Double) + Double.frac)
      sig == PlainSig(Double, a)
      z == IF shift >= 0 THEN sig * 2^shift ELSE sig \div 2^(-shift)
  IN CASE Exp(Double, a) >= Bias(Double) + Int64 - 1 ->
            IF a = packFloat64(1, Bias(Double) + Int64 - 1, 0) THEN Exact(Largest(Int64, 1))
            ELSE OutOfRange(Double, Int64, a)
       [] Exp(Double, a) < Bias(Double) - 1 -> Inexact(0, ~IsZero(Double, a))
       [] OTHER -> Inexact(IF Sign(Double, a) = 1 THEN -z ELSE z,
                           shift < 0 /\ sig % 2^(-shift) # 0)

-----------------------------------------------------------------------------
(* Between the formats, and to an integral float.                          *)

\* The sign and the upper bits of the fraction, made quiet.
float32_to_float64(a) ==
  LET n == Normalized(Single, a)
      up == Double.frac - Single.frac
      bias == Bias(Double) - Bias(Single)
  IN CASE IsNaN(Single, a) ->
            Result(Quieted(Double, packFloat64(Sign(Single, a), ExpMax(Double), Frac(Single, a) * 2^up)),
                   IF IsSignalingNaN(Single, a) THEN {"invalid"} ELSE {})
       [] IsInf(Single, a) -> Exact(Inf(Double, Sign(Single, a)))
       [] IsZero(Single, a) -> Exact(packFloat64(Sign(Single, a), 0, 0))
       [] OTHER -> Exact(packFloat64(Sign(Single, a), n.exp - 1 + bias, n.sig * 2^up))

float64_to_float32(rm, a) ==
  LET down == Double.frac - (W32 - 2)
      sig == ShiftRightJam(Frac(Double, a), down)
  IN CASE IsNaN(Double, a) ->
            Result(Quieted(Single, packFloat32(Sign(Double, a), ExpMax(Single),
                                        Frac(Double, a) \div 2^(Double.frac - Single.frac))),
                   IF IsSignalingNaN(Double, a) THEN {"invalid"} ELSE {})
       [] IsInf(Double, a) -> Exact(Inf(Single, Sign(Double, a)))
       [] IsZero(Double, a) -> roundAndPackFloat32(rm, Sign(Double, a), 0, 0)
       [] OTHER -> roundAndPackFloat32(rm, Sign(Double, a),
                                Exp(Double, a) - (Bias(Double) - Bias(Single) + 1), sig + 2^(W32 - 2))

RoundToInt(f, rm, a) ==
  LET one == Pack(f, Sign(f, a), Bias(f), 0)
      zero == Pack(f, Sign(f, a), 0, 0)
      awayFromZero == (Sign(f, a) = 0) = (rm = "up")
      lastBit == 2^(Bias(f) + f.frac - Exp(f, a))
      moved == CASE rm = "nearest_even" -> a + lastBit \div 2
                 [] rm = "to_zero" -> a
                 [] OTHER -> IF awayFromZero THEN a + lastBit - 1 ELSE a
      even == rm = "nearest_even" /\ moved % lastBit = 0 /\ (moved \div lastBit) % 2 = 1
      z == moved - (moved % lastBit) - (IF even THEN lastBit ELSE 0)
  IN CASE Exp(f, a) >= Bias(f) + f.frac -> IF IsNaN(f, a) THEN PropagateNaN(f, a, a) ELSE Exact(a)
       [] Exp(f, a) < Bias(f) ->
            IF IsZero(f, a) THEN Exact(a)
            ELSE CASE rm = "nearest_even" ->
                        Inexact(IF Exp(f, a) = Bias(f) - 1 /\ Frac(f, a) # 0 THEN one ELSE zero, TRUE)
                   [] rm = "to_zero" -> Inexact(zero, TRUE)
                   [] OTHER -> Inexact(IF awayFromZero THEN one ELSE zero, TRUE)
       [] OTHER -> Inexact(z, z # a)

float32_round_to_int(rm, a) == RoundToInt(Single, rm, a)

float64_round_to_int(rm, a) == RoundToInt(Double, rm, a)

-----------------------------------------------------------------------------
(* Arithmetic.                                                             *)

addFloat32Sigs(rm, a, b, sign) == AddSigs(Single, rm, a, b, sign)
subFloat32Sigs(rm, a, b, sign) == SubSigs(Single, rm, a, b, sign)
addFloat64Sigs(rm, a, b, sign) == AddSigs(Double, rm, a, b, sign)
subFloat64Sigs(rm, a, b, sign) == SubSigs(Double, rm, a, b, sign)

float32_add(rm, a, b) ==
  IF Signs(Single, a, b) = 0 THEN addFloat32Sigs(rm, a, b, Sign(Single, a))
  ELSE subFloat32Sigs(rm, a, b, Sign(Single, a))

float32_sub(rm, a, b) ==
  IF Signs(Single, a, b) = 0 THEN subFloat32Sigs(rm, a, b, Sign(Single, a))
  ELSE addFloat32Sigs(rm, a, b, Sign(Single, a))

float64_add(rm, a, b) ==
  IF Signs(Double, a, b) = 0 THEN addFloat64Sigs(rm, a, b, Sign(Double, a))
  ELSE subFloat64Sigs(rm, a, b, Sign(Double, a))

float64_sub(rm, a, b) ==
  IF Signs(Double, a, b) = 0 THEN subFloat64Sigs(rm, a, b, Sign(Double, a))
  ELSE addFloat64Sigs(rm, a, b, Sign(Double, a))

\* No arithmetic on significands: an operand is a NaN, infinite or zero.
IsSpecial(f, a, b) == \E x \in {a, b} : Exp(f, x) = ExpMax(f) \/ IsZero(f, x)

SpecialMul(f, a, b) ==
  CASE IsNaN(f, a) \/ IsNaN(f, b) -> PropagateNaN(f, a, b)
    [] (IsInf(f, a) /\ IsZero(f, b)) \/ (IsZero(f, a) /\ IsInf(f, b)) -> Invalid(DefaultNaN(f))
    [] OTHER -> Exact(IF IsInf(f, a) \/ IsInf(f, b) THEN Inf(f, Signs(f, a, b))
                      ELSE Pack(f, Signs(f, a, b), 0, 0))

\* sig has its leading bit at Width - 2 or Width - 3.
PackProduct(f, rm, sign, exp, sig) ==
  IF sig < 2^(Width(f) - 2) THEN RoundAndPack(f, rm, sign, exp - 1, 2 * sig)
  ELSE RoundAndPack(f, rm, sign, exp, sig)

float32_mul(rm, a, b) ==
  LET na == Normalized(Single, a)
      nb == Normalized(Single, b)
      g == Guard(Single)
  IN IF IsSpecial(Single, a, b) THEN SpecialMul(Single, a, b)
     ELSE PackProduct(Single, rm, Signs(Single, a, b), na.exp + nb.exp - Bias(Single),
                      ShiftRightJam((na.sig * 2^g) * (nb.sig * 2^(g + 1)), W32))

float64_mul(rm, a, b) ==
  LET na == Normalized(Double, a)
      nb == Normalized(Double, b)
      g == Guard(Double)
  IN IF IsSpecial(Double, a, b) THEN SpecialMul(Double, a, b)
     ELSE PackProduct(Double, rm, Signs(Double, a, b), na.exp + nb.exp - Bias(Double),
                      ShiftRightJam((na.sig * 2^g) * (nb.sig * 2^(g + 1)), W64))

SpecialDiv(f, a, b) ==
  LET sign == Signs(f, a, b)
  IN CASE IsNaN(f, a) \/ IsNaN(f, b) -> PropagateNaN(f, a, b)
       [] (IsInf(f, a) /\ IsInf(f, b)) \/ (IsZero(f, a) /\ IsZero(f, b)) -> Invalid(DefaultNaN(f))
       [] IsInf(f, a) /\ ~IsNaN(f, b) /\ ~IsInf(f, b) -> Exact(Inf(f, sign))
       [] IsZero(f, b) /\ Exp(f, a) < ExpMax(f) /\ ~IsZero(f, a) -> Result(Inf(f, sign), {"divbyzero"})
       [] OTHER -> Exact(Pack(f, sign, 0, 0))

\* The dividend, halved unless it is then too small; and the exponent.
Dividend(f, na, nb) ==
  LET g == Guard(f)
      sig == na.sig * 2^g
      halve == nb.sig * 2^(g + 1) <= 2 * sig
  IN [sig |-> IF halve THEN sig \div 2 ELSE sig,
      exp |-> na.exp - nb.exp + Bias(f) - 2 + Bit(halve)]

float32_div(rm, a, b) ==
  LET nb == Normalized(Single, b)
      d == Dividend(Single, Normalized(Single, a), nb)
      bSig == nb.sig * 2^(Guard(Single) + 1)
      q == (d.sig * 2^W32) \div bSig
      sticky == q % 2^(Guard(Single) - 1) = 0 /\ bSig * q # d.sig * 2^W32
  IN IF IsSpecial(Single, a, b) THEN SpecialDiv(Single, a, b)
     ELSE roundAndPackFloat32(rm, Signs(Single, a, b), d.exp, q + Bit(sticky))

float64_div(rm, a, b) ==
  LET nb == Normalized(Double, b)
      d == Dividend(Double, Normalized(Double, a), nb)
      bSig == nb.sig * 2^(Guard(Double) + 1)
      estimate == EstimateDiv(W64, d.sig, bSig)
      floor == (d.sig * 2^W64) \div bSig
      q == IF estimate > floor THEN floor ELSE estimate
      corrected == q + Bit(bSig * q # d.sig * 2^W64 /\ q % 2 = 0)
  IN IF IsSpecial(Double, a, b) THEN SpecialDiv(Double, a, b)
     ELSE roundAndPackFloat64(rm, Signs(Double, a, b), d.exp,
                       IF estimate % 2^(Guard(Double) - 1) <= 2 THEN corrected ELSE estimate)

\* The shared end of the remainders: b is subtracted until a is negative, and the nearer of the last two is it.
NearestRemainder(f, rm, sign, exp, aSig, b, q) ==
  LET first == Signed(Width(f), aSig - b)
      more == IF first >= 0 THEN first \div b + 1 ELSE 0
      times == 1 + more
      last == first - more * b
      mean == Signed(Width(f), 2 * last + b)
      r == IF mean < 0 \/ (mean = 0 /\ (q + times) % 2 = 1) THEN last + b ELSE last
  IN NormalizeRoundAndPack(f, rm, Xor(sign, Bit(r < 0)), exp, Abs(r))

\* a quotient that is not too large
LowEstimate(a, b) == LET q == EstimateDiv(W64, a, b) IN IF 2 < q THEN q - 2 ELSE 0

\* Exponents far apart: W64 - 2 bits of the quotient at a time.
RECURSIVE Reduce(_, _, _)
Reduce(a, b, diff) ==
  IF diff <= 0 THEN [sig |-> a, diff |-> diff + W64]
  ELSE Reduce((-((b \div 4) * LowEstimate(a, b))) % 2^W64, b, diff - (W64 - 2))

SpecialRem(f, a, b) ==
  IF IsNaN(f, a) \/ IsNaN(f, b) THEN PropagateNaN(f, a, b)
  ELSE IF IsInf(f, a) \/ IsZero(f, b) THEN Invalid(DefaultNaN(f)) ELSE Exact(a)

float32_rem(rm, a, b) ==
  LET na == Normalized(Single, a)
      nb == Normalized(Single, b)
      diff == na.exp - nb.exp
      up == W32 - Single.frac - 1
      aSig == IF diff = -1 THEN (na.sig * 2^up) \div 2 ELSE na.sig * 2^up
      bSig == nb.sig * 2^up
      once == Bit(bSig <= aSig)
      left == aSig - once * bSig
      near == ((left * 2^W32) \div bSig) \div 2^(W32 - diff)
      up64 == W64 - Single.frac - 1
      far == Reduce((na.sig - Bit(nb.sig <= na.sig) * nb.sig) * 2^up64, nb.sig * 2^up64, diff - W64)
      q64 == LowEstimate(far.sig, nb.sig * 2^up64) \div 2^(W64 - far.diff)
      Ends(sig, q) == NearestRemainder(Single, rm, Sign(Single, a), nb.exp, sig, bSig \div 4, q)
  IN IF IsSpecial(Single, a, b) THEN SpecialRem(Single, a, b)
     ELSE CASE diff < -1 -> Exact(a)
            [] diff \in -1..0 -> Ends(left \div 4, once)
            [] 0 < diff /\ diff < W32 -> Ends((left \div 2) * 2^(diff - 1) - (bSig \div 4) * near, near)
            [] OTHER -> Ends((far.sig \div 2^(W64 - W32 + 1)) * 2^(far.diff - 1)
                             - (bSig \div 4) * (q64 % 2^W32), q64 % 2^W32)

float64_rem(rm, a, b) ==
  LET na == Normalized(Double, a)
      nb == Normalized(Double, b)
      diff == na.exp - nb.exp
      up == W64 - Double.frac - 1
      aSig == IF diff = -1 THEN (na.sig * 2^up) \div 2 ELSE na.sig * 2^up
      bSig == nb.sig * 2^up
      once == Bit(bSig <= aSig)
      far == Reduce(aSig - once * bSig, bSig, diff - W64)
      q == LowEstimate(far.sig, bSig) \div 2^(W64 - far.diff)
      Ends(sig, n) == NearestRemainder(Double, rm, Sign(Double, a), nb.exp, sig, bSig \div 4, n)
  IN IF IsSpecial(Double, a, b) THEN SpecialRem(Double, a, b)
     ELSE CASE diff < -1 -> Exact(a)
            [] diff \in -1..0 -> Ends((aSig - once * bSig) \div 4, once)
            [] OTHER -> Ends((far.sig \div 2) * 2^(far.diff - 1) - (bSig \div 4) * q, q)

\* estimateSqrt32 computes with tables for 32 bits and promises an error below 2.
EstimatesOfRoot(aExp, sig) ==
  LET square == IF aExp % 2 = 1 THEN sig * 2^(W32 - 1) ELSE sig * 2^W32
  IN {z \in 2..(2^W32 - 1) : (z - 2)^2 < square /\ square < (z + 2)^2}

\* z lowered to the root of the square if it is above it; sticky.
LowerToRoot(z, square) ==
  LET k == CHOOSE k \in 0..z : (z - k)^2 <= square /\ (k > 0 => (z - k + 1)^2 > square)
      root == z - k
  IN root + Bit(root^2 # square /\ root % 2 = 0)

IsSpecialSqrt(f, a) == Exp(f, a) = ExpMax(f) \/ Sign(f, a) = 1 \/ IsZero(f, a)

SpecialSqrt(f, a) ==
  CASE IsNaN(f, a) -> PropagateNaN(f, a, a)
    [] IsZero(f, a) \/ a = Inf(f, 0) -> Exact(a)
    [] OTHER -> Invalid(DefaultNaN(f))

RootExp(f, exp) == (exp - Bias(f)) \div 2 + Bias(f) - 1

float32_sqrt(rm, a, estimate) ==
  LET n == Normalized(Single, a)
      up == W32 - Single.frac - 1
      sig == n.sig * 2^up
      z == (estimate + 2) % 2^W32
      square == (IF n.exp % 2 = 1 THEN sig \div 2 ELSE sig) * 2^W32
      Rounded(s) == roundAndPackFloat32(rm, 0, RootExp(Single, n.exp), s)
  IN IF IsSpecialSqrt(Single, a) THEN SpecialSqrt(Single, a)
     ELSE CASE z % 2^Guard(Single) > 5 -> Rounded(ShiftRightJam(z, 1))
            [] z < 2 -> Rounded(2^(W32 - 1) - 1)
            [] OTHER -> Rounded(ShiftRightJam(LowerToRoot(z, square), 1))

float64_sqrt(rm, a, estimate) ==
  LET n == Normalized(Double, a)
      half == W64 \div 2
      sig == n.sig * 2^(Guard(Double) - 1 - (n.exp % 2))
      z == EstimateDiv(W64, sig, estimate * 2^half) + estimate * 2^(half - 2)
      rounds == z % 2^(Guard(Double) - 1) > 5
  IN IF IsSpecialSqrt(Double, a) THEN SpecialSqrt(Double, a)
     ELSE roundAndPackFloat64(rm, 0, RootExp(Double, n.exp),
                       IF rounds THEN z ELSE LowerToRoot(z, sig * 2^W64))

-----------------------------------------------------------------------------
(* Comparisons.                                                            *)

Unordered(f, a, b) == IsNaN(f, a) \/ IsNaN(f, b)

Equal(f, a, b) == a = b \/ (IsZero(f, a) /\ IsZero(f, b))

\* Mutant: no case for zeros of different signs.
LessOrEqualUnsignedZero(f, a, b) ==
  IF Sign(f, a) # Sign(f, b) THEN Sign(f, a) = 1 ELSE a = b \/ (Sign(f, a) = 1) # (a < b)

LessOrEqual(f, a, b) ==
  IF Sign(f, a) # Sign(f, b) THEN Sign(f, a) = 1 \/ (IsZero(f, a) /\ IsZero(f, b))
  ELSE a = b \/ (Sign(f, a) = 1) # (a < b)

Less(f, a, b) ==
  IF Sign(f, a) # Sign(f, b) THEN Sign(f, a) = 1 /\ ~(IsZero(f, a) /\ IsZero(f, b))
  ELSE a # b /\ (Sign(f, a) = 1) # (a < b)

\* Only a signaling NaN is invalid, or every NaN.
Quiet(f, a, b, holds) ==
  IF Unordered(f, a, b)
  THEN Result(0, IF IsSignalingNaN(f, a) \/ IsSignalingNaN(f, b) THEN {"invalid"} ELSE {})
  ELSE Exact(Bit(holds))

Strict(f, a, b, holds) == IF Unordered(f, a, b) THEN Invalid(0) ELSE Exact(Bit(holds))

float32_eq(a, b) == Quiet(Single, a, b, Equal(Single, a, b))
float32_le(a, b) == Strict(Single, a, b, LessOrEqual(Single, a, b))
float32_lt(a, b) == Strict(Single, a, b, Less(Single, a, b))
float32_eq_signaling(a, b) == Strict(Single, a, b, Equal(Single, a, b))
float32_le_quiet(a, b) == Quiet(Single, a, b, LessOrEqual(Single, a, b))
float32_lt_quiet(a, b) == Quiet(Single, a, b, Less(Single, a, b))

float64_eq(a, b) == Quiet(Double, a, b, Equal(Double, a, b))
float64_le(a, b) == Strict(Double, a, b, LessOrEqual(Double, a, b))
float64_lt(a, b) == Strict(Double, a, b, Less(Double, a, b))
float64_eq_signaling(a, b) == Strict(Double, a, b, Equal(Double, a, b))
float64_le_quiet(a, b) == Quiet(Double, a, b, LessOrEqual(Double, a, b))
float64_lt_quiet(a, b) == Quiet(Double, a, b, Less(Double, a, b))

(* The names the compiler calls; it compares their result with 0.          *)

Of(r, z) == Result(z, r.raised)

__eqsf2(a, b) == LET r == float32_eq(a, b) IN Of(r, 1 - r.z)
__nesf2(a, b) == LET r == float32_eq(a, b) IN Of(r, 1 - r.z)
__gesf2(a, b) == LET r == float32_le(b, a) IN Of(r, r.z - 1)
__gtsf2(a, b) == float32_lt(b, a)
__lesf2(a, b) == LET r == float32_le(a, b) IN Of(r, 1 - r.z)
__ltsf2(a, b) == LET r == float32_lt(a, b) IN Of(r, -r.z)
__unordsf2(a, b) ==
  LET r == float32_eq(a, a)
      s == float32_eq(b, b)
  IN Result(1 - r.z * s.z, r.raised \cup s.raised)
__negsf2(a) == Exact((a + 2^(W32 - 1)) % 2^W32)
__floatunsisf(rm, i) == int64_to_float32(rm, i)

__eqdf2(a, b) == LET r == float64_eq(a, b) IN Of(r, 1 - r.z)
__nedf2(a, b) == LET r == float64_eq(a, b) IN Of(r, 1 - r.z)
__gedf2(a, b) == LET r == float64_le(b, a) IN Of(r, r.z - 1)
__gtdf2(a, b) == float64_lt(b, a)
__ledf2(a, b) == LET r == float64_le(a, b) IN Of(r, 1 - r.z)
__ltdf2(a, b) == LET r == float64_lt(a, b) IN Of(r, -r.z)
__unorddf2(a, b) ==
  LET r == float64_eq(a, a)
      s == float64_eq(b, b)
  IN Result(1 - r.z * s.z, r.raised \cup s.raised)
__negdf2(a) == Exact((a + 2^(W64 - 1)) % 2^W64)
__floatunsidf(rm, i) == int64_to_float64(rm, i)

-----------------------------------------------------------------------------
(* One call.                                                               *)

VARIABLES
  float_rounding_mode,     \* the globals
  float_exception_flags,
  call,                    \* the operation, its format and operands
  z                        \* what it returned

vars == <<float_rounding_mode, float_exception_flags, call, z>>

NoCall == [op |-> "none", f |-> Single, a |-> 0, b |-> 0]

Init ==
  /\ float_rounding_mode \in Modes
  /\ float_exception_flags = {}
  /\ call = NoCall
  /\ z = 0

Returns(op, f, a, b, result) ==
  /\ call' = [op |-> op, f |-> f, a |-> a, b |-> b]
  /\ \E r \in {result} : z' = r.z /\ float_exception_flags' = float_exception_flags \cup r.raised
  /\ UNCHANGED float_rounding_mode

rounding == float_rounding_mode

Arithmetic32 ==
  \E a \in Operands32, b \in Others32 :
    \/ Returns("add", Single, a, b, float32_add(rounding, a, b))
    \/ Returns("sub", Single, a, b, float32_sub(rounding, a, b))
    \/ Returns("mul", Single, a, b, float32_mul(rounding, a, b))
    \/ Returns("div", Single, a, b, float32_div(rounding, a, b))
    \/ Returns("rem", Single, a, b, float32_rem(rounding, a, b))

Arithmetic64 ==
  \E a \in Operands64, b \in Others64 :
    \/ Returns("add", Double, a, b, float64_add(rounding, a, b))
    \/ Returns("sub", Double, a, b, float64_sub(rounding, a, b))
    \/ Returns("mul", Double, a, b, float64_mul(rounding, a, b))
    \/ Returns("div", Double, a, b, float64_div(rounding, a, b))
    \/ Returns("rem", Double, a, b, float64_rem(rounding, a, b))

Sqrt ==
  \/ \E a \in Operands32 :
       LET n == Normalized(Single, a)
       IN \E e \in IF IsSpecialSqrt(Single, a) THEN {0}
                   ELSE EstimatesOfRoot(n.exp, n.sig * 2^(W32 - Single.frac - 1)) :
            Returns("sqrt", Single, a, 0, float32_sqrt(rounding, a, e))
  \/ \E a \in Operands64 :
       LET n == Normalized(Double, a)
       IN \E e \in IF IsSpecialSqrt(Double, a) THEN {0}
                   ELSE EstimatesOfRoot(n.exp, n.sig \div 2^(Double.frac + 1 - W32)) :
            Returns("sqrt", Double, a, 0, float64_sqrt(rounding, a, e))

ToInteger ==
  \/ \E a \in Operands32 :
       \/ Returns("int32", Single, a, 0, float32_to_int32(rounding, a))
       \/ Returns("int32 to zero", Single, a, 0, float32_to_int32_round_to_zero(a))
       \/ Returns("int64", Single, a, 0, float32_to_int64(rounding, a))
       \/ Returns("int64 to zero", Single, a, 0, float32_to_int64_round_to_zero(a))
       \/ Returns("round", Single, a, 0, float32_round_to_int(rounding, a))
  \/ \E a \in Operands64 :
       \/ Returns("int32", Double, a, 0, float64_to_int32(rounding, a))
       \/ Returns("int32 to zero", Double, a, 0, float64_to_int32_round_to_zero(a))
       \/ Returns("int64", Double, a, 0, float64_to_int64(rounding, a))
       \/ Returns("int64 to zero", Double, a, 0, float64_to_int64_round_to_zero(a))
       \/ Returns("round", Double, a, 0, float64_round_to_int(rounding, a))

FromInteger ==
  \/ \E i \in Ints32 :
       \/ Returns("from", Single, i, 0, int32_to_float32(rounding, i))
       \/ Returns("from", Double, i, 0, int32_to_float64(i))
  \/ \E i \in Ints64 :
       \/ Returns("from", Single, i, 0, int64_to_float32(rounding, i))
       \/ Returns("from", Double, i, 0, int64_to_float64(rounding, i))
  \/ \E i \in Ints32 \cap Nat :
       \/ Returns("from", Single, i, 0, __floatunsisf(rounding, i))
       \/ Returns("from", Double, i, 0, __floatunsidf(rounding, i))

OtherFormat ==
  \/ \E a \in Operands32 : Returns("widen", Single, a, 0, float32_to_float64(a))
  \/ \E a \in Operands64 : Returns("narrow", Double, a, 0, float64_to_float32(rounding, a))
  \/ \E a \in Operands32 : Returns("neg", Single, a, 0, __negsf2(a))
  \/ \E a \in Operands64 : Returns("neg", Double, a, 0, __negdf2(a))

Compare32 ==
  \E a \in Operands32, b \in Others32 :
    \/ Returns("eq", Single, a, b, float32_eq(a, b))
    \/ Returns("le", Single, a, b, float32_le(a, b))
    \/ Returns("lt", Single, a, b, float32_lt(a, b))
    \/ Returns("eq signaling", Single, a, b, float32_eq_signaling(a, b))
    \/ Returns("le quiet", Single, a, b, float32_le_quiet(a, b))
    \/ Returns("lt quiet", Single, a, b, float32_lt_quiet(a, b))

Compare64 ==
  \E a \in Operands64, b \in Others64 :
    \/ Returns("eq", Double, a, b, float64_eq(a, b))
    \/ Returns("le", Double, a, b, float64_le(a, b))
    \/ Returns("lt", Double, a, b, float64_lt(a, b))
    \/ Returns("eq signaling", Double, a, b, float64_eq_signaling(a, b))
    \/ Returns("le quiet", Double, a, b, float64_le_quiet(a, b))
    \/ Returns("lt quiet", Double, a, b, float64_lt_quiet(a, b))

CompilerCall32 ==
  \E a \in Operands32, b \in Others32 :
    \/ Returns("__eq", Single, a, b, __eqsf2(a, b))
    \/ Returns("__ne", Single, a, b, __nesf2(a, b))
    \/ Returns("__ge", Single, a, b, __gesf2(a, b))
    \/ Returns("__gt", Single, a, b, __gtsf2(a, b))
    \/ Returns("__le", Single, a, b, __lesf2(a, b))
    \/ Returns("__lt", Single, a, b, __ltsf2(a, b))
    \/ Returns("__unord", Single, a, b, __unordsf2(a, b))

CompilerCall64 ==
  \E a \in Operands64, b \in Others64 :
    \/ Returns("__eq", Double, a, b, __eqdf2(a, b))
    \/ Returns("__ne", Double, a, b, __nedf2(a, b))
    \/ Returns("__ge", Double, a, b, __gedf2(a, b))
    \/ Returns("__gt", Double, a, b, __gtdf2(a, b))
    \/ Returns("__le", Double, a, b, __ledf2(a, b))
    \/ Returns("__lt", Double, a, b, __ltdf2(a, b))
    \/ Returns("__unord", Double, a, b, __unorddf2(a, b))

\* comparisons do not round: one mode is enough
Next ==
  /\ call = NoCall
  /\ \/ Arithmetic32 \/ Arithmetic64 \/ Sqrt \/ ToInteger \/ FromInteger \/ OtherFormat
     \/ /\ rounding = "nearest_even"
        /\ Compare32 \/ Compare64 \/ CompilerCall32 \/ CompilerCall64

Spec == Init /\ [][Next]_vars

=============================================================================
