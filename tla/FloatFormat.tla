---------------------------- MODULE FloatFormat ----------------------------
(***************************************************************************)
(* What the functions of softfloat.c share: the layout of a format, the    *)
(* shifts that keep a sticky bit, the rounding of a significand and the    *)
(* addition and subtraction of significands.  The code holds every one of  *)
(* them twice, for float32 and for float64, with the same steps and other  *)
(* widths: here the format is a parameter, a record of the number of       *)
(* exponent bits and of fraction bits.                                     *)
(*                                                                         *)
(* The global float_rounding_mode is the parameter rm, and what is or'ed   *)
(* into float_exception_flags is the set "raised" of a result.             *)
(***************************************************************************)
EXTENDS Integers

Modes == {"nearest_even", "to_zero", "down", "up"}

Width(f) == 1 + f.exp + f.frac

\* bits below the fraction while a result is not rounded: 7 and 10
Guard(f) == f.exp - 1

Bias(f) == 2^(f.exp - 1) - 1

ExpMax(f) == 2^f.exp - 1

Hidden(f) == 2^f.frac

Frac(f, a) == a % Hidden(f)

Exp(f, a) == (a \div Hidden(f)) % 2^f.exp

Sign(f, a) == a \div 2^(Width(f) - 1)

Pack(f, sign, exp, sig) == (sign * 2^(Width(f) - 1) + exp * Hidden(f) + sig) % 2^Width(f)

Result(z, raised) == [z |-> z, raised |-> raised]

Exact(z) == Result(z, {})

Invalid(z) == Result(z, {"invalid"})

Bit(b) == IF b THEN 1 ELSE 0

Xor(s, t) == (s + t) % 2

-----------------------------------------------------------------------------
(* softfloat-macros.                                                       *)

\* Mutant: nothing tells of the bits shifted out.
ShiftRightPlain(a, count) == IF count < 31 THEN a \div 2^count ELSE 0

\* Bit 0 of the result is set if any bit that is shifted out is.
ShiftRightJam(a, count) ==
  LET q == IF count < 31 THEN a \div 2^count ELSE 0
      lost == IF count < 31 THEN a % 2^count # 0 ELSE a # 0
  IN IF lost /\ q % 2 = 0 THEN q + 1 ELSE q

Log2(a) == CHOOSE k \in 0..30 : 2^k <= a /\ (k < 30 => a < 2^(k + 1))

CountLeadingZeros(width, a) == IF a = 0 THEN width ELSE width - 1 - Log2(a)

\* The quotient of a * 2^width by b, up to 2 too large: two steps of schoolbook division by the high half of b.
EstimateDiv(width, a, b) ==
  LET half == 2^(width \div 2)
      b0 == b \div half
      zh0 == IF b0 * half <= a THEN half - 1 ELSE a \div b0
      Rem(zh) == a * half - b * zh
      back == CHOOSE k \in 0..3 : Rem(zh0 - k) >= 0 /\ (k > 0 => Rem(zh0 - k + 1) < 0)
      rem == Rem(zh0 - back)
  IN IF b <= a THEN 2^width - 1
     ELSE (zh0 - back) * half + (IF b0 * half <= rem THEN half - 1 ELSE rem \div b0)

-----------------------------------------------------------------------------
(* NaNs: softfloat-specialize.                                             *)

IsNaN(f, a) == Exp(f, a) = ExpMax(f) /\ Frac(f, a) # 0

IsSignalingNaN(f, a) == IsNaN(f, a) /\ Frac(f, a) < Hidden(f) \div 2

DefaultNaN(f) == Pack(f, 1, ExpMax(f), Hidden(f) \div 2)

Quieted(f, a) == IF Frac(f, a) < Hidden(f) \div 2 THEN a + Hidden(f) \div 2 ELSE a

Magnitude(f, a) == a % 2^(Width(f) - 1)

LargerSignificand(f, a, b) ==
  CASE Magnitude(f, a) < Magnitude(f, b) -> b
    [] Magnitude(f, b) < Magnitude(f, a) -> a
    [] OTHER -> IF a < b THEN a ELSE b

PropagateNaN(f, a, b) ==
  LET qa == Quieted(f, a)
      qb == Quieted(f, b)
      aSignals == IsSignalingNaN(f, a)
      bSignals == IsSignalingNaN(f, b)
      z == CASE aSignals /\ bSignals -> LargerSignificand(f, qa, qb)
             [] aSignals /\ ~bSignals -> IF IsNaN(f, b) THEN qb ELSE qa
             [] ~aSignals /\ IsNaN(f, a) ->
                  IF bSignals \/ ~IsNaN(f, b) THEN qa ELSE LargerSignificand(f, qa, qb)
             [] OTHER -> qb
  IN Result(z, IF aSignals \/ bSignals THEN {"invalid"} ELSE {})

-----------------------------------------------------------------------------
(* Rounding.                                                               *)

Increment(rm, sign, guard) ==
  CASE rm = "nearest_even" -> 2^(guard - 1)
    [] rm = "to_zero" -> 0
    [] OTHER -> IF (rm = "up") = (sign = 1) THEN 0 ELSE 2^guard - 1

\* Mutant: ties go up.
RoundOffTiesUp(rm, sign, guard, sig) == (sig + Increment(rm, sign, guard)) \div 2^guard

\* The significand without its guard bits; a tie goes to even.
RoundOff(rm, sign, guard, sig) ==
  LET q == (sig + Increment(rm, sign, guard)) \div 2^guard
      tie == sig % 2^guard = 2^(guard - 1)
  IN IF rm = "nearest_even" /\ tie THEN q - (q % 2) ELSE q

\* sig has its leading bit at Width - 2, exp is one less than the exponent; tininess is detected after rounding.
RoundAndPack(f, rm, sign, exp, sig) ==
  LET w == Width(f)
      g == Guard(f)
      inc == Increment(rm, sign, g)
      top == 2^(w - 1)
      isTiny == exp < -1 \/ sig + inc < top
      small == ShiftRightJam(sig, -exp)
      Packed(e, s) == LET r == RoundOff(rm, sign, g, s) IN Pack(f, sign, IF r = 0 THEN 0 ELSE e, r)
      Inexact(s) == IF s % 2^g # 0 THEN {"inexact"} ELSE {}
  IN CASE exp > ExpMax(f) - 2 \/ (exp = ExpMax(f) - 2 /\ sig + inc >= top) ->
            Result(Pack(f, sign, ExpMax(f), 0) - Bit(inc = 0), {"overflow", "inexact"})
       [] exp < 0 ->
            Result(Packed(0, small),
                   Inexact(small) \cup (IF isTiny /\ small % 2^g # 0 THEN {"underflow"} ELSE {}))
       [] OTHER -> Result(Packed(exp, sig), Inexact(sig))

NormalizeRoundAndPack(f, rm, sign, exp, sig) ==
  LET n == CountLeadingZeros(Width(f), sig) - 1
  IN RoundAndPack(f, rm, sign, exp - n, (sig * 2^n) % 2^Width(f))

\* The significand with its hidden bit, a subnormal one shifted up to it.
Normalized(f, a) ==
  LET n == CountLeadingZeros(Width(f), Frac(f, a)) - f.exp
  IN IF Exp(f, a) = 0 THEN [sig |-> Frac(f, a) * 2^n, exp |-> 1 - n]
     ELSE [sig |-> Frac(f, a) + Hidden(f), exp |-> Exp(f, a)]

-----------------------------------------------------------------------------
(* Addition and subtraction of magnitudes.                                 *)

\* subnormals have the exponent of the smallest normal numbers and no hidden bit
EffectiveExp(f, a) == IF Exp(f, a) = 0 THEN 1 ELSE Exp(f, a)

PlainSig(f, a) == Frac(f, a) + (IF Exp(f, a) = 0 THEN 0 ELSE Hidden(f))

AddSigs(f, rm, a, b, sign) ==
  LET big == IF Exp(f, a) >= Exp(f, b) THEN a ELSE b
      low == IF Exp(f, a) >= Exp(f, b) THEN b ELSE a
      shift == 2^(Guard(f) - 1)
      sum == PlainSig(f, big) * shift
             + ShiftRightJam(PlainSig(f, low) * shift, Exp(f, big) - EffectiveExp(f, low))
  IN IF IsNaN(f, a) \/ IsNaN(f, b) THEN PropagateNaN(f, a, b)
     ELSE CASE Exp(f, big) = ExpMax(f) -> Exact(Pack(f, sign, ExpMax(f), 0))
            [] Exp(f, big) = 0 -> Exact(Pack(f, sign, 0, Frac(f, a) + Frac(f, b)))
            [] OTHER -> IF 2 * sum < 2^(Width(f) - 1)
                        THEN RoundAndPack(f, rm, sign, Exp(f, big) - 1, 2 * sum)
                        ELSE RoundAndPack(f, rm, sign, Exp(f, big), sum)

SubSigs(f, rm, a, b, sign) ==
  LET aBigger == Magnitude(f, b) < Magnitude(f, a)
      big == IF aBigger THEN a ELSE b
      low == IF aBigger THEN b ELSE a
      zSign == IF aBigger THEN sign ELSE 1 - sign
      shift == 2^Guard(f)
      diff == PlainSig(f, big) * shift
              - ShiftRightJam(PlainSig(f, low) * shift, EffectiveExp(f, big) - EffectiveExp(f, low))
  IN IF IsNaN(f, a) \/ IsNaN(f, b) THEN PropagateNaN(f, a, b)
     ELSE CASE Exp(f, low) = ExpMax(f) -> Invalid(DefaultNaN(f))
            [] Exp(f, low) < Exp(f, big) /\ Exp(f, big) = ExpMax(f) ->
                 Exact(Pack(f, zSign, ExpMax(f), 0))
            [] Magnitude(f, a) = Magnitude(f, b) /\ Exp(f, low) < ExpMax(f) ->
                 Exact(Pack(f, Bit(rm = "down"), 0, 0))
            [] OTHER -> NormalizeRoundAndPack(f, rm, zSign, EffectiveExp(f, big) - 1, diff)

=============================================================================
