--------------------------- MODULE FloatReference ---------------------------
(***************************************************************************)
(* What IEEE 754 asks of the operations of SoftFloat: the exact result of  *)
(* the operands' values, rounded once.  The exact value is an integer N    *)
(* times 2^E; where it has no end (a quotient, a root, a sum of exponents  *)
(* far apart) N is cut and its last bit set, which rounds the same.        *)
(***************************************************************************)
EXTENDS SoftFloat

\* A significand with a unit that no operand is near to: sums are exact up to it.
Far == 17

Value(f, a) == [s |-> Sign(f, a), n |-> PlainSig(f, a), e |-> EffectiveExp(f, a) - Bias(f) - f.frac]

Cut(n, count) == ShiftRightJam(2 * n, count)

Neg(f, a) == (a + 2^(Width(f) - 1)) % 2^Width(f)

PlusMinus(s, n) == IF s = 1 THEN -n ELSE n

\* the sum of two values as a signed integer and a power of two
Sum(x, y) ==
  LET hi == IF x.e >= y.e THEN x ELSE y
      lo == IF x.e >= y.e THEN y ELSE x
      d == hi.e - lo.e
  IN IF d <= Far THEN [n |-> PlusMinus(hi.s, hi.n * 2^d) + PlusMinus(lo.s, lo.n), e |-> lo.e]
     ELSE [n |-> PlusMinus(hi.s, hi.n * 2^(Far + 1)) + PlusMinus(lo.s, Cut(lo.n, d - Far)),
           e |-> hi.e - Far - 1]

\* q units and a rest of them, rounded to whole units
RoundUnits(rm, s, q, rest, unit) ==
  LET up == CASE rm = "nearest_even" -> 2 * rest > unit \/ (2 * rest = unit /\ q % 2 = 1)
              [] rm = "to_zero" -> FALSE
              [] rm = "down" -> s = 1 /\ rest > 0
              [] rm = "up" -> s = 0 /\ rest > 0
  IN IF up THEN q + 1 ELSE q

\* n * 2^e in units of 2^u
InUnits(rm, s, n, e, u) ==
  CASE u <= e -> n * 2^(e - u)
    [] u > e /\ u - e <= 29 -> RoundUnits(rm, s, n \div 2^(u - e), n % 2^(u - e), 2^(u - e))
    [] OTHER -> RoundUnits(rm, s, 0, IF n = 0 THEN 0 ELSE 1, 4)

IsWhole(n, e, u) == u <= e \/ n = 0 \/ (u - e <= 29 /\ n % 2^(u - e) = 0)

\* The float nearest to n * 2^e in the direction of the mode, with its flags.
Rounded(f, rm, s, n, e) ==
  LET emin == 1 - Bias(f) - f.frac
      exponent == Log2(n) + e
      u == IF exponent - f.frac < emin THEN emin ELSE exponent - f.frac
      bits == (u - emin) * Hidden(f) + InUnits(rm, s, n, e, u)
      away == rm = "nearest_even" \/ (rm = "up" /\ s = 0) \/ (rm = "down" /\ s = 1)
      inexact == IF IsWhole(n, e, u) THEN {} ELSE {"inexact"}
      free == InUnits(rm, s, n, e, exponent - f.frac)
      tiny == exponent < 1 - Bias(f) /\ ~(exponent = -Bias(f) /\ free = 2 * Hidden(f))
  IN CASE n = 0 -> Exact(Pack(f, s, 0, 0))
       [] n # 0 /\ bits >= ExpMax(f) * Hidden(f) ->
            Result(Inf(f, s) - Bit(~away), {"overflow", "inexact"})
       [] OTHER -> Result(Pack(f, s, 0, bits),
                          inexact \cup (IF tiny /\ inexact # {} THEN {"underflow"} ELSE {}))

\* n * 2^e as an integer of so many bits
RoundedInt(bits, rm, s, n, e) ==
  LET i == InUnits(rm, s, n, e, 0)
      fits == e <= 20 /\ (IF s = 1 THEN i <= 2^(bits - 1) ELSE i < 2^(bits - 1))
  IN IF fits THEN Inexact(PlusMinus(s, i), ~IsWhole(n, e, 0)) ELSE Invalid(Largest(bits, s))

-----------------------------------------------------------------------------
(* The operations.                                                         *)

SomeNaN(f, S) == \E x \in S : IsNaN(f, x)
SomeSignals(f, S) == \E x \in S : IsSignalingNaN(f, x)

\* Any NaN: which one is not said here.
TheNaN(f, S) == Result(DefaultNaN(f), IF SomeSignals(f, S) THEN {"invalid"} ELSE {})

IeeeAdd(f, rm, a, b) ==
  LET sum == Sum(Value(f, a), Value(f, b))
      sign == CASE sum.n < 0 -> 1 [] sum.n > 0 -> 0
                [] OTHER -> IF Sign(f, a) = Sign(f, b) THEN Sign(f, a) ELSE Bit(rm = "down")
  IN CASE SomeNaN(f, {a, b}) -> TheNaN(f, {a, b})
       [] IsInf(f, a) /\ IsInf(f, b) -> IF a = b THEN Exact(a) ELSE Invalid(DefaultNaN(f))
       [] IsInf(f, a) /\ Exp(f, b) < ExpMax(f) -> Exact(a)
       [] IsInf(f, b) /\ Exp(f, a) < ExpMax(f) -> Exact(b)
       [] OTHER -> Rounded(f, rm, sign, Abs(sum.n), sum.e)

IeeeMul(f, rm, a, b) ==
  LET x == Value(f, a)
      y == Value(f, b)
      sign == Xor(x.s, y.s)
  IN CASE SomeNaN(f, {a, b}) -> TheNaN(f, {a, b})
       [] ~SomeNaN(f, {a, b}) /\ (IsInf(f, a) \/ IsInf(f, b)) ->
            IF IsZero(f, a) \/ IsZero(f, b) THEN Invalid(DefaultNaN(f)) ELSE Exact(Inf(f, sign))
       [] OTHER -> Rounded(f, rm, sign, x.n * y.n, x.e + y.e)

IeeeDiv(f, rm, a, b) ==
  LET x == Value(f, a)
      y == Value(f, b)
      sign == Xor(x.s, y.s)
      up == 27 - Log2(x.n)
      q == (x.n * 2^up) \div y.n
      more == Bit((x.n * 2^up) % y.n # 0)
  IN IF SomeNaN(f, {a, b}) THEN TheNaN(f, {a, b})
     ELSE IF IsInf(f, a) THEN (IF IsInf(f, b) THEN Invalid(DefaultNaN(f)) ELSE Exact(Inf(f, sign)))
     ELSE IF IsInf(f, b) THEN Exact(Pack(f, sign, 0, 0))
     ELSE IF IsZero(f, b) THEN (IF IsZero(f, a) THEN Invalid(DefaultNaN(f))
                                ELSE Result(Inf(f, sign), {"divbyzero"}))
     ELSE IF IsZero(f, a) THEN Exact(Pack(f, sign, 0, 0))
     ELSE Rounded(f, rm, sign, 2 * q + more, x.e - y.e - up - 1)

RECURSIVE RootBits(_, _, _)
RootBits(square, root, bit) ==
  IF bit = 0 THEN root
  ELSE RootBits(square, IF (root + bit)^2 <= square THEN root + bit ELSE root, bit \div 2)

IeeeSqrt(f, rm, a) ==
  LET x == Value(f, a)
      up == LET k == 28 - Log2(x.n) IN IF (x.e - k) % 2 = 0 THEN k ELSE k - 1
      root == RootBits(x.n * 2^up, 0, 2^14)
  IN IF IsNaN(f, a) THEN TheNaN(f, {a})
     ELSE IF IsZero(f, a) THEN Exact(a)
     ELSE IF x.s = 1 THEN Invalid(DefaultNaN(f))
     ELSE IF IsInf(f, a) THEN Exact(a)
     ELSE Rounded(f, rm, 0, 2 * root + Bit(root^2 # x.n * 2^up), (x.e - up) \div 2 - 1)

\* n * 2^k modulo m
RECURSIVE TimesPowerMod(_, _, _)
TimesPowerMod(n, k, m) == IF k = 0 THEN n % m ELSE TimesPowerMod((2 * n) % m, k - 1, m)

\* a minus the even-rounded quotient times b; exact
IeeeRem(f, a, b) ==
  LET x == Value(f, a)
      y == Value(f, b)
      d == x.e - y.e
      m == y.n * (IF d < 0 THEN 2^(-d) ELSE 1)     \* b in the smaller unit
      r == TimesPowerMod(x.n, IF d > 0 THEN d ELSE 0, 2 * m)
      near == CASE 2 * r <= m -> r [] 2 * r >= 3 * m -> r - 2 * m [] OTHER -> r - m
      sign == IF near < 0 THEN 1 - x.s ELSE x.s
  IN IF SomeNaN(f, {a, b}) THEN TheNaN(f, {a, b})
     ELSE IF IsInf(f, a) \/ IsZero(f, b) THEN Invalid(DefaultNaN(f))
     ELSE IF IsInf(f, b) \/ IsZero(f, a) \/ d < -12 THEN Exact(a)
     ELSE Rounded(f, "to_zero", sign, Abs(near), IF d < 0 THEN x.e ELSE y.e)

IeeeToInt(f, bits, rm, a) ==
  LET x == Value(f, a)
  IN CASE IsNaN(f, a) -> Invalid(Largest(bits, 0))
       [] IsInf(f, a) -> Invalid(Largest(bits, x.s))
       [] OTHER -> IF x.e > 20 /\ x.n # 0 THEN Invalid(Largest(bits, x.s))
                   ELSE RoundedInt(bits, rm, x.s, x.n, x.e)

IeeeRound(f, rm, a) ==
  LET x == Value(f, a)
  IN IF IsNaN(f, a) THEN TheNaN(f, {a})
     ELSE IF IsInf(f, a) \/ x.e >= 0 THEN Exact(a)
     ELSE Inexact(Rounded(f, rm, x.s, InUnits(rm, x.s, x.n, x.e, 0), 0).z, ~IsWhole(x.n, x.e, 0))

IeeeConvert(f, g, rm, a) ==
  LET x == Value(f, a)
  IN IF IsNaN(f, a) THEN Result(DefaultNaN(g), TheNaN(f, {a}).raised)
     ELSE IF IsInf(f, a) THEN Exact(Inf(g, x.s)) ELSE Rounded(g, rm, x.s, x.n, x.e)

-----------------------------------------------------------------------------
(* Properties of a call.                                                   *)

Expected ==
  LET f == call.f
      a == call.a
      b == call.b
      rm == float_rounding_mode
  IN CASE call.op = "add" -> IeeeAdd(f, rm, a, b)
       [] call.op = "sub" -> IeeeAdd(f, rm, a, Neg(f, b))
       [] call.op = "mul" -> IeeeMul(f, rm, a, b)
       [] call.op = "div" -> IeeeDiv(f, rm, a, b)
       [] call.op = "rem" -> IeeeRem(f, a, b)
       [] call.op = "sqrt" -> IeeeSqrt(f, rm, a)
       [] call.op = "int32" -> IeeeToInt(f, Int32, rm, a)
       [] call.op = "int32 to zero" -> IeeeToInt(f, Int32, "to_zero", a)
       [] call.op = "int64" -> IeeeToInt(f, Int64, rm, a)
       [] call.op = "int64 to zero" -> IeeeToInt(f, Int64, "to_zero", a)
       [] call.op = "round" -> IeeeRound(f, rm, a)
       [] call.op = "from" -> Rounded(f, rm, Bit(a < 0), Abs(a), 0)
       [] call.op = "widen" -> IeeeConvert(Single, Double, rm, a)
       [] call.op = "narrow" -> IeeeConvert(Double, Single, rm, a)
       [] call.op = "neg" -> Exact(Neg(f, a))

Computations == {"add", "sub", "mul", "div", "rem", "sqrt", "int32", "int32 to zero", "int64",
                 "int64 to zero", "round", "from", "widen", "narrow", "neg"}

\* the format of the result, when it is a float
To == CASE call.op = "widen" -> Double [] call.op = "narrow" -> Single [] OTHER -> call.f

ToFloat == call.op \notin {"int32", "int32 to zero", "int64", "int64 to zero"}

\* Every operation returns the value nearest to the exact result in the
\* direction of the rounding mode, subnormal, infinite and integer results
\* included; a NaN operand gives a quiet NaN, for negation the same NaN.
RoundsCorrectly ==
  call.op \in Computations =>
    IF call.op # "neg" /\ ToFloat /\ IsNaN(To, Expected.z)
    THEN IsNaN(To, z) /\ ~IsSignalingNaN(To, z)
    ELSE z = Expected.z

\* float_exception_flags tells what happened: inexact exactly when the result
\* is not the exact one, underflow when it is tiny too, overflow, division by
\* zero, and invalid for signaling NaNs and results that do not exist.
FlagsTell == call.op \in Computations => float_exception_flags = Expected.raised

\* a compared with b as numbers
Order(f, a, b) ==
  LET d == Sum(Value(f, a), Value(f, Neg(f, b))).n
  IN CASE SomeNaN(f, {a, b}) -> "unordered"
       [] ~SomeNaN(f, {a, b}) /\ IsInf(f, a) /\ a = b -> "equal"
       [] ~SomeNaN(f, {a, b}) /\ a # b /\ (a = Inf(f, 1) \/ b = Inf(f, 0)) -> "less"
       [] ~SomeNaN(f, {a, b}) /\ a # b /\ (b = Inf(f, 1) \/ a = Inf(f, 0)) -> "greater"
       [] OTHER -> IF d < 0 THEN "less" ELSE IF d > 0 THEN "greater" ELSE "equal"

\* The comparisons order floats as the numbers they stand for, and what the
\* compiler's names return has, compared with zero, the meaning libgcc gives
\* it, for NaNs too: every relation but "not equal" is then false.
ComparesAsNumbers ==
  LET order == Order(call.f, call.a, call.b)
  IN /\ call.op \in {"eq", "eq signaling"} => (z = 1) = (order = "equal")
     /\ call.op \in {"le", "le quiet"} => (z = 1) = (order \in {"less", "equal"})
     /\ call.op \in {"lt", "lt quiet"} => (z = 1) = (order = "less")
     /\ call.op = "__eq" => (z = 0) = (order = "equal")
     /\ call.op = "__ne" => (z # 0) = (order # "equal")
     /\ call.op = "__ge" => (z >= 0) = (order \in {"greater", "equal"})
     /\ call.op = "__gt" => (z > 0) = (order = "greater")
     /\ call.op = "__le" => (z <= 0) = (order \in {"less", "equal"})
     /\ call.op = "__lt" => (z < 0) = (order = "less")
     /\ call.op = "__unord" => (z # 0) = (order = "unordered")

=============================================================================
