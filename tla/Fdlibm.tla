------------------------------- MODULE Fdlibm -------------------------------
(***************************************************************************)
(* The error handling of fdlibm (mith/al/fdlibm): each function of math.h  *)
(* is a wrapper (w_*.c) that calls the __ieee754_ function (e_*.c) and, if *)
(* the standard the library was built for says the call is an error, asks  *)
(* __kernel_standard (k_standard.c) for errno and the value to return.     *)
(*                                                                         *)
(* A number is its sign and its magnitude in halves, which tells integers, *)
(* odd integers and the thresholds of the functions apart.  Of a result    *)
(* only what the wrappers ask matters: NaN, infinite, zero, or ordinary.   *)
(***************************************************************************)
EXTENDS Integers

CONSTANTS
  Arguments,   \* of the functions of one argument, and of atan2 and hypot
  Bases,       \* x of pow and scalb: zero, a power of two, the largest, infinite or NaN
  Exponents,   \* y of pow, fn of scalb
  Orders       \* n of jn and yn, small enough for yn to stay finite

Versions == {"ieee", "svid", "xopen", "posix"}

X_TLOSS  == 20000      \* pi * 2^52, an even integer; the magnitudes above are even
HUGE     == 29996      \* MAXFLOAT, the largest single
Largest  == 30000      \* the largest double
Some     == 35000      \* a result: finite, not zero, which one does not matter
Infinite == 40000      \* HUGE_VAL
NaN      == <<0, 50000>>

Magnitudes == (0..Largest) \cup {Infinite}
Numbers == ({0, 1} \X Magnitudes) \cup {NaN}
BaseNumbers == ({0, 1} \X {0, 1, 2, 4, Largest, Infinite}) \cup {NaN}

ASSUME MathAssumption ==
  /\ Arguments \subseteq Numbers /\ Exponents \subseteq Numbers
  /\ Bases \subseteq BaseNumbers
  /\ Orders \subseteq Int

Zero(s) == <<s, 0>>
One == 2
Inf(s) == <<s, Infinite>>
Ordinary == <<0, Some>>

isnan(x) == x[2] > Infinite
finite(x) == x[2] < Infinite
fabs(x) == x[2]
IsZero(x) == x[2] = 0
Negative(x) == x[1] = 1 /\ ~isnan(x) /\ ~IsZero(x)    \* x < 0.0
Positive(x) == x[1] = 0 /\ ~isnan(x) /\ ~IsZero(x)    \* x > 0.0
IsInteger(x) == x[2] % 2 = 0
IsOdd(x) == x[2] % 4 = 2

-----------------------------------------------------------------------------
(* The __ieee754_ functions.                                               *)

ieee754_acos(x) == CASE isnan(x) \/ fabs(x) > One -> NaN
                     [] x = <<0, One>> -> Zero(0)
                     [] OTHER -> Ordinary

ieee754_asin(x) == CASE isnan(x) \/ fabs(x) > One -> NaN
                     [] fabs(x) = 0 -> x
                     [] OTHER -> Ordinary

ieee754_atan2(y, x) ==
  CASE isnan(x) \/ isnan(y) -> NaN
    [] IsZero(y) /\ x[1] = 0 -> y
    [] x = Inf(0) /\ finite(y) -> Zero(y[1])
    [] OTHER -> Ordinary

ieee754_acosh(x) == CASE isnan(x) \/ x[1] = 1 \/ fabs(x) < One -> NaN
                      [] x = <<0, One>> -> Zero(0)
                      [] x = Inf(0) -> x
                      [] OTHER -> Ordinary

ieee754_atanh(x) == CASE isnan(x) \/ fabs(x) > One -> NaN
                      [] fabs(x) = One -> Inf(x[1])
                      [] fabs(x) = 0 -> x
                      [] OTHER -> Ordinary

ieee754_log(x) == CASE IsZero(x) -> Inf(1)
                    [] isnan(x) \/ Negative(x) -> NaN
                    [] x = <<0, One>> -> Zero(0)
                    [] x = Inf(0) -> x
                    [] OTHER -> Ordinary

ieee754_log10(x) == CASE IsZero(x) -> Inf(1)
                      [] isnan(x) \/ Negative(x) -> NaN
                      [] x = Inf(0) -> x
                      [] OTHER -> IF x = <<0, One>> THEN Zero(0) ELSE Ordinary

\* o_threshold is 709.78, u_threshold -745.13
ieee754_exp(x) == CASE isnan(x) -> NaN
                    [] Positive(x) /\ fabs(x) > 1419 -> Inf(0)
                    [] Negative(x) /\ fabs(x) > 1490 -> Zero(0)
                    [] OTHER -> Ordinary

\* overflows above 710.4758
ieee754_cosh(x) == CASE isnan(x) -> NaN
                     [] ~isnan(x) /\ fabs(x) > 1420 -> Inf(0)
                     [] OTHER -> Ordinary

ieee754_sinh(x) == CASE isnan(x) -> NaN
                     [] ~isnan(x) /\ fabs(x) > 1420 -> Inf(x[1])
                     [] fabs(x) = 0 -> x
                     [] OTHER -> Ordinary

\* an infinity wins over a NaN; two of the largest numbers overflow
ieee754_hypot(x, y) ==
  CASE fabs(x) = Infinite \/ fabs(y) = Infinite -> Inf(0)
    [] fabs(x) # Infinite /\ fabs(y) # Infinite /\ (isnan(x) \/ isnan(y)) -> NaN
    [] fabs(x) = Largest /\ fabs(y) = Largest -> Inf(0)
    [] OTHER -> IF IsZero(x) /\ IsZero(y) THEN Zero(0) ELSE Ordinary

ieee754_sqrt(x) == CASE IsZero(x) -> x
                     [] isnan(x) \/ Negative(x) -> NaN
                     [] x = Inf(0) -> x
                     [] OTHER -> Ordinary

\* the remainders are finite: nobody asks whether they are zero
ieee754_fmod(x, y) == IF IsZero(y) \/ ~finite(x) \/ isnan(y) THEN NaN ELSE Ordinary

ieee754_remainder(x, p) == ieee754_fmod(x, p)

\* The order of 2 of a base, above the half for the largest.
Log2(x) == CASE fabs(x) = 1 -> -1 [] fabs(x) = 2 -> 0 [] fabs(x) = 4 -> 1 [] fabs(x) = Largest -> 1024

\* Twice the order of 2 of the scaled and of the raised base
Halves(y) == IF y[1] = 1 THEN -fabs(y) ELSE fabs(y)
ScaledOrder(x, fn) == 2 * Log2(x) + Halves(fn)
RaisedOrder(x, y) == Log2(x) * Halves(y)

\* The scaled or raised magnitude 2^(e/2), larger than 2^1024 by the rounding of the largest
OfOrder(s, e, isLargest) ==
  CASE e > 2048 \/ (e = 2048 /\ ~isLargest) -> Inf(s)
    [] e <= -2150 -> Zero(s)
    [] OTHER -> <<s, Some>>

ieee754_scalb(x, fn) ==
  CASE isnan(x) \/ isnan(fn) -> NaN
    [] fn = Inf(0) -> IF IsZero(x) THEN NaN ELSE IF isnan(x) THEN x ELSE Inf(x[1])
    [] fn = Inf(1) -> IF finite(x) THEN Zero(x[1]) ELSE NaN
    [] finite(fn) /\ ~IsInteger(fn) -> NaN
    [] OTHER -> IF ~finite(x) \/ IsZero(x) THEN x
                ELSE OfOrder(x[1], ScaledOrder(x, fn), fabs(x) = Largest)

\* y is 0, x or y a NaN, y infinite, x one of 0, 1 and infinity, x negative and y no integer
PowSpecial(x, y) ==
  IsZero(y) \/ isnan(x) \/ isnan(y) \/ ~finite(y) \/ fabs(x) \in {0, One, Infinite} \/ (Negative(x) /\ ~IsInteger(y))

ieee754_pow(x, y) ==
  LET s == IF x[1] = 1 /\ IsOdd(y) THEN 1 ELSE 0
      growing == (fabs(x) > One) = (y[1] = 0)
  IN IF ~PowSpecial(x, y)
     THEN OfOrder(s, RaisedOrder(x, y), fabs(x) = Largest /\ y = <<0, One>>)
     ELSE IF IsZero(y) THEN <<0, One>>
     ELSE IF isnan(x) \/ isnan(y) THEN NaN
     ELSE IF ~finite(y) THEN (CASE fabs(x) = One -> NaN
                                [] fabs(x) # One -> IF growing THEN Inf(0) ELSE Zero(0))
     ELSE IF Negative(x) /\ finite(x) /\ ~IsInteger(y) THEN NaN
     ELSE IF fabs(x) = One THEN <<s, One>>
     ELSE IF growing THEN Inf(s) ELSE Zero(s)

ieee754_j0(x) == CASE isnan(x) -> NaN [] fabs(x) = Infinite -> Zero(0) [] OTHER -> Ordinary
ieee754_j1(x) == CASE isnan(x) -> NaN [] fabs(x) \in {0, Infinite} -> Zero(x[1]) [] OTHER -> Ordinary

ieee754_y0(x) == CASE isnan(x) \/ Negative(x) -> NaN
                   [] IsZero(x) -> Inf(1)
                   [] x = Inf(0) -> Zero(0)
                   [] OTHER -> Ordinary
ieee754_y1(x) == CASE isnan(x) \/ Negative(x) -> NaN
                   [] IsZero(x) -> Inf(1)
                   [] OTHER -> IF finite(x) THEN Ordinary ELSE Zero(0)

ieee754_jn(n, x) ==
  CASE n = 0 -> ieee754_j0(x)
    [] n \in {-1, 1} -> ieee754_j1(IF n = 1 THEN x ELSE <<1 - x[1], x[2]>>)
    [] OTHER -> IF isnan(x) THEN NaN
                ELSE IF fabs(x) \in {0, Infinite} THEN Zero(IF n % 2 = 1 /\ (x[1] = 1) = (n > 0) THEN 1 ELSE 0)
                ELSE Ordinary

ieee754_yn(n, x) == CASE isnan(x) \/ Negative(x) -> NaN
                      [] IsZero(x) -> Inf(1)
                      [] OTHER -> IF finite(x) THEN Ordinary ELSE Zero(IF n = -1 THEN 1 ELSE 0)

\* The poles are 0 and the negative integers; the largest number overflows.
ieee754_lgamma_r(x) ==
  CASE isnan(x) -> NaN
    [] ~isnan(x) /\ (~finite(x) \/ IsZero(x) \/ (Negative(x) /\ IsInteger(x)) \/ x = <<0, Largest>>) -> Inf(0)
    [] OTHER -> IF x[1] = 0 /\ fabs(x) \in {One, 2 * One} THEN Zero(0) ELSE Ordinary

\* what __ieee754_lgamma_r stores for the sign of the gamma function
Signgam(x) == IF x[1] = 1 /\ finite(x) /\ fabs(x) % 4 = 1 THEN -1 ELSE 1

-----------------------------------------------------------------------------
(* __kernel_standard: the value and errno of each kind of error.  The      *)
(* matherr of the library reports nothing, so errno is always set.         *)

Error(retval, errno) == [z |-> retval, errno |-> errno]
Plain(retval) == Error(retval, "none")
Overflow(v, s) == Error(IF v = "svid" THEN <<s, HUGE>> ELSE Inf(s), "ERANGE")
OutOfDomain(v, svid, retval) == Error(IF v = "svid" THEN svid ELSE retval, "EDOM")
Minus(v) == IF v = "svid" THEN <<1, HUGE>> ELSE Inf(1)

Standard1to7(v, x, y, type) ==
  CASE type \in 1..3 -> Error(Zero(0), "EDOM")         \* acos, asin, atan2(0,0)
    [] type \in 4..6 -> Overflow(v, 0)                 \* hypot, cosh, exp
    [] type = 7 -> Error(Zero(0), "ERANGE")            \* exp underflow

\* y0, y1 and yn of zero and of a negative
Standard8to13(v, x, y, type) == Error(Minus(v), "EDOM")

Standard14to19(v, x, y, type) ==
  CASE type = 14 -> Overflow(v, 0)                                              \* lgamma
    [] type = 15 -> Error(IF v = "svid" THEN <<0, HUGE>> ELSE Inf(0), "EDOM")   \* lgamma(-integer)
    [] type \in {16, 18} -> Error(Minus(v), IF v = "posix" THEN "ERANGE" ELSE "EDOM")   \* log(0)
    [] type \in {17, 19} -> Error(Minus(v), "EDOM")                             \* log(x<0)

\* pow
Standard20to24(v, x, y, type) ==
  CASE type = 20 -> IF v = "svid" THEN Error(Zero(0), "EDOM") ELSE Plain(<<0, One>>)
    [] type = 21 -> Overflow(v, IF Negative(x) /\ IsOdd(y) THEN 1 ELSE 0)
    [] type = 22 -> Error(Zero(0), "ERANGE")
    [] type = 23 -> OutOfDomain(v, Zero(0), Inf(1))
    [] type = 24 -> OutOfDomain(v, Zero(0), NaN)

\* Mutant: the overflow of sinh without the sign of its argument
SinhUnsigned(v, x, y, type) ==
  CASE type = 25 -> Overflow(v, 0)
    [] type \in {26, 27} -> OutOfDomain(v, IF type = 26 THEN Zero(0) ELSE x, NaN)
    [] type \in 28..30 -> Error(NaN, "EDOM")
    [] type \in 31..32 -> Error(Inf(x[1]), IF type = 31 THEN "EDOM" ELSE "ERANGE")
    [] type = 33 -> Error(Zero(x[1]), "ERANGE")

Standard25to33(v, x, y, type) ==
  CASE type = 25 -> Overflow(v, IF Positive(x) THEN 0 ELSE 1)     \* sinh
    [] type = 26 -> OutOfDomain(v, Zero(0), NaN)                  \* sqrt(x<0)
    [] type = 27 -> OutOfDomain(v, x, NaN)                        \* fmod(x,0)
    [] type \in 28..30 -> Error(NaN, "EDOM")                      \* remainder(x,0), acosh, atanh
    [] type = 31 -> Error(Inf(x[1]), "EDOM")                      \* atanh(1)
    [] type = 32 -> Error(IF Positive(x) THEN Inf(0) ELSE Inf(1), "ERANGE")   \* scalb
    [] type = 33 -> Error(Zero(x[1]), "ERANGE")

\* j0, y0, j1, y1, jn, yn: total loss of significance
Standard34to39(v, x, y, type) == Error(Zero(0), "ERANGE")

Standard40to42(v, x, y, type) ==
  CASE type = 40 -> Overflow(v, 0)                                              \* gamma
    [] type = 41 -> Error(IF v = "svid" THEN <<0, HUGE>> ELSE Inf(0), "EDOM")
    [] type = 42 -> IF v \in {"ieee", "posix"} THEN Plain(<<0, One>>) ELSE Error(x, "EDOM")

kernel_standard(v, x, y, type) ==
  CASE type \in 1..7 -> Standard1to7(v, x, y, type)
    [] type \in 8..13 -> Standard8to13(v, x, y, type)
    [] type \in 14..19 -> Standard14to19(v, x, y, type)
    [] type \in 20..24 -> Standard20to24(v, x, y, type)
    [] type \in 25..33 -> Standard25to33(v, x, y, type)
    [] type \in 34..39 -> Standard34to39(v, x, y, type)
    [] type \in 40..42 -> Standard40to42(v, x, y, type)

-----------------------------------------------------------------------------
(* The wrappers: type is 0 where the call is no error.                     *)

Checked(v, z, x, y, type) == IF v = "ieee" \/ type = 0 THEN Plain(z) ELSE kernel_standard(v, x, y, type)

When(condition, type) == IF condition THEN type ELSE 0

acos(v, x) == Checked(v, ieee754_acos(x), x, x, When(~isnan(x) /\ fabs(x) > One, 1))
asin(v, x) == Checked(v, ieee754_asin(x), x, x, When(~isnan(x) /\ fabs(x) > One, 2))
atan2(v, y, x) == Checked(v, ieee754_atan2(y, x), y, x, When(IsZero(x) /\ IsZero(y), 3))
hypot(v, x, y) ==
  LET z == ieee754_hypot(x, y)
  IN Checked(v, z, x, y, When(~finite(z) /\ finite(x) /\ finite(y), 4))
cosh(v, x) == Checked(v, ieee754_cosh(x), x, x, When(~isnan(x) /\ fabs(x) > 1420, 5))
exp(v, x) ==
  Checked(v, ieee754_exp(x), x, x,
          IF ~finite(x) THEN 0 ELSE When(Positive(x) /\ fabs(x) > 1419, 6) + When(Negative(x) /\ fabs(x) > 1490, 7))

\* what y0, y1 and yn make of their argument, and j0, j1 and jn
BesselError(x, zero, negative, lost) ==
  CASE IsZero(x) -> zero [] Negative(x) -> negative [] OTHER -> When(~isnan(x) /\ fabs(x) > X_TLOSS, lost)
TotalLoss(x, lost) == When(~isnan(x) /\ fabs(x) > X_TLOSS, lost)

j0(v, x) == Checked(v, ieee754_j0(x), x, x, TotalLoss(x, 34))
y0(v, x) == Checked(v, ieee754_y0(x), x, x, BesselError(x, 8, 9, 35))
j1(v, x) == Checked(v, ieee754_j1(x), x, x, TotalLoss(x, 36))
y1(v, x) == Checked(v, ieee754_y1(x), x, x, BesselError(x, 10, 11, 37))
jn(v, n, x) == Checked(v, ieee754_jn(n, x), n, x, TotalLoss(x, 38))
yn(v, n, x) == Checked(v, ieee754_yn(n, x), n, x, BesselError(x, 12, 13, 39))

GammaError(x, pole, overflow) ==
  IF finite(ieee754_lgamma_r(x)) \/ ~finite(x) THEN 0
  ELSE IF IsInteger(x) /\ ~Positive(x) THEN pole ELSE overflow

lgamma(v, x) == Checked(v, ieee754_lgamma_r(x), x, x, GammaError(x, 15, 14))
lgamma_r(v, x) == Checked(v, ieee754_lgamma_r(x), x, x, GammaError(x, 15, 14))
gamma(v, x) == Checked(v, ieee754_lgamma_r(x), x, x, GammaError(x, 41, 40))
gamma_r(v, x) == Checked(v, ieee754_lgamma_r(x), x, x, GammaError(x, 41, 40))

\* Mutant: the logarithm of zero taken for no error
LogWithoutPole(v, x) ==
  Checked(v, ieee754_log(x), x, x, IF Negative(x) THEN 17 ELSE 0)

log(v, x) ==
  Checked(v, ieee754_log(x), x, x, IF isnan(x) \/ Positive(x) THEN 0 ELSE IF IsZero(x) THEN 16 ELSE 17)
log10(v, x) ==
  Checked(v, ieee754_log10(x), x, x, IF isnan(x) \/ Positive(x) THEN 0 ELSE IF IsZero(x) THEN 18 ELSE 19)

PowError(x, y, z) ==
  CASE isnan(y) -> 0
    [] isnan(x) /\ ~isnan(y) -> When(IsZero(y), 42)
    [] IsZero(x) /\ ~isnan(y) -> IF IsZero(y) THEN 20 ELSE When(finite(y) /\ Negative(y), 23)
    [] OTHER -> IF ~finite(x) \/ ~finite(y) THEN 0
                ELSE IF isnan(z) THEN 24 ELSE IF ~finite(z) THEN 21 ELSE When(IsZero(z), 22)

pow(v, x, y) == Checked(v, ieee754_pow(x, y), x, y, PowError(x, y, ieee754_pow(x, y)))

sinh(v, x) == Checked(v, ieee754_sinh(x), x, x, When(~finite(ieee754_sinh(x)) /\ finite(x), 25))
sqrt(v, x) == Checked(v, ieee754_sqrt(x), x, x, When(Negative(x), 26))
fmod(v, x, y) == Checked(v, ieee754_fmod(x, y), x, y, When(IsZero(y) /\ ~isnan(x), 27))
remainder(v, x, y) == Checked(v, ieee754_remainder(x, y), x, y, When(IsZero(y), 28))
acosh(v, x) == Checked(v, ieee754_acosh(x), x, x, When(~isnan(x) /\ (x[1] = 1 \/ fabs(x) < One), 29))
atanh(v, x) ==
  Checked(v, ieee754_atanh(x), x, x, When(~isnan(x) /\ fabs(x) > One, 30) + When(fabs(x) = One, 31))

scalb(v, x, fn) ==
  LET z == ieee754_scalb(x, fn)
      quiet == IF ~finite(fn) THEN Error(z, "ERANGE") ELSE Plain(z)
  IN CASE v = "ieee" -> Plain(z)
       [] v # "ieee" /\ fabs(z) = Infinite /\ finite(x) -> kernel_standard(v, x, fn, 32)
       [] v # "ieee" /\ IsZero(z) /\ ~IsZero(x) -> kernel_standard(v, x, fn, 33)
       [] OTHER -> quiet

-----------------------------------------------------------------------------
(* A call of a program linked with a library of some version.              *)

VARIABLES
  version,   \* _LIB_VERSION
  call,      \* the function and its arguments
  z,         \* what it returned
  errno,
  signgam

mathVars == <<version, call, z, errno, signgam>>

NoCall == [f |-> "none", x |-> Zero(0), y |-> Zero(0), n |-> 0]

MathInit ==
  /\ version \in Versions
  /\ call = NoCall
  /\ z = Zero(0)
  /\ errno = "none"
  /\ signgam = 1

Returns(f, x, y, n, result) ==
  /\ call' = [f |-> f, x |-> x, y |-> y, n |-> n]
  /\ z' = result.z
  /\ errno' = result.errno

Quiet == UNCHANGED <<version, signgam>>

InverseFunctions ==
  /\ \E x \in Arguments :
       \/ Returns("acos", x, x, 0, acos(version, x))
       \/ Returns("asin", x, x, 0, asin(version, x))
       \/ Returns("acosh", x, x, 0, acosh(version, x))
       \/ Returns("atanh", x, x, 0, atanh(version, x))
       \/ \E y \in Arguments : Returns("atan2", y, x, 0, atan2(version, y, x))
  /\ Quiet

Exponential ==
  /\ \E x \in Arguments :
       \/ Returns("exp", x, x, 0, exp(version, x))
       \/ Returns("cosh", x, x, 0, cosh(version, x))
       \/ Returns("sinh", x, x, 0, sinh(version, x))
       \/ Returns("log", x, x, 0, log(version, x))
       \/ Returns("log10", x, x, 0, log10(version, x))
  /\ Quiet

Power ==
  /\ \/ \E x \in Arguments :
          \/ Returns("sqrt", x, x, 0, sqrt(version, x))
          \/ \E y \in Arguments :
               \/ Returns("hypot", x, y, 0, hypot(version, x, y))
               \/ Returns("fmod", x, y, 0, fmod(version, x, y))
               \/ Returns("remainder", x, y, 0, remainder(version, x, y))
     \/ \E x \in Bases, y \in Exponents :
          \/ Returns("pow", x, y, 0, pow(version, x, y))
          \/ Returns("scalb", x, y, 0, scalb(version, x, y))
  /\ Quiet

Bessel ==
  /\ \E x \in Arguments :
       \/ Returns("j0", x, x, 0, j0(version, x))
       \/ Returns("j1", x, x, 0, j1(version, x))
       \/ Returns("y0", x, x, 0, y0(version, x))
       \/ Returns("y1", x, x, 0, y1(version, x))
       \/ \E n \in Orders : \/ Returns("jn", x, x, n, jn(version, n, x))
                            \/ Returns("yn", x, x, n, yn(version, n, x))
  /\ Quiet

\* signgam is a global for lgamma and gamma, the caller's variable for the others
Gamma ==
  /\ \E x \in Arguments :
       /\ \/ Returns("lgamma", x, x, 0, lgamma(version, x))
          \/ Returns("lgamma_r", x, x, 0, lgamma_r(version, x))
          \/ Returns("gamma", x, x, 0, gamma(version, x))
          \/ Returns("gamma_r", x, x, 0, gamma_r(version, x))
       /\ signgam' = Signgam(x)
  /\ UNCHANGED version

MathNext == call = NoCall /\ (InverseFunctions \/ Exponential \/ Power \/ Bessel \/ Gamma)

MathSpec == MathInit /\ [][MathNext]_mathVars

-----------------------------------------------------------------------------
(* What mathematics says of a call with finite arguments.                  *)

x_ == call.x
y_ == call.y
Of(S) == call.f \in S
FiniteCall == call # NoCall /\ finite(x_) /\ finite(y_)

Gammas == {"lgamma", "lgamma_r", "gamma", "gamma_r"}
SecondKind == {"y0", "y1", "yn"}
Logarithms == {"log", "log10"}

\* twice the order of 2 of the result
ResultOrder == IF Of({"pow"}) THEN RaisedOrder(x_, y_) ELSE ScaledOrder(x_, y_)
NonInteger == Of({"scalb"}) /\ ~IsInteger(y_)

Scales == Of({"pow", "scalb"}) /\ ~NonInteger /\ ~IsZero(x_) /\ (Of({"pow"}) => fabs(x_) # One)

NoValue ==
  \/ Of({"acos", "asin", "atanh"}) /\ fabs(x_) > One
  \/ Of({"acosh"}) /\ (x_[1] = 1 \/ fabs(x_) < One)
  \/ Of({"sqrt"} \cup Logarithms \cup SecondKind) /\ Negative(x_)
  \/ Of({"fmod", "remainder"}) /\ IsZero(y_)
  \/ Of({"pow"}) /\ Negative(x_) /\ ~IsInteger(y_)

Pole ==
  \/ Of(Logarithms \cup SecondKind) /\ IsZero(x_)
  \/ Of({"atanh"}) /\ fabs(x_) = One
  \/ Of(Gammas) /\ IsInteger(x_) /\ ~Positive(x_)
  \/ Of({"pow"}) /\ IsZero(x_) /\ Negative(y_)

TooLarge ==
  \/ Of({"exp"}) /\ Positive(x_) /\ fabs(x_) > 1419
  \/ Of({"cosh", "sinh"}) /\ fabs(x_) > 1420
  \/ Of({"hypot"}) /\ fabs(x_) = Largest /\ fabs(y_) = Largest
  \/ Of(Gammas) /\ x_ = <<0, Largest>>
  \/ Scales /\ ~NoValue /\ ResultOrder >= 2048
     /\ ~(fabs(x_) = Largest /\ y_ = (IF Of({"pow"}) THEN <<0, One>> ELSE Zero(y_[1])))

TooSmall ==
  \/ Of({"exp"}) /\ Negative(x_) /\ fabs(x_) > 1490
  \/ Scales /\ ~NoValue /\ ResultOrder <= -2150

Lost == Of({"j0", "j1", "jn"} \cup SecondKind) /\ fabs(x_) > X_TLOSS /\ ~NoValue

Indefinite == (Of({"atan2"}) \/ (Of({"pow"}) /\ version = "svid")) /\ IsZero(x_) /\ IsZero(y_)

\* the sign of the infinite value
IdealSign ==
  CASE Of({"atanh", "sinh", "scalb"}) -> x_[1]
    [] Of(Logarithms \cup SecondKind) -> 1
    [] Of({"pow"}) -> IF x_[1] = 1 /\ IsOdd(y_) THEN 1 ELSE 0
    [] OTHER -> 0

\* In every standard but IEEE's, errno says what became of a call with finite
\* arguments: EDOM for a call that has no value, ERANGE for a result too large
\* or too small or without a significant digit, one of them at a pole, and it
\* is set for nothing else.  IEEE's version never sets it.  The wrappers do not
\* notice scalb by a fraction, which has no value either.
ErrnoTells ==
  IF version = "ieee" THEN errno = "none"
  ELSE FiniteCall =>
         CASE NoValue \/ Indefinite -> errno = "EDOM"
           [] ~NoValue /\ Pole -> errno \in {"EDOM", "ERANGE"}
           [] ~NoValue /\ ~Pole /\ (TooLarge \/ TooSmall \/ Lost) -> errno = "ERANGE"
           [] OTHER -> errno = "none"

\* Where k_standard.c's value is minus infinity, whatever the function's own.
MinusInfinity ==
  version # "ieee" /\ ((Of({"pow"}) /\ Pole) \/ (Of(Logarithms \cup SecondKind) /\ NoValue))

\* A finite call of a library built for IEEE, XOPEN or POSIX returns infinity
\* where mathematics has an infinite value or one too large, of the same sign,
\* and NaN where it has none: exactly there.  Outside IEEE k_standard.c says
\* otherwise of three calls.  acos and asin without a value are zero.  y0, y1,
\* yn, log and log10 of a negative and pow(0, negative) are minus infinity,
\* against the comments of the sources: NaN (k_standard.c:213, 247 and 281,
\* e_log.c:50, e_log10.c:35), and plus infinity (e_pow.c:39-40).
InfinitiesAgree ==
  FiniteCall /\ version # "svid" =>
    CASE MinusInfinity -> z = Inf(1)
      [] ~MinusInfinity /\ (Pole \/ TooLarge) -> z = Inf(IdealSign)
      [] ~MinusInfinity /\ (NoValue \/ NonInteger) ->
           z = IF version # "ieee" /\ Of({"acos", "asin"}) THEN Zero(0) ELSE NaN
      [] OTHER -> finite(z)

=============================================================================
