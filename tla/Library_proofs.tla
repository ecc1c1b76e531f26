--------------------------- MODULE Library_proofs ---------------------------
(***************************************************************************)
(* What the wrappers of fdlibm tell of a call, proved for every argument:  *)
(* any sign and any magnitude in halves up to the largest double, the      *)
(* infinities and NaN, any order of a Bessel function, each of the four    *)
(* standards.  One lemma for each function of math.h: the call leaves      *)
(* errno and the result as ErrnoTells and InfinitiesAgree have them.       *)
(*                                                                         *)
(* After that getopt: exchange rotates two segments of argv, whatever      *)
(* their lengths, and what a scan keeps makes the end of the options a     *)
(* permutation of the command line that keeps the orders, for any command  *)
(* line, optstring and long options.                                       *)
(***************************************************************************)
EXTENDS Fdlibm, Getopt, NaturalRecursion, SequenceTheorems, TLAPS

Tells == ErrnoTells /\ InfinitiesAgree

\* A call of a library of some version returns result.
Gives(f, x, y, n, result) == Returns(f, x, y, n, result) /\ version' = version /\ version \in Versions

\* The sign and the magnitude of a number.
IsNumber(s, m) == m <= Largest \/ m = Infinite \/ (s = 0 /\ m = 50000)

-----------------------------------------------------------------------------
(* Numbers.                                                                *)

\* A number has a sign and a magnitude.
LEMMA Pairs ==
  ASSUME NEW x \in Numbers
  PROVE  \E s \in {0, 1}, m \in Nat : x = <<s, m>> /\ IsNumber(s, m)
<1>1. CASE x = NaN
  BY <1>1 DEF NaN, IsNumber
<1>2. CASE x \in {0, 1} \X Magnitudes
  <2>1. PICK s \in {0, 1}, m \in Magnitudes : x = <<s, m>>
    BY <1>2
  <2>2. m \in Nat /\ IsNumber(s, m)
    BY DEF Magnitudes, Largest, Infinite, IsNumber
  <2> QED  BY <2>1, <2>2
<1> QED  BY <1>1, <1>2 DEF Numbers

\* Of the bases of pow and scalb there are thirteen.
LEMMA BasePairs ==
  ASSUME NEW x \in BaseNumbers
  PROVE  \E s \in {0, 1}, m \in {0, 1, 2, 4, Largest, Infinite, 50000} : x = <<s, m>> /\ (m = 50000 => s = 0)
<1>1. CASE x = NaN
  BY <1>1 DEF NaN
<1>2. CASE x \in {0, 1} \X {0, 1, 2, 4, Largest, Infinite}
  <2>1. PICK s \in {0, 1}, m \in {0, 1, 2, 4, Largest, Infinite} : x = <<s, m>>
    BY <1>2
  <2> QED  BY <2>1 DEF Largest, Infinite
<1> QED  BY <1>1, <1>2 DEF BaseNumbers

-----------------------------------------------------------------------------
(* The functions of one argument.  The vocabulary of Fdlibm is expanded    *)
(* everywhere; a proof names its function and its kinds of error.          *)

USE DEF Gives, Returns, Versions, FiniteCall, x_, y_, NoCall, Of, NoValue, Indefinite, Pole, TooLarge, TooSmall, Lost,
        Scales, NonInteger, MinusInfinity, Logarithms, SecondKind, Gammas,
        Checked, When, Error, Plain, Overflow, OutOfDomain, Minus, TotalLoss, BesselError,
        fabs, isnan, finite, IsZero, Negative, Positive, IsInteger, IsOdd, IsNumber,
        One, Infinite, Largest, HUGE, X_TLOSS, NaN, Zero, Inf, Ordinary, Some

\* acos has no value beyond one.
LEMMA AcosTells ==
  ASSUME NEW x \in Numbers, Gives("acos", x, x, 0, acos(version, x))
  PROVE  Tells'
<1>1. PICK s \in {0, 1}, m \in Nat : x = <<s, m>> /\ IsNumber(s, m)
  BY Pairs
<1>2. ErrnoTells'
  BY <1>1 DEF acos, ieee754_acos, Standard1to7, kernel_standard, ErrnoTells
<1>3. InfinitiesAgree'
  BY <1>1 DEF acos, ieee754_acos, Standard1to7, kernel_standard, InfinitiesAgree, IdealSign
<1> QED  BY <1>2, <1>3 DEF Tells

\* asin has no value beyond one.
LEMMA AsinTells ==
  ASSUME NEW x \in Numbers, Gives("asin", x, x, 0, asin(version, x))
  PROVE  Tells'
<1>1. PICK s \in {0, 1}, m \in Nat : x = <<s, m>> /\ IsNumber(s, m)
  BY Pairs
<1>2. ErrnoTells'
  BY <1>1 DEF asin, ieee754_asin, Standard1to7, kernel_standard, ErrnoTells
<1>3. InfinitiesAgree'
  BY <1>1 DEF asin, ieee754_asin, Standard1to7, kernel_standard, InfinitiesAgree, IdealSign
<1> QED  BY <1>2, <1>3 DEF Tells

\* acosh has no value below one.
LEMMA AcoshTells ==
  ASSUME NEW x \in Numbers, Gives("acosh", x, x, 0, acosh(version, x))
  PROVE  Tells'
<1>1. PICK s \in {0, 1}, m \in Nat : x = <<s, m>> /\ IsNumber(s, m)
  BY Pairs
<1>2. ErrnoTells'
  BY <1>1 DEF acosh, ieee754_acosh, Standard25to33, kernel_standard, ErrnoTells
<1>3. InfinitiesAgree'
  BY <1>1 DEF acosh, ieee754_acosh, Standard25to33, kernel_standard, InfinitiesAgree, IdealSign
<1> QED  BY <1>2, <1>3 DEF Tells

\* atanh has no value beyond one and a pole at both ends.
LEMMA AtanhTells ==
  ASSUME NEW x \in Numbers, Gives("atanh", x, x, 0, atanh(version, x))
  PROVE  Tells'
<1>1. PICK s \in {0, 1}, m \in Nat : x = <<s, m>> /\ IsNumber(s, m)
  BY Pairs
<1>2. ErrnoTells'
  <2>1. CASE isnan(x) \/ fabs(x) > One
    BY <1>1, <2>1 DEF atanh, ieee754_atanh, Standard25to33, kernel_standard, ErrnoTells
  <2>2. CASE ~(isnan(x) \/ fabs(x) > One)
    BY <1>1, <2>2 DEF atanh, ieee754_atanh, Standard25to33, kernel_standard, ErrnoTells
  <2> QED  BY <2>1, <2>2
<1>3. InfinitiesAgree'
  BY <1>1 DEF atanh, ieee754_atanh, Standard25to33, kernel_standard, InfinitiesAgree, IdealSign
<1> QED  BY <1>2, <1>3 DEF Tells

\* exp overflows above 709.78 and underflows below -745.13.
LEMMA ExpTells ==
  ASSUME NEW x \in Numbers, Gives("exp", x, x, 0, exp(version, x))
  PROVE  Tells'
<1>1. PICK s \in {0, 1}, m \in Nat : x = <<s, m>> /\ IsNumber(s, m)
  BY Pairs
<1>2. ErrnoTells'
  <2>1. CASE s = 0
    BY <1>1, <2>1 DEF exp, ieee754_exp, Standard1to7, kernel_standard, ErrnoTells
  <2>2. CASE s = 1
    BY <1>1, <2>2 DEF exp, ieee754_exp, Standard1to7, kernel_standard, ErrnoTells
  <2> QED  BY <2>1, <2>2
<1>3. InfinitiesAgree'
  <2>1. CASE s = 0
    BY <1>1, <2>1 DEF exp, ieee754_exp, Standard1to7, kernel_standard, InfinitiesAgree, IdealSign
  <2>2. CASE s = 1
    BY <1>1, <2>2 DEF exp, ieee754_exp, Standard1to7, kernel_standard, InfinitiesAgree, IdealSign
  <2> QED  BY <2>1, <2>2
<1> QED  BY <1>2, <1>3 DEF Tells

\* cosh overflows above 710.47.
LEMMA CoshTells ==
  ASSUME NEW x \in Numbers, Gives("cosh", x, x, 0, cosh(version, x))
  PROVE  Tells'
<1>1. PICK s \in {0, 1}, m \in Nat : x = <<s, m>> /\ IsNumber(s, m)
  BY Pairs
<1>2. ErrnoTells'
  BY <1>1 DEF cosh, ieee754_cosh, Standard1to7, kernel_standard, ErrnoTells
<1>3. InfinitiesAgree'
  BY <1>1 DEF cosh, ieee754_cosh, Standard1to7, kernel_standard, InfinitiesAgree, IdealSign
<1> QED  BY <1>2, <1>3 DEF Tells

\* sinh overflows above 710.47, with the sign of its argument.
LEMMA SinhTells ==
  ASSUME NEW x \in Numbers, Gives("sinh", x, x, 0, sinh(version, x))
  PROVE  Tells'
<1>1. PICK s \in {0, 1}, m \in Nat : x = <<s, m>> /\ IsNumber(s, m)
  BY Pairs
<1>2. ErrnoTells'
  BY <1>1 DEF sinh, ieee754_sinh, Standard25to33, kernel_standard, ErrnoTells
<1>3. InfinitiesAgree'
  BY <1>1 DEF sinh, ieee754_sinh, Standard25to33, kernel_standard, InfinitiesAgree, IdealSign
<1> QED  BY <1>2, <1>3 DEF Tells

\* log has no value for a negative number and a pole at zero.
LEMMA LogTells ==
  ASSUME NEW x \in Numbers, Gives("log", x, x, 0, log(version, x))
  PROVE  Tells'
<1>1. PICK s \in {0, 1}, m \in Nat : x = <<s, m>> /\ IsNumber(s, m)
  BY Pairs
<1>2. ErrnoTells'
  BY <1>1 DEF log, ieee754_log, Standard14to19, kernel_standard, ErrnoTells
<1>3. InfinitiesAgree'
  BY <1>1 DEF log, ieee754_log, Standard14to19, kernel_standard, InfinitiesAgree, IdealSign
<1> QED  BY <1>2, <1>3 DEF Tells

\* log10 has no value for a negative number and a pole at zero.
LEMMA Log10Tells ==
  ASSUME NEW x \in Numbers, Gives("log10", x, x, 0, log10(version, x))
  PROVE  Tells'
<1>1. PICK s \in {0, 1}, m \in Nat : x = <<s, m>> /\ IsNumber(s, m)
  BY Pairs
<1>2. ErrnoTells'
  BY <1>1 DEF log10, ieee754_log10, Standard14to19, kernel_standard, ErrnoTells
<1>3. InfinitiesAgree'
  BY <1>1 DEF log10, ieee754_log10, Standard14to19, kernel_standard, InfinitiesAgree, IdealSign
<1> QED  BY <1>2, <1>3 DEF Tells

\* sqrt has no value for a negative number.
LEMMA SqrtTells ==
  ASSUME NEW x \in Numbers, Gives("sqrt", x, x, 0, sqrt(version, x))
  PROVE  Tells'
<1>1. PICK s \in {0, 1}, m \in Nat : x = <<s, m>> /\ IsNumber(s, m)
  BY Pairs
<1>2. ErrnoTells'
  BY <1>1 DEF sqrt, ieee754_sqrt, Standard25to33, kernel_standard, ErrnoTells
<1>3. InfinitiesAgree'
  BY <1>1 DEF sqrt, ieee754_sqrt, Standard25to33, kernel_standard, InfinitiesAgree, IdealSign
<1> QED  BY <1>2, <1>3 DEF Tells

\* j0 of a large number has no significant digit.
LEMMA J0Tells ==
  ASSUME NEW x \in Numbers, Gives("j0", x, x, 0, j0(version, x))
  PROVE  Tells'
<1>1. PICK s \in {0, 1}, m \in Nat : x = <<s, m>> /\ IsNumber(s, m)
  BY Pairs
<1>2. ErrnoTells'
  BY <1>1 DEF j0, ieee754_j0, Standard34to39, kernel_standard, ErrnoTells
<1>3. InfinitiesAgree'
  BY <1>1 DEF j0, ieee754_j0, Standard34to39, kernel_standard, InfinitiesAgree, IdealSign
<1> QED  BY <1>2, <1>3 DEF Tells

\* j1 of a large number has no significant digit.
LEMMA J1Tells ==
  ASSUME NEW x \in Numbers, Gives("j1", x, x, 0, j1(version, x))
  PROVE  Tells'
<1>1. PICK s \in {0, 1}, m \in Nat : x = <<s, m>> /\ IsNumber(s, m)
  BY Pairs
<1>2. ErrnoTells'
  BY <1>1 DEF j1, ieee754_j1, Standard34to39, kernel_standard, ErrnoTells
<1>3. InfinitiesAgree'
  BY <1>1 DEF j1, ieee754_j1, Standard34to39, kernel_standard, InfinitiesAgree, IdealSign
<1> QED  BY <1>2, <1>3 DEF Tells

\* y0 has a pole at zero, no value below, no digit of a large number.
LEMMA Y0Tells ==
  ASSUME NEW x \in Numbers, Gives("y0", x, x, 0, y0(version, x))
  PROVE  Tells'
<1>1. PICK s \in {0, 1}, m \in Nat : x = <<s, m>> /\ IsNumber(s, m)
  BY Pairs
<1>2. ErrnoTells'
  BY <1>1 DEF y0, ieee754_y0, Standard8to13, Standard34to39, kernel_standard, ErrnoTells
<1>3. InfinitiesAgree'
  BY <1>1 DEF y0, ieee754_y0, Standard8to13, Standard34to39, kernel_standard, InfinitiesAgree, IdealSign
<1> QED  BY <1>2, <1>3 DEF Tells

\* y1 has a pole at zero, no value below, no digit of a large number.
LEMMA Y1Tells ==
  ASSUME NEW x \in Numbers, Gives("y1", x, x, 0, y1(version, x))
  PROVE  Tells'
<1>1. PICK s \in {0, 1}, m \in Nat : x = <<s, m>> /\ IsNumber(s, m)
  BY Pairs
<1>2. ErrnoTells'
  BY <1>1 DEF y1, ieee754_y1, Standard8to13, Standard34to39, kernel_standard, ErrnoTells
<1>3. InfinitiesAgree'
  BY <1>1 DEF y1, ieee754_y1, Standard8to13, Standard34to39, kernel_standard, InfinitiesAgree, IdealSign
<1> QED  BY <1>2, <1>3 DEF Tells

\* lgamma has a pole at zero and the negative integers.
LEMMA LgammaTells ==
  ASSUME NEW x \in Numbers, Gives("lgamma", x, x, 0, lgamma(version, x))
  PROVE  Tells'
<1>1. PICK s \in {0, 1}, m \in Nat : x = <<s, m>> /\ IsNumber(s, m)
  BY Pairs
<1>2. ErrnoTells'
  BY <1>1 DEF lgamma, ieee754_lgamma_r, GammaError, Standard14to19, kernel_standard, ErrnoTells
<1>3. InfinitiesAgree'
  BY <1>1 DEF lgamma, ieee754_lgamma_r, GammaError, Standard14to19, kernel_standard, InfinitiesAgree, IdealSign
<1> QED  BY <1>2, <1>3 DEF Tells

\* lgamma_r is lgamma, the sign stored elsewhere.
LEMMA LgammaRTells ==
  ASSUME NEW x \in Numbers, Gives("lgamma_r", x, x, 0, lgamma_r(version, x))
  PROVE  Tells'
<1>1. PICK s \in {0, 1}, m \in Nat : x = <<s, m>> /\ IsNumber(s, m)
  BY Pairs
<1>2. ErrnoTells'
  BY <1>1 DEF lgamma_r, ieee754_lgamma_r, GammaError, Standard14to19, kernel_standard, ErrnoTells
<1>3. InfinitiesAgree'
  BY <1>1 DEF lgamma_r, ieee754_lgamma_r, GammaError, Standard14to19, kernel_standard, InfinitiesAgree, IdealSign
<1> QED  BY <1>2, <1>3 DEF Tells

\* gamma has another kind of error at the same poles.
LEMMA GammaTells ==
  ASSUME NEW x \in Numbers, Gives("gamma", x, x, 0, gamma(version, x))
  PROVE  Tells'
<1>1. PICK s \in {0, 1}, m \in Nat : x = <<s, m>> /\ IsNumber(s, m)
  BY Pairs
<1>2. ErrnoTells'
  BY <1>1 DEF gamma, ieee754_lgamma_r, GammaError, Standard40to42, kernel_standard, ErrnoTells
<1>3. InfinitiesAgree'
  BY <1>1 DEF gamma, ieee754_lgamma_r, GammaError, Standard40to42, kernel_standard, InfinitiesAgree, IdealSign
<1> QED  BY <1>2, <1>3 DEF Tells

\* gamma_r is gamma, the sign stored elsewhere.
LEMMA GammaRTells ==
  ASSUME NEW x \in Numbers, Gives("gamma_r", x, x, 0, gamma_r(version, x))
  PROVE  Tells'
<1>1. PICK s \in {0, 1}, m \in Nat : x = <<s, m>> /\ IsNumber(s, m)
  BY Pairs
<1>2. ErrnoTells'
  BY <1>1 DEF gamma_r, ieee754_lgamma_r, GammaError, Standard40to42, kernel_standard, ErrnoTells
<1>3. InfinitiesAgree'
  BY <1>1 DEF gamma_r, ieee754_lgamma_r, GammaError, Standard40to42, kernel_standard, InfinitiesAgree, IdealSign
<1> QED  BY <1>2, <1>3 DEF Tells

-----------------------------------------------------------------------------
(* The functions of two arguments.                                         *)

\* atan2 of two zeros is an error of every standard but IEEE's.
LEMMA Atan2Tells ==
  ASSUME NEW x \in Numbers, NEW y \in Numbers, Gives("atan2", y, x, 0, atan2(version, y, x))
  PROVE  Tells'
<1>1. PICK s \in {0, 1}, m \in Nat, t \in {0, 1}, k \in Nat : /\ x = <<s, m>> /\ IsNumber(s, m)
                                                             /\ y = <<t, k>> /\ IsNumber(t, k)
  BY Pairs
<1>2. ErrnoTells'
  BY <1>1 DEF atan2, ieee754_atan2, Standard1to7, kernel_standard, ErrnoTells
<1>3. InfinitiesAgree'
  BY <1>1 DEF atan2, ieee754_atan2, Standard1to7, kernel_standard, InfinitiesAgree, IdealSign
<1> QED  BY <1>2, <1>3 DEF Tells

\* hypot of two of the largest numbers overflows.
LEMMA HypotTells ==
  ASSUME NEW x \in Numbers, NEW y \in Numbers, Gives("hypot", x, y, 0, hypot(version, x, y))
  PROVE  Tells'
<1>1. PICK s \in {0, 1}, m \in Nat, t \in {0, 1}, k \in Nat : /\ x = <<s, m>> /\ IsNumber(s, m)
                                                             /\ y = <<t, k>> /\ IsNumber(t, k)
  BY Pairs
<1>2. ErrnoTells'
  BY <1>1 DEF hypot, ieee754_hypot, Standard1to7, kernel_standard, ErrnoTells
<1>3. InfinitiesAgree'
  BY <1>1 DEF hypot, ieee754_hypot, Standard1to7, kernel_standard, InfinitiesAgree, IdealSign
<1> QED  BY <1>2, <1>3 DEF Tells

\* fmod by zero has no value.
LEMMA FmodTells ==
  ASSUME NEW x \in Numbers, NEW y \in Numbers, Gives("fmod", x, y, 0, fmod(version, x, y))
  PROVE  Tells'
<1>1. PICK s \in {0, 1}, m \in Nat, t \in {0, 1}, k \in Nat : /\ x = <<s, m>> /\ IsNumber(s, m)
                                                             /\ y = <<t, k>> /\ IsNumber(t, k)
  BY Pairs
<1>2. ErrnoTells'
  BY <1>1 DEF fmod, ieee754_fmod, Standard25to33, kernel_standard, ErrnoTells
<1>3. InfinitiesAgree'
  BY <1>1 DEF fmod, ieee754_fmod, Standard25to33, kernel_standard, InfinitiesAgree, IdealSign
<1> QED  BY <1>2, <1>3 DEF Tells

\* remainder by zero has no value.
LEMMA RemainderTells ==
  ASSUME NEW x \in Numbers, NEW y \in Numbers, Gives("remainder", x, y, 0, remainder(version, x, y))
  PROVE  Tells'
<1>1. PICK s \in {0, 1}, m \in Nat, t \in {0, 1}, k \in Nat : /\ x = <<s, m>> /\ IsNumber(s, m)
                                                             /\ y = <<t, k>> /\ IsNumber(t, k)
  BY Pairs
<1>2. ErrnoTells'
  BY <1>1 DEF remainder, ieee754_remainder, ieee754_fmod, Standard25to33, kernel_standard, ErrnoTells
<1>3. InfinitiesAgree'
  BY <1>1 DEF remainder, ieee754_remainder, ieee754_fmod, Standard25to33, kernel_standard, InfinitiesAgree, IdealSign
<1> QED  BY <1>2, <1>3 DEF Tells

\* jn of any order is as j0 and j1.
LEMMA JnTells ==
  ASSUME NEW x \in Numbers, NEW n \in Int, Gives("jn", x, x, n, jn(version, n, x))
  PROVE  Tells'
<1>1. PICK s \in {0, 1}, m \in Nat : x = <<s, m>> /\ IsNumber(s, m)
  BY Pairs
<1>2. ErrnoTells'
  BY <1>1 DEF jn, ieee754_jn, ieee754_j0, ieee754_j1, Standard34to39, kernel_standard, ErrnoTells
<1>3. InfinitiesAgree'
  BY <1>1 DEF jn, ieee754_jn, ieee754_j0, ieee754_j1, Standard34to39, kernel_standard, InfinitiesAgree, IdealSign
<1> QED  BY <1>2, <1>3 DEF Tells

\* yn of any order is as y0 and y1.
LEMMA YnTells ==
  ASSUME NEW x \in Numbers, NEW n \in Int, Gives("yn", x, x, n, yn(version, n, x))
  PROVE  Tells'
<1>1. PICK s \in {0, 1}, m \in Nat : x = <<s, m>> /\ IsNumber(s, m)
  BY Pairs
<1>2. ErrnoTells'
  BY <1>1 DEF yn, ieee754_yn, Standard8to13, Standard34to39, kernel_standard, ErrnoTells
<1>3. InfinitiesAgree'
  BY <1>1 DEF yn, ieee754_yn, Standard8to13, Standard34to39, kernel_standard, InfinitiesAgree, IdealSign
<1> QED  BY <1>2, <1>3 DEF Tells

-----------------------------------------------------------------------------
(* Scaling and raising.                                                    *)

\* scalb by an integer overflows and underflows by the order of the result.
LEMMA ScalbTells ==
  ASSUME NEW x \in BaseNumbers, NEW y \in Numbers, Gives("scalb", x, y, 0, scalb(version, x, y))
  PROVE  Tells'
<1>1. PICK s \in {0, 1}, m \in {0, 1, 2, 4, Largest, Infinite, 50000} : x = <<s, m>> /\ (m = 50000 => s = 0)
  BY BasePairs
<1>2. PICK t \in {0, 1}, k \in Nat : y = <<t, k>> /\ IsNumber(t, k)
  BY Pairs
<1>3. PICK r : r = ieee754_scalb(x, y)
  OBVIOUS

<1>4. CASE ~(m < Infinite /\ k < Infinite)
  BY <1>1, <1>2, <1>4 DEF scalb, ErrnoTells, InfinitiesAgree, Tells
<1>5. CASE m < Infinite /\ k < Infinite /\ k % 2 # 0
  <2>1. r = NaN
    BY <1>1, <1>2, <1>3, <1>5 DEF ieee754_scalb
  <2>2. call' = [f |-> "scalb", x |-> x, y |-> y, n |-> 0] /\ z' = NaN /\ errno' = "none"
    BY <1>1, <1>2, <1>3, <1>5, <2>1 DEF scalb
  <2> QED
    BY <1>1, <1>2, <1>5, <2>2 DEF ErrnoTells, InfinitiesAgree, Tells
<1>6. CASE m = 0 /\ k < Infinite /\ k % 2 = 0
  <2>1. r = x
    BY <1>1, <1>2, <1>3, <1>6 DEF ieee754_scalb
  <2>2. call' = [f |-> "scalb", x |-> x, y |-> y, n |-> 0] /\ z' = x /\ errno' = "none"
    BY <1>1, <1>2, <1>3, <1>6, <2>1 DEF scalb
  <2> QED
    BY <1>1, <1>2, <1>6, <2>2 DEF ErrnoTells, InfinitiesAgree, Tells
<1>7. CASE m \in {1, 2, 4, Largest} /\ k < Infinite /\ k % 2 = 0
  <2>1. PICK e \in Int : e = ScaledOrder(x, y) /\ (m = Largest => (e = 2048 <=> k = 0))
    BY <1>1, <1>2, <1>7 DEF ScaledOrder, Log2, Halves
  <2>2. r = OfOrder(s, e, m = Largest)
    BY <1>1, <1>2, <1>3, <1>7, <2>1 DEF ieee754_scalb
  <2>3. CASE e > 2048 \/ (e = 2048 /\ m # Largest)
    <3>1. r = Inf(s)
      BY <2>2, <2>3 DEF OfOrder
    <3>2. /\ call' = [f |-> "scalb", x |-> x, y |-> y, n |-> 0]
          /\ z' = Inf(s) /\ errno' = IF version = "ieee" THEN "none" ELSE "ERANGE"
      BY <1>1, <1>2, <1>3, <1>7, <3>1 DEF scalb, kernel_standard, Standard25to33
    <3> QED
      BY <1>1, <1>2, <1>7, <2>1, <2>3, <3>2 DEF ErrnoTells, InfinitiesAgree, Tells, IdealSign, ResultOrder
  <2>4. CASE e <= -2150
    <3>1. r = Zero(s)
      BY <2>1, <2>2, <2>4 DEF OfOrder
    <3>2. /\ call' = [f |-> "scalb", x |-> x, y |-> y, n |-> 0]
          /\ z' = Zero(s) /\ errno' = IF version = "ieee" THEN "none" ELSE "ERANGE"
      BY <1>1, <1>2, <1>3, <1>7, <3>1 DEF scalb, kernel_standard, Standard25to33
    <3> QED
      BY <1>1, <1>2, <1>7, <2>1, <2>4, <3>2 DEF ErrnoTells, InfinitiesAgree, Tells, IdealSign, ResultOrder
  <2>5. CASE e > -2150 /\ ~(e > 2048 \/ (e = 2048 /\ m # Largest))
    <3>1. r = <<s, Some>>
      BY <2>1, <2>2, <2>5 DEF OfOrder
    <3>2. /\ call' = [f |-> "scalb", x |-> x, y |-> y, n |-> 0]
          /\ z' = <<s, Some>> /\ errno' = "none"
      BY <1>1, <1>2, <1>3, <1>7, <3>1 DEF scalb
    <3> QED
      BY <1>1, <1>2, <1>7, <2>1, <2>5, <3>2 DEF ErrnoTells, InfinitiesAgree, Tells, IdealSign, ResultOrder
  <2> QED  BY <2>1, <2>3, <2>4, <2>5
<1> QED  BY <1>1, <1>2, <1>4, <1>5, <1>6, <1>7

\* The order of a power, of which pow needs no more than this.
LEMMA Raised ==
  ASSUME NEW s \in {0, 1}, NEW m \in {1, 2, 4, Largest}, NEW t \in {0, 1}, NEW k \in Nat
  PROVE  /\ RaisedOrder(<<s, m>>, <<t, k>>) \in Int
         /\ k = 0 => RaisedOrder(<<s, m>>, <<t, k>>) = 0
         /\ m = Largest /\ t = 0 /\ k = 2 => RaisedOrder(<<s, m>>, <<t, k>>) = 2048
<1>1. Halves(<<t, k>>) \in Int /\ (k = 0 => Halves(<<t, k>>) = 0) /\ (t = 0 => Halves(<<t, k>>) = k)
  BY DEF Halves
<1>2. Log2(<<s, m>>) \in {-1, 0, 1, 1024} /\ (m = Largest => Log2(<<s, m>>) = 1024)
  BY DEF Log2
<1>3. PICK a \in {-1, 0, 1, 1024}, b \in Int : a = Log2(<<s, m>>) /\ b = Halves(<<t, k>>)
  BY <1>1, <1>2
<1>4. a * b \in Int /\ (b = 0 => a * b = 0) /\ (a = 1024 /\ b = 2 => a * b = 2048)
  BY SMT
<1> QED  BY <1>1, <1>2, <1>3, <1>4 DEF RaisedOrder

\* pow: no value of a negative number but by an integer, a pole at zero, overflow and
\* underflow by the order of the result.
LEMMA PowTells ==
  ASSUME NEW x \in BaseNumbers, NEW y \in Numbers, Gives("pow", x, y, 0, pow(version, x, y))
  PROVE  Tells'
<1>1. PICK s \in {0, 1}, m \in {0, 1, 2, 4, Largest, Infinite, 50000} : x = <<s, m>> /\ (m = 50000 => s = 0)
  BY BasePairs
<1>2. PICK t \in {0, 1}, k \in Nat : y = <<t, k>> /\ IsNumber(t, k)
  BY Pairs
<1>3. PICK r, type : r = ieee754_pow(x, y) /\ type = PowError(x, y, r)
  OBVIOUS
<1>4. /\ call' = [f |-> "pow", x |-> x, y |-> y, n |-> 0]
      /\ z' = (IF version = "ieee" \/ type = 0 THEN r ELSE kernel_standard(version, x, y, type).z)
      /\ errno' = (IF version = "ieee" \/ type = 0 THEN "none" ELSE kernel_standard(version, x, y, type).errno)
  BY <1>3 DEF pow, Checked
<1>5. CASE ~(m < Infinite /\ k < Infinite)
  BY <1>1, <1>2, <1>4, <1>5 DEF ErrnoTells, InfinitiesAgree, Tells
<1>6. CASE m < Infinite /\ k = 0
  <2>1. r = <<0, One>> /\ (m = 0 => type = 20) /\ (m # 0 => type = 0)
    BY <1>1, <1>2, <1>3, <1>6 DEF ieee754_pow, PowSpecial, PowError
  <2>2. m # 0 /\ m # 2 => RaisedOrder(x, y) = 0
    BY <1>1, <1>2, <1>6, Raised
  <2> QED
    BY <1>1, <1>2, <1>4, <1>6, <2>1, <2>2 DEF kernel_standard, Standard20to24, ErrnoTells, InfinitiesAgree, Tells, IdealSign, ResultOrder
<1>7. CASE m = 0 /\ k # 0 /\ k < Infinite
  <2>1. /\ t = 0 => type = 0 /\ IsZero(r)
        /\ t = 1 => type = 23 /\ r = Inf(IF s = 1 /\ IsOdd(y) THEN 1 ELSE 0)
    BY <1>1, <1>2, <1>3, <1>7 DEF ieee754_pow, PowSpecial, PowError
  <2>2. CASE t = 0
    BY <1>1, <1>2, <1>4, <1>7, <2>1, <2>2 DEF kernel_standard, Standard20to24, ErrnoTells, InfinitiesAgree, Tells, IdealSign, ResultOrder
  <2>3. CASE t = 1
    BY <1>1, <1>2, <1>4, <1>7, <2>1, <2>3 DEF kernel_standard, Standard20to24, ErrnoTells, InfinitiesAgree, Tells, IdealSign, ResultOrder
  <2> QED
    BY <2>2, <2>3
<1>8. CASE m # 0 /\ m < Infinite /\ s = 1 /\ k # 0 /\ k < Infinite /\ k % 2 # 0
  <2>1. type = 24 /\ r = NaN
    BY <1>1, <1>2, <1>3, <1>8 DEF ieee754_pow, PowSpecial, PowError
  <2> QED
    BY <1>1, <1>2, <1>4, <1>8, <2>1 DEF kernel_standard, Standard20to24, ErrnoTells, InfinitiesAgree, Tells, IdealSign, ResultOrder
<1>9. CASE m = 2 /\ k # 0 /\ k < Infinite /\ (s = 1 => k % 2 = 0)
  <2>1. type = 0 /\ r = <<IF s = 1 /\ IsOdd(y) THEN 1 ELSE 0, One>>
    BY <1>1, <1>2, <1>3, <1>9 DEF ieee754_pow, PowSpecial, PowError
  <2> QED
    BY <1>1, <1>2, <1>4, <1>9, <2>1 DEF kernel_standard, Standard20to24, ErrnoTells, InfinitiesAgree, Tells, IdealSign, ResultOrder
<1>10. CASE m \in {1, 4, Largest} /\ k # 0 /\ k < Infinite /\ (s = 1 => k % 2 = 0)
  <2>1. PICK e \in Int : e = RaisedOrder(x, y) /\ (m = Largest /\ t = 0 /\ k = 2 => e = 2048)
    BY <1>1, <1>2, <1>10, Raised
  <2>2. PICK sign \in {0, 1} : sign = IF s = 1 /\ k % 4 = 2 THEN 1 ELSE 0
    OBVIOUS
  <2>3. r = OfOrder(sign, e, m = Largest /\ t = 0 /\ k = 2)
    BY <1>1, <1>2, <1>3, <1>10, <2>1, <2>2 DEF ieee754_pow, PowSpecial
  <2>4. CASE e > 2048 \/ (e = 2048 /\ ~(m = Largest /\ t = 0 /\ k = 2))
    <3>1. r = Inf(sign) /\ type = 21
      BY <1>1, <1>2, <1>3, <1>10, <2>2, <2>3, <2>4 DEF OfOrder, PowError
    <3>2. kernel_standard(version, x, y, 21) = Overflow(version, sign)
      BY <1>1, <1>2, <1>10, <2>2 DEF kernel_standard, Standard20to24
    <3> QED
      BY <1>1, <1>2, <1>4, <1>10, <2>1, <2>2, <2>4, <3>1, <3>2 DEF ErrnoTells, InfinitiesAgree, Tells, IdealSign, ResultOrder
  <2>5. CASE e <= -2150
    <3>1. r = Zero(sign) /\ type = 22
      BY <1>1, <1>2, <1>3, <1>10, <2>2, <2>3, <2>5 DEF OfOrder, PowError
    <3> QED
      BY <1>1, <1>2, <1>4, <1>10, <2>1, <2>2, <2>5, <3>1 DEF kernel_standard, Standard20to24, ErrnoTells, InfinitiesAgree, Tells, IdealSign, ResultOrder
  <2>6. CASE e > -2150 /\ ~(e > 2048 \/ (e = 2048 /\ ~(m = Largest /\ t = 0 /\ k = 2)))
    <3>1. r = <<sign, Some>> /\ type = 0
      BY <1>1, <1>2, <1>3, <1>10, <2>2, <2>3, <2>6 DEF OfOrder, PowError
    <3> QED
      BY <1>1, <1>2, <1>4, <1>10, <2>1, <2>2, <2>6, <3>1 DEF ErrnoTells, InfinitiesAgree, Tells, IdealSign, ResultOrder
  <2> QED  BY <2>1, <2>4, <2>5, <2>6
<1> QED  BY <1>2, <1>5, <1>6, <1>7, <1>8, <1>9, <1>10

-----------------------------------------------------------------------------
(* The theorems.                                                           *)

\* A library of some version has told the truth of the one call it has had.
Told == version \in Versions /\ Tells

\* The invariant holds for all arguments.
THEOREM CallsTold == MathSpec => []Told
<1> HIDE DEF Returns, Gives, Tells, Versions
<1>1. MathInit => Told
  BY DEF MathInit, Told, Tells, ErrnoTells, InfinitiesAgree
<1>2. ASSUME Told, MathNext  PROVE Told'
  <2>1. version \in Versions /\ version' = version
    BY <1>2 DEF Told, MathNext, InverseFunctions, Exponential, Power, Bessel, Gamma, Quiet
  <2>2. CASE InverseFunctions
    BY <2>1, <2>2, AcosTells, AsinTells, AcoshTells, AtanhTells, Atan2Tells, MathAssumption DEF InverseFunctions, Gives, Told
  <2>3. CASE Exponential
    BY <2>1, <2>3, ExpTells, CoshTells, SinhTells, LogTells, Log10Tells, MathAssumption DEF Exponential, Gives, Told
  <2>4. CASE Power
    BY <2>1, <2>4, SqrtTells, HypotTells, FmodTells, RemainderTells, PowTells, ScalbTells, MathAssumption DEF Power, Gives, Told
  <2>5. CASE Bessel
    BY <2>1, <2>5, J0Tells, J1Tells, Y0Tells, Y1Tells, JnTells, YnTells, MathAssumption DEF Bessel, Gives, Told
  <2>6. CASE Gamma
    BY <2>1, <2>6, LgammaTells, LgammaRTells, GammaTells, GammaRTells, MathAssumption DEF Gamma, Gives, Told
  <2> QED  BY <1>2, <2>2, <2>3, <2>4, <2>5, <2>6 DEF MathNext
<1>3. ASSUME Told, UNCHANGED mathVars  PROVE Told'
  BY <1>3 DEF mathVars, Told, Tells, ErrnoTells, InfinitiesAgree, ResultOrder, IdealSign
<1> QED  BY <1>1, <1>2, <1>3, PTL DEF MathSpec

\* In every standard but IEEE's, errno tells what became of a call with finite
\* arguments, and IEEE's version leaves it alone (the w_*.c wrappers and
\* k_standard.c), for every argument of every function.
THEOREM ErrnoTold == MathSpec => []ErrnoTells
<1>1. Told => ErrnoTells
  BY DEF Told, Tells
<1> QED  BY <1>1, CallsTold, PTL

\* A library built for IEEE, XOPEN or POSIX returns infinity, of the right sign,
\* exactly where mathematics has it and NaN exactly where it has no value, but
\* for the three kinds of call to which k_standard.c gives another value, for
\* every argument of every function.
THEOREM InfinitiesTold == MathSpec => []InfinitiesAgree
<1>1. Told => InfinitiesAgree
  BY DEF Told, Tells
<1> QED  BY <1>1, CallsTold, PTL


-----------------------------------------------------------------------------
(* The exchange of two segments (Getopt).                                  *)

\* The segments bottom..middle-1 and middle..top-1 of v in the other order.
Rotated(v, bottom, middle, top) ==
  [k \in DOMAIN v |-> IF k < bottom \/ k >= top THEN v[k]
                      ELSE IF k < bottom + (top - middle) THEN v[k + (middle - bottom)] ELSE v[k - (top - middle)]]

\* the orders of m elements, not all of them permutations
Arrangements(m) == [1..m -> 1..m]

\* what the turns of the loop are in
Turns(m, b, M, t) == [bottom : b..M, top : M..t, v : Arrangements(m)]

\* The loop is done, or bottom and top are no more than far apart.
Nearer(r, M, far) == r.bottom = M \/ r.top = M \/ r.top - r.bottom <= far

\* A swap of the bottom segment with the top of the top one.
LEMMA LowTurn ==
  ASSUME NEW m \in Nat, NEW v \in Arrangements(m), NEW M \in 1..m + 1, NEW B \in 1..M, NEW T \in M..m + 1,
         NEW low \in Nat, low = M - B, low > 0, T - M > low
  PROVE  /\ SwapSegments(v, B, T - low, low) \in Arrangements(m)
         /\ Rotated(SwapSegments(v, B, T - low, low), B, M, T - low) = Rotated(v, B, M, T)
<1>1. PICK w : w = SwapSegments(v, B, T - low, low)
  OBVIOUS
<1>2. w = [k \in 1..m |-> IF k \in B..B + low - 1 THEN v[k - B + (T - low)]
                          ELSE IF k \in T - low..T - low + low - 1 THEN v[k - (T - low) + B] ELSE v[k]]
  BY <1>1 DEF SwapSegments, Arrangements
<1>3. ASSUME NEW k \in 1..m  PROVE w[k] \in 1..m
  <2>1. CASE k \in B..B + low - 1
    <3>1. k - B + (T - low) \in 1..m
      BY <2>1
    <3> QED BY <1>2, <2>1, <3>1 DEF Arrangements
  <2>2. CASE k \notin B..B + low - 1 /\ k \in T - low..T - low + low - 1
    <3>1. k - (T - low) + B \in 1..m
      BY <2>2
    <3> QED BY <1>2, <2>2, <3>1 DEF Arrangements
  <2>3. CASE k \notin B..B + low - 1 /\ k \notin T - low..T - low + low - 1
    BY <1>2, <2>3 DEF Arrangements
  <2> QED BY <2>1, <2>2, <2>3
<1>4. w \in Arrangements(m)
  BY <1>2, <1>3 DEF Arrangements
<1>5. ASSUME NEW k \in 1..m
      PROVE  Rotated(w, B, M, T - low)[k] = Rotated(v, B, M, T)[k]
  <2>0. /\ Rotated(w, B, M, T - low)[k]
           = IF k < B \/ k >= T - low THEN w[k]
             ELSE IF k < B + (T - low - M) THEN w[k + (M - B)] ELSE w[k - (T - low - M)]
        /\ Rotated(v, B, M, T)[k]
           = IF k < B \/ k >= T THEN v[k] ELSE IF k < B + (T - M) THEN v[k + (M - B)] ELSE v[k - (T - M)]
    BY <1>4 DEF Rotated, Arrangements
  <2>1. CASE k < B \/ k >= T
    <3>1. k \notin B..B + low - 1 /\ k \notin T - low..T - low + low - 1 /\ (k < B \/ k >= T - low)
      BY <2>1
    <3>2. w[k] = v[k]
      BY <1>2, <3>1
    <3> QED BY <2>0, <2>1, <3>1, <3>2
  <2>2. CASE k >= T - low /\ k < T
    <3>1. k \notin B..B + low - 1 /\ k \in T - low..T - low + low - 1 /\ k - (T - low) + B = k - (T - M)
      BY <2>2
    <3>2. w[k] = v[k - (T - M)]
      BY <1>2, <3>1
    <3>3. ~(k < B \/ k >= T) /\ ~(k < B + (T - M))
      BY <2>2
    <3> QED BY <2>0, <2>2, <3>2, <3>3
  <2>3. CASE k >= B /\ k < B + (T - low - M)
    <3>1. /\ k + (M - B) \in 1..m /\ k + (M - B) \notin B..B + low - 1
          /\ k + (M - B) \notin T - low..T - low + low - 1
      BY <2>3
    <3>2. w[k + (M - B)] = v[k + (M - B)]
      BY <1>2, <3>1
    <3>3. ~(k < B \/ k >= T - low) /\ ~(k < B \/ k >= T) /\ k < B + (T - M)
      BY <2>3
    <3> QED BY <2>0, <2>3, <3>2, <3>3
  <2>4. CASE k >= B + (T - low - M) /\ k < T - low
    <3>1. /\ k - (T - low - M) \in 1..m /\ k - (T - low - M) \in B..B + low - 1
          /\ k - (T - low - M) - B + (T - low) = k + (M - B)
      BY <2>4
    <3>2. w[k - (T - low - M)] = v[k + (M - B)]
      BY <1>2, <3>1
    <3>3. ~(k < B \/ k >= T - low) /\ ~(k < B + (T - low - M)) /\ ~(k < B \/ k >= T) /\ k < B + (T - M)
      BY <2>4
    <3> QED BY <2>0, <3>2, <3>3
  <2> QED BY <2>1, <2>2, <2>3, <2>4
<1>6. Rotated(w, B, M, T - low) = Rotated(v, B, M, T)
  <2>1. DOMAIN w = 1..m /\ DOMAIN v = 1..m
    BY <1>4 DEF Arrangements
  <2>2. /\ Rotated(w, B, M, T - low) = [k \in 1..m |-> Rotated(w, B, M, T - low)[k]]
        /\ Rotated(v, B, M, T) = [k \in 1..m |-> Rotated(v, B, M, T)[k]]
    BY <2>1 DEF Rotated
  <2> QED BY <1>5, <2>2
<1> QED BY <1>1, <1>4, <1>6

\* A swap of the top segment with the bottom of the bottom one.
LEMMA HighTurn ==
  ASSUME NEW m \in Nat, NEW v \in Arrangements(m), NEW M \in 1..m + 1, NEW B \in 1..M, NEW T \in M..m + 1,
         NEW high \in Nat, high = T - M, high > 0, ~(high > M - B)
  PROVE  /\ SwapSegments(v, B, M, high) \in Arrangements(m)
         /\ Rotated(SwapSegments(v, B, M, high), B + high, M, T) = Rotated(v, B, M, T)
<1>1. PICK w : w = SwapSegments(v, B, M, high)
  OBVIOUS
<1>2. w = [k \in 1..m |-> IF k \in B..B + high - 1 THEN v[k - B + M]
                          ELSE IF k \in M..M + high - 1 THEN v[k - M + B] ELSE v[k]]
  BY <1>1 DEF SwapSegments, Arrangements
<1>3. ASSUME NEW k \in 1..m  PROVE w[k] \in 1..m
  <2>1. CASE k \in B..B + high - 1
    <3>1. k - B + M \in 1..m
      BY <2>1
    <3> QED BY <1>2, <2>1, <3>1 DEF Arrangements
  <2>2. CASE k \notin B..B + high - 1 /\ k \in M..M + high - 1
    <3>1. k - M + B \in 1..m
      BY <2>2
    <3> QED BY <1>2, <2>2, <3>1 DEF Arrangements
  <2>3. CASE k \notin B..B + high - 1 /\ k \notin M..M + high - 1
    BY <1>2, <2>3 DEF Arrangements
  <2> QED BY <2>1, <2>2, <2>3
<1>4. w \in Arrangements(m)
  BY <1>2, <1>3 DEF Arrangements
<1>5. ASSUME NEW k \in 1..m
      PROVE  Rotated(w, B + high, M, T)[k] = Rotated(v, B, M, T)[k]
  <2>0. /\ Rotated(w, B + high, M, T)[k]
           = IF k < B + high \/ k >= T THEN w[k]
             ELSE IF k < B + high + (T - M) THEN w[k + (M - (B + high))] ELSE w[k - (T - M)]
        /\ Rotated(v, B, M, T)[k]
           = IF k < B \/ k >= T THEN v[k] ELSE IF k < B + (T - M) THEN v[k + (M - B)] ELSE v[k - (T - M)]
    BY <1>4 DEF Rotated, Arrangements
  <2>1. CASE k < B \/ k >= T
    <3>1. k \notin B..B + high - 1 /\ k \notin M..M + high - 1 /\ (k < B + high \/ k >= T)
      BY <2>1
    <3>2. w[k] = v[k]
      BY <1>2, <3>1
    <3> QED BY <2>0, <2>1, <3>1, <3>2
  <2>2. CASE k >= B /\ k < B + high
    <3>1. k \in B..B + high - 1 /\ k - B + M = k + (M - B)
      BY <2>2
    <3>2. w[k] = v[k + (M - B)]
      BY <1>2, <3>1
    <3>3. ~(k < B \/ k >= T) /\ k < B + (T - M) /\ k < B + high
      BY <2>2
    <3> QED BY <2>0, <3>2, <3>3
  <2>3. CASE k >= B + high /\ k < B + high + (T - M) /\ k < T
    <3>1. /\ k + (M - (B + high)) \in 1..m /\ k + (M - (B + high)) \notin B..B + high - 1
          /\ k + (M - (B + high)) \in M..M + high - 1 /\ k + (M - (B + high)) - M + B = k - (T - M)
      BY <2>3
    <3>2. w[k + (M - (B + high))] = v[k - (T - M)]
      BY <1>2, <3>1
    <3>3. ~(k < B + high \/ k >= T) /\ ~(k < B \/ k >= T) /\ ~(k < B + (T - M))
      BY <2>3
    <3> QED BY <2>0, <2>3, <3>2, <3>3
  <2>4. CASE k >= B + high + (T - M) /\ k < T
    <3>1. /\ k - (T - M) \in 1..m /\ k - (T - M) \notin B..B + high - 1 /\ k - (T - M) \notin M..M + high - 1
      BY <2>4
    <3>2. w[k - (T - M)] = v[k - (T - M)]
      BY <1>2, <3>1
    <3>3. ~(k < B + high \/ k >= T) /\ ~(k < B + high + (T - M)) /\ ~(k < B \/ k >= T) /\ ~(k < B + (T - M))
      BY <2>4
    <3> QED BY <2>0, <3>2, <3>3
  <2> QED BY <2>1, <2>2, <2>3, <2>4
<1>6. Rotated(w, B + high, M, T) = Rotated(v, B, M, T)
  <2>1. DOMAIN w = 1..m /\ DOMAIN v = 1..m
    BY <1>4 DEF Arrangements
  <2>2. /\ Rotated(w, B + high, M, T) = [k \in 1..m |-> Rotated(w, B + high, M, T)[k]]
        /\ Rotated(v, B, M, T) = [k \in 1..m |-> Rotated(v, B, M, T)[k]]
    BY <2>1 DEF Rotated
  <2> QED BY <1>5, <2>2
<1> QED BY <1>1, <1>4, <1>6

\* No turn is left: the segments are in their order.
LEMMA RotatedIsDone ==
  ASSUME NEW m \in Nat, NEW v \in Arrangements(m), NEW M \in 1..m + 1, NEW B \in 1..M, NEW T \in M..m + 1, B = M \/ T = M
  PROVE  Rotated(v, B, M, T) = v
<1>1. ASSUME NEW k \in 1..m  PROVE Rotated(v, B, M, T)[k] = v[k]
  <2>1. Rotated(v, B, M, T)[k]
        = IF k < B \/ k >= T THEN v[k] ELSE IF k < B + (T - M) THEN v[k + (M - B)] ELSE v[k - (T - M)]
    BY DEF Rotated, Arrangements
  <2>2. CASE k < B \/ k >= T
    BY <2>1, <2>2
  <2>3. CASE k >= B /\ k < T /\ B = M
    <3>1. k < B + (T - M) /\ k + (M - B) = k /\ ~(k < B \/ k >= T)
      BY <2>3
    <3> QED BY <2>1, <3>1
  <2>4. CASE k >= B /\ k < T /\ B # M
    <3>1. ~(k < B + (T - M)) /\ k - (T - M) = k /\ ~(k < B \/ k >= T)
      BY <2>4
    <3> QED BY <2>1, <3>1
  <2> QED BY <2>2, <2>3, <2>4
<1>2. v = [k \in 1..m |-> v[k]] /\ Rotated(v, B, M, T) = [k \in 1..m |-> Rotated(v, B, M, T)[k]]
  BY DEF Rotated, Arrangements
<1> QED BY <1>1, <1>2

\* A turn keeps the order asked for and comes nearer to it.
TurnOf(r, q, m, b, M, t) ==
  /\ q \in Turns(m, b, M, t) /\ Rotated(q.v, q.bottom, M, q.top) = Rotated(r.v, r.bottom, M, r.top)
  /\ q.bottom = M \/ q.top = M \/ q.top - q.bottom < r.top - r.bottom

LEMMA TurnIs ==
  ASSUME NEW m \in Nat, NEW M \in 1..m + 1, NEW b \in 1..M, NEW t \in M..m + 1, NEW r \in Turns(m, b, M, t)
  PROVE  TurnOf(r, SwapShorter(M, r), m, b, M, t)
<1>1. PICK B \in b..M, T \in M..t, v \in Arrangements(m) :
        B = r.bottom /\ T = r.top /\ v = r.v /\ r = [bottom |-> B, top |-> T, v |-> v]
  BY DEF Turns
<1>2. B \in 1..M /\ T \in M..m + 1 /\ M - B \in Nat /\ T - M \in Nat
  OBVIOUS
<1>3. PICK low \in Nat, high \in Nat : low = M - B /\ high = T - M
  BY <1>2
<1>4. SwapShorter(M, r) =
        IF low <= 0 \/ high <= 0 THEN r
        ELSE IF high > low THEN [bottom |-> B, top |-> T - low, v |-> SwapSegments(v, B, T - low, low)]
        ELSE [bottom |-> B + high, top |-> T, v |-> SwapSegments(v, B, M, high)]
  BY <1>1, <1>3 DEF SwapShorter
<1>5. CASE low = 0 \/ high = 0
  <2>1. SwapShorter(M, r) = r /\ (B = M \/ T = M)
    BY <1>2, <1>3, <1>4, <1>5
  <2> QED BY <1>1, <2>1 DEF TurnOf
<1>6. CASE low > 0 /\ high > 0 /\ high > low
  <2>0. /\ SwapSegments(v, B, T - low, low) \in Arrangements(m)
        /\ Rotated(SwapSegments(v, B, T - low, low), B, M, T - low) = Rotated(v, B, M, T)
    <3> T - M > low /\ low = M - B /\ low > 0
      BY <1>3, <1>6
    <3> QED BY <1>2, LowTurn
  <2>1. PICK w \in Arrangements(m) : w = SwapSegments(v, B, T - low, low) /\ Rotated(w, B, M, T - low) = Rotated(v, B, M, T)
    BY <2>0
  <2>2. PICK q : q = [bottom |-> B, top |-> T - low, v |-> w]
    OBVIOUS
  <2>3. q = SwapShorter(M, r)
    BY <1>3, <1>4, <1>6, <2>1, <2>2
  <2>4. q.bottom = B /\ q.top = T - low /\ q.v = w
    BY <2>2
  <2>5. T - low \in M..t /\ T - low - B < T - B
    BY <1>3, <1>6
  <2>6. q \in Turns(m, b, M, t)
    BY <2>2, <2>5 DEF Turns
  <2> QED BY <1>1, <2>1, <2>3, <2>4, <2>5, <2>6 DEF TurnOf
<1>7. CASE low > 0 /\ high > 0 /\ ~(high > low)
  <2>0. /\ SwapSegments(v, B, M, high) \in Arrangements(m)
        /\ Rotated(SwapSegments(v, B, M, high), B + high, M, T) = Rotated(v, B, M, T)
    <3> ~(high > M - B) /\ high = T - M /\ high > 0
      BY <1>3, <1>7
    <3> QED BY <1>2, HighTurn
  <2>1. PICK w \in Arrangements(m) : w = SwapSegments(v, B, M, high) /\ Rotated(w, B + high, M, T) = Rotated(v, B, M, T)
    BY <2>0
  <2>2. PICK q : q = [bottom |-> B + high, top |-> T, v |-> w]
    OBVIOUS
  <2>3. q = SwapShorter(M, r)
    BY <1>3, <1>4, <1>7, <2>1, <2>2
  <2>4. q.bottom = B + high /\ q.top = T /\ q.v = w
    BY <2>2
  <2>5. B + high \in b..M /\ T - (B + high) < T - B
    BY <1>3, <1>7
  <2>6. q \in Turns(m, b, M, t)
    BY <2>2, <2>5 DEF Turns
  <2> QED BY <1>1, <2>1, <2>3, <2>4, <2>5, <2>6 DEF TurnOf
<1> QED BY <1>3, <1>5, <1>6, <1>7

\* exchange changes the places of its two segments and nothing else.
THEOREM ExchangeRotates ==
  ASSUME NEW m \in Nat, NEW M \in 1..m + 1, NEW b \in 1..M, NEW t \in M..m + 1, NEW v \in Arrangements(m)
  PROVE  exchange(v, b, M, t) = Rotated(v, b, M, t)
<1>1. PICK X : X = Turns(m, b, M, t)
  OBVIOUS
<1>2. PICK a : a = [bottom |-> b, top |-> t, v |-> v]
  OBVIOUS
<1>3. a \in X /\ a.bottom = b /\ a.top = t /\ a.v = v
  <2>1. b \in b..M /\ t \in M..t
    OBVIOUS
  <2> QED BY <1>1, <1>2, <2>1 DEF Turns
<1>4. \A r \in X : TurnOf(r, SwapShorter(M, r), m, b, M, t)
  BY <1>1, TurnIs
<1>5. \A r \in X : SwapShorter(M, r) \in X
  BY <1>1, <1>4 DEF TurnOf
<1>6. PICK g : g = [x \in Nat \X X |-> SwapShorter(M, x[2])]
  OBVIOUS
<1>7. g \in [Nat \X X -> X] /\ \A n \in Nat, r \in X : g[<<n, r>>] = SwapShorter(M, r)
  BY <1>5, <1>6
<1>8. PICK f : AllSteps(X, a, g, f)
  BY <1>3, <1>7, Recursion
<1>9. f \in [Nat -> X] /\ f[0] = a /\ \A n \in Nat : f[n + 1] = SwapShorter(M, f[n])
  <2>1. f \in [Nat -> X] /\ f[0] = a
    BY <1>8 DEF AllSteps
  <2>2. ASSUME NEW n \in Nat  PROVE f[n + 1] = SwapShorter(M, f[n])
    <3>1. f[n + 1] = g[<<n + 1, f[n]>>]
      BY <1>8 DEF AllSteps
    <3>2. f[n] \in X
      BY <2>1
    <3> QED BY <1>7, <3>1, <3>2
  <2> QED BY <2>1, <2>2
<1>10. \A n \in Nat : n # 0 => f[n] = SwapShorter(M, f[n - 1])
  <2>1. ASSUME NEW n \in Nat, n # 0  PROVE f[n] = SwapShorter(M, f[n - 1])
    <3>1. n - 1 \in Nat /\ (n - 1) + 1 = n
      BY <2>1
    <3> QED BY <1>9, <3>1
  <2> QED BY <2>1
<1>11. f = [n \in Nat |-> IF n = 0 THEN [bottom |-> b, top |-> t, v |-> v] ELSE SwapShorter(M, f[n - 1])]
  BY <1>2, <1>9, <1>10
<1> DEFINE turns == CHOOSE h : h = [n \in Nat |-> IF n = 0 THEN [bottom |-> b, top |-> t, v |-> v] ELSE SwapShorter(M, h[n - 1])]
<1>12. turns = [n \in Nat |-> IF n = 0 THEN [bottom |-> b, top |-> t, v |-> v] ELSE SwapShorter(M, turns[n - 1])]
  BY <1>11
<1>13. exchange(v, b, M, t) = turns[t - b].v
  BY DEF exchange
<1> HIDE DEF turns
<1>14. turns[0] = a /\ \A n \in Nat : turns[n + 1] = SwapShorter(M, turns[n])
  <2>1. turns[0] = a
    BY <1>2, <1>12
  <2>2. ASSUME NEW n \in Nat  PROVE turns[n + 1] = SwapShorter(M, turns[n])
    <3>1. n + 1 \in Nat /\ n + 1 # 0 /\ (n + 1) - 1 = n
      OBVIOUS
    <3> QED BY <1>12, <3>1
  <2> QED BY <2>1, <2>2
<1> DEFINE S == {n \in Nat : /\ turns[n] \in X
                             /\ Rotated(turns[n].v, turns[n].bottom, M, turns[n].top) = Rotated(v, b, M, t)
                             /\ Nearer(turns[n], M, t - b - n)}
<1>15. 0 \in S
  <2>1. turns[0] \in X /\ turns[0].bottom = b /\ turns[0].top = t /\ turns[0].v = v
    BY <1>3, <1>14
  <2>2. turns[0].top - turns[0].bottom <= t - b - 0
    BY <2>1
  <2> QED BY <2>1, <2>2 DEF Nearer
<1>16. ASSUME NEW n \in S  PROVE n + 1 \in S
  <2>0. PICK r \in X : r = turns[n] /\ Nearer(r, M, t - b - n) /\ Rotated(r.v, r.bottom, M, r.top) = Rotated(v, b, M, t)
    OBVIOUS
  <2>1. PICK q : q = turns[n + 1] /\ q = SwapShorter(M, r)
    <3>1. n \in Nat
      OBVIOUS
    <3> QED BY <1>14, <2>0, <3>1
  <2>2. TurnOf(r, q, m, b, M, t)
    BY <1>4, <2>0, <2>1
  <2>3. q \in X /\ Rotated(q.v, q.bottom, M, q.top) = Rotated(v, b, M, t)
    BY <1>1, <2>0, <2>1, <2>2 DEF TurnOf
  <2>4. Nearer(q, M, t - b - (n + 1))
    <3>0. r.bottom \in b..M /\ r.top \in M..t /\ q.bottom \in b..M /\ q.top \in M..t
      BY <1>1, <2>0, <2>3 DEF Turns
    <3>1. PICK B \in b..M, T \in M..t, C \in b..M, D \in M..t : B = r.bottom /\ T = r.top /\ C = q.bottom /\ D = q.top
      BY <3>0
    <3>2. CASE B = M \/ T = M
      <4>2. M - B <= 0 \/ T - M <= 0
        BY <3>2
      <4>3. q = r
        BY <2>1, <3>1, <4>2 DEF SwapShorter
      <4> QED BY <3>1, <3>2, <4>3 DEF Nearer
    <3>3. CASE ~(B = M \/ T = M)
      <4>1. T - B <= t - b - n
        BY <2>0, <3>1, <3>3 DEF Nearer
      <4>2. C = M \/ D = M \/ D - C < T - B
        BY <2>2, <3>1 DEF TurnOf
      <4>3. C = M \/ D = M \/ D - C <= t - b - (n + 1)
        BY <4>1, <4>2
      <4> QED BY <3>1, <4>3 DEF Nearer
    <3> QED BY <3>2, <3>3
  <2>5. n + 1 \in Nat
    OBVIOUS
  <2>6. /\ turns[n + 1] \in X
        /\ Rotated(turns[n + 1].v, turns[n + 1].bottom, M, turns[n + 1].top) = Rotated(v, b, M, t)
        /\ Nearer(turns[n + 1], M, t - b - (n + 1))
    BY <2>1, <2>3, <2>4
  <2> QED BY <2>5, <2>6
<1>17. S \in SUBSET Nat
  OBVIOUS
<1> HIDE DEF S
<1>18. S = Nat
  BY <1>15, <1>16, <1>17, Induction
<1>19. PICK n \in Nat : n = t - b
  OBVIOUS
<1>20. PICK r \in X : r = turns[n] /\ Rotated(r.v, r.bottom, M, r.top) = Rotated(v, b, M, t) /\ Nearer(r, M, t - b - n)
  <2>1. n \in S
    BY <1>18
  <2> QED BY <2>1 DEF S
<1>21. PICK B \in b..M, T \in M..t, w \in Arrangements(m) : B = r.bottom /\ T = r.top /\ w = r.v
  <2>1. r.bottom \in b..M /\ r.top \in M..t /\ r.v \in Arrangements(m)
    BY <1>1 DEF Turns
  <2> QED BY <2>1
<1>22. B = M \/ T = M
  <2>1. B = M \/ T = M \/ T - B <= t - b - n
    BY <1>20, <1>21 DEF Nearer
  <2> QED BY <1>19, <2>1
<1>23. B \in 1..M /\ T \in M..m + 1
  BY <1>21
<1>24. Rotated(w, B, M, T) = w
  BY <1>22, <1>23, RotatedIsDone
<1> QED BY <1>13, <1>19, <1>20, <1>21, <1>24

-----------------------------------------------------------------------------
(* The scan (Getopt).  T is the command line and ret what the calls        *)
(* returned; a, f, l and o stand for argv, first_nonopt, last_nonopt and   *)
(* th_optind.                                                              *)

\* t is a letter that takes a long option, and is the last of several
EndsInW(t) == Len(t) > 1 /\ Last(t) \in {c \in DOMAIN Letters : Letters[c] = "W;"}

\* the i-th text was an argument, was returned, or names the option after -W
Given(T, ret, i) == \/ \E k \in DOMAIN ret : T[i] \in ret[k].optarg
                    \/ i > 1 /\ EndsInW(T[i - 1])

\* every text has a place, and from o on its own
Placed(T, a, o) ==
  /\ a \in Arrangements(Len(T))
  /\ \A i \in 1..Len(T) : \E k \in 1..Len(T) : a[k] = i
  /\ \A k \in 1..Len(T) : IF k < o THEN a[k] < o ELSE a[k] = k

\* the places of the options and their arguments
Taken(k, f, l, o) == k < f \/ (l <= k /\ k < o)

\* Those scanned are in their order, the non-options f..l-1 apart.
Scan(T, ret, a, f, l, o) ==
  /\ f \in 1..Len(T) + 1 /\ l \in f..Len(T) + 1 /\ o \in l..Len(T) + 1
  /\ Placed(T, a, o)
  /\ \A i, j \in 1..Len(T) : i < j /\ Taken(i, f, l, o) /\ Taken(j, f, l, o) => a[i] < a[j]
  /\ \A i, j \in f..l - 1 : i < j => a[i] < a[j]
  /\ \A k \in f..l - 1 : NONOPTION_P(T[a[k]])
  /\ \A k \in 1..Len(T) : Taken(k, f, l, o) /\ NONOPTION_P(T[a[k]]) => Given(T, ret, a[k])

\* what getopt promises of its permutation, by places
Settled(T, ret, a, p, ord) ==
  /\ p \in 1..Len(T) + 1
  /\ a \in Arrangements(Len(T))
  /\ \A i \in 1..Len(T) : \E k \in 1..Len(T) : a[k] = i
  /\ \A i, j \in 1..Len(T) : i < j /\ (j < p \/ p <= i) => a[i] < a[j]
  /\ \A k \in p..Len(T) : \/ NONOPTION_P(T[a[k]])
                          \/ \E j \in 1..p - 1 : a[j] < a[k] /\ T[a[j]] = <<"-", "-">>
                          \/ ord = "REQUIRE_ORDER" /\ NONOPTION_P(T[a[p]])
  /\ \A k \in 1..p - 1 : NONOPTION_P(T[a[k]]) => Given(T, ret, a[k])

\* what is left of the element at o, if any, is a proper end of it
Remains(T, o, c) ==
  c # <<>> => o \in 1..Len(T) /\ \E m \in 2..Len(T[o]) : c = SubSeq(T[o], m, Len(T[o]))

\* no -W was ambiguous
Clear(ret) == \A k \in DOMAIN ret : ret[k].why # "ambiguous -W"

OptionsInv ==
  /\ text \in Vectors
  /\ \E R : returned \in Seq(R)
  /\ Clear(returned) =>
       IF done THEN Settled(text, returned, argv, th_optind, Ordering)
       ELSE /\ Scan(text, returned, argv, first_nonopt, last_nonopt, th_optind)
            /\ Remains(text, th_optind, nextchar)
            /\ Ordering # "PERMUTE" => first_nonopt = last_nonopt

\* Where the elements come from: h takes the places after the exchange to those before.
Moves(m, f, l, o, p, h) ==
  /\ h \in [1..m -> 1..m]
  /\ \A k \in 1..m : k < p => Taken(h[k], f, l, o)
  /\ \A k \in 1..m : p <= k /\ k < o => h[k] \in f..l - 1
  /\ \A k \in 1..m : IF k < o THEN h[k] < o ELSE h[k] = k
  /\ \A i, j \in 1..m : i < j /\ (j < p \/ p <= i) => h[i] < h[j]
  /\ \A i \in 1..m : \E k \in 1..m : h[k] = i

LEMMA RotatedMoves ==
  ASSUME NEW m \in Nat, NEW f \in 1..m + 1, NEW l \in f..m + 1, NEW o \in l..m + 1
  PROVE  \E h : /\ Moves(m, f, l, o, f + (o - l), h)
                /\ \A v \in Arrangements(m) : \A k \in 1..m : Rotated(v, f, l, o)[k] = v[h[k]]
<1>1. PICK p \in 1..m + 1 : p = f + (o - l)
  OBVIOUS
<1>2. PICK h : h = [k \in 1..m |-> IF k < f \/ k >= o THEN k ELSE IF k < p THEN k + (l - f) ELSE k - (o - l)]
  OBVIOUS
<1>3. ASSUME NEW k \in 1..m
      PROVE  /\ h[k] \in 1..m
             /\ k < p => Taken(h[k], f, l, o)
             /\ p <= k /\ k < o => h[k] \in f..l - 1
             /\ IF k < o THEN h[k] < o ELSE h[k] = k
  <2>0. h[k] = IF k < f \/ k >= o THEN k ELSE IF k < p THEN k + (l - f) ELSE k - (o - l)
    BY <1>2
  <2>1. CASE k < f
    <3>1. h[k] = k
      BY <2>0, <2>1
    <3> QED BY <1>1, <2>1, <3>1 DEF Taken
  <2>2. CASE k >= o
    <3>1. h[k] = k
      BY <2>0, <2>2
    <3> QED BY <1>1, <2>2, <3>1 DEF Taken
  <2>3. CASE k >= f /\ k < p /\ k < o
    <3>1. h[k] = k + (l - f)
      BY <2>0, <2>3
    <3> QED BY <1>1, <2>3, <3>1 DEF Taken
  <2>4. CASE k >= f /\ k >= p /\ k < o
    <3>1. h[k] = k - (o - l)
      BY <2>0, <2>4
    <3> QED BY <1>1, <2>4, <3>1 DEF Taken
  <2> QED BY <2>1, <2>2, <2>3, <2>4
<1>4. ASSUME NEW i \in 1..m, NEW j \in 1..m, i < j, j < p \/ p <= i  PROVE h[i] < h[j]
  <2>1. /\ h[i] = IF i < f \/ i >= o THEN i ELSE IF i < p THEN i + (l - f) ELSE i - (o - l)
        /\ h[j] = IF j < f \/ j >= o THEN j ELSE IF j < p THEN j + (l - f) ELSE j - (o - l)
    BY <1>2
  <2>2. PICK x \in Int, y \in Int : x = h[i] /\ y = h[j]
    BY <1>3
  <2>3. /\ x = IF i < f \/ i >= o THEN i ELSE IF i < p THEN i + (l - f) ELSE i - (o - l)
        /\ y = IF j < f \/ j >= o THEN j ELSE IF j < p THEN j + (l - f) ELSE j - (o - l)
    BY <2>1, <2>2
  <2>4. x < y
    BY <1>1, <1>4, <2>3
  <2> QED BY <2>2, <2>4
<1>5. ASSUME NEW i \in 1..m  PROVE \E k \in 1..m : h[k] = i
  <2>1. CASE i < f \/ i >= o
    <3>1. h[i] = i
      BY <1>2, <2>1
    <3> QED BY <3>1
  <2>2. CASE i >= l /\ i < o
    <3>1. PICK k \in 1..m : k = i - (l - f)
      BY <2>2
    <3>2. k >= f /\ k < o /\ k < p /\ k + (l - f) = i
      BY <1>1, <2>2, <3>1
    <3>3. h[k] = i
      BY <1>2, <3>2
    <3> QED BY <3>3
  <2>3. CASE i >= f /\ i < l
    <3>1. PICK k \in 1..m : k = i + (o - l)
      BY <2>3
    <3>2. k >= f /\ k < o /\ ~(k < p) /\ k - (o - l) = i
      BY <1>1, <2>3, <3>1
    <3>3. h[k] = i
      BY <1>2, <3>2
    <3> QED BY <3>3
  <2> QED BY <2>1, <2>2, <2>3
<1>6. h \in [1..m -> 1..m]
  BY <1>2, <1>3
<1>7. Moves(m, f, l, o, p, h)
  BY <1>3, <1>4, <1>5, <1>6 DEF Moves
<1>8. ASSUME NEW v \in Arrangements(m), NEW k \in 1..m  PROVE Rotated(v, f, l, o)[k] = v[h[k]]
  <2>1. Rotated(v, f, l, o)[k] = IF k < f \/ k >= o THEN v[k]
                                 ELSE IF k < f + (o - l) THEN v[k + (l - f)] ELSE v[k - (o - l)]
    BY DEF Rotated, Arrangements
  <2>2. h[k] = IF k < f \/ k >= o THEN k ELSE IF k < p THEN k + (l - f) ELSE k - (o - l)
    BY <1>2
  <2> QED BY <1>1, <2>1, <2>2
<1> QED BY <1>1, <1>7, <1>8

\* The exchange brings the non-options behind the options scanned after them.
LEMMA ScanRotated ==
  ASSUME NEW T, NEW ret, NEW a, NEW f, NEW l, NEW o, Len(T) \in Nat, Scan(T, ret, a, f, l, o)
  PROVE  Scan(T, ret, Rotated(a, f, l, o), f + (o - l), o, o)
<1>1. PICK m \in Nat : m = Len(T)
  OBVIOUS
<1>2. f \in 1..m + 1 /\ l \in f..m + 1 /\ o \in l..m + 1 /\ a \in Arrangements(m)
  BY <1>1 DEF Scan, Placed
<1>3. \A i \in 1..m : \E k \in 1..m : a[k] = i
  BY <1>1 DEF Scan, Placed
<1>4. \A k \in 1..m : IF k < o THEN a[k] < o ELSE a[k] = k
  BY <1>1 DEF Scan, Placed
<1>5. \A i, j \in 1..m : i < j /\ Taken(i, f, l, o) /\ Taken(j, f, l, o) => a[i] < a[j]
  BY <1>1 DEF Scan
<1>6. \A i, j \in f..l - 1 : i < j => a[i] < a[j]
  BY <1>1 DEF Scan
<1>7. \A k \in f..l - 1 : NONOPTION_P(T[a[k]])
  BY <1>1 DEF Scan
<1>8. \A k \in 1..m : Taken(k, f, l, o) /\ NONOPTION_P(T[a[k]]) => Given(T, ret, a[k])
  BY <1>1 DEF Scan
<1>9. PICK p \in 1..m + 1 : p = f + (o - l)
  BY <1>2
<1>10. PICK h : /\ Moves(m, f, l, o, p, h)
               /\ \A v \in Arrangements(m) : \A k \in 1..m : Rotated(v, f, l, o)[k] = v[h[k]]
  <2>1. PICK h : /\ Moves(m, f, l, o, f + (o - l), h)
                 /\ \A v \in Arrangements(m) : \A k \in 1..m : Rotated(v, f, l, o)[k] = v[h[k]]
    BY <1>2, RotatedMoves, Zenon
  <2> QED BY <1>9, <2>1, Zenon
<1>11. PICK b : b = Rotated(a, f, l, o)
  OBVIOUS
<1>12. \A k \in 1..m : h[k] \in 1..m /\ b[k] = a[h[k]]
  <2>1. \A k \in 1..m : h[k] \in 1..m
    BY <1>10 DEF Moves
  <2>2. \A k \in 1..m : b[k] = a[h[k]]
    BY <1>2, <1>10, <1>11
  <2> QED BY <2>1, <2>2
<1>13. \A k \in 1..m : k < p => Taken(h[k], f, l, o)
  BY <1>10 DEF Moves
<1>14. \A k \in 1..m : p <= k /\ k < o => h[k] \in f..l - 1
  BY <1>10 DEF Moves
<1>15. \A k \in 1..m : IF k < o THEN h[k] < o ELSE h[k] = k
  BY <1>10 DEF Moves
<1>16. \A i, j \in 1..m : i < j /\ (j < p \/ p <= i) => h[i] < h[j]
  BY <1>10 DEF Moves
<1>17. \A i \in 1..m : \E k \in 1..m : h[k] = i
  BY <1>10 DEF Moves
<1>18. b \in Arrangements(m)
  <2>1. b = [k \in 1..m |-> b[k]]
    BY <1>2, <1>11 DEF Rotated, Arrangements
  <2>2. \A k \in 1..m : b[k] \in 1..m
    BY <1>2, <1>12 DEF Arrangements
  <2> QED BY <2>1, <2>2 DEF Arrangements
<1>19. ASSUME NEW i \in 1..m  PROVE \E k \in 1..m : b[k] = i
  <2>1. PICK j \in 1..m : a[j] = i
    BY <1>3
  <2>2. PICK k \in 1..m : h[k] = j
    BY <1>17
  <2>3. b[k] = i
    BY <1>12, <2>1, <2>2
  <2> QED BY <2>3
<1>20. ASSUME NEW k \in 1..m  PROVE IF k < o THEN b[k] < o ELSE b[k] = k
  <2>1. h[k] \in 1..m /\ b[k] = a[h[k]]
    BY <1>12
  <2>2. CASE k < o
    <3>1. h[k] < o
      BY <1>15, <2>2
    <3> QED BY <1>4, <2>1, <2>2, <3>1
  <2>3. CASE ~(k < o)
    <3>1. h[k] = k
      BY <1>15, <2>3
    <3> QED BY <1>4, <2>1, <2>3, <3>1
  <2> QED BY <2>2, <2>3
<1>21. Placed(T, b, o)
  BY <1>1, <1>18, <1>19, <1>20 DEF Placed
<1>22. \A k \in 1..m : Taken(k, p, o, o) <=> k < p
  BY <1>2 DEF Taken
<1>23. ASSUME NEW i \in 1..m, NEW j \in 1..m, i < j, j < p  PROVE b[i] < b[j]
  <2>1. i < p
    BY <1>23
  <2>2. Taken(h[i], f, l, o) /\ Taken(h[j], f, l, o) /\ h[i] < h[j]
    BY <1>13, <1>16, <1>23, <2>1
  <2> QED BY <1>5, <1>12, <2>2
<1>24. \A k \in p..o - 1 : k \in 1..m /\ h[k] \in f..l - 1
  <2>1. \A k \in p..o - 1 : k \in 1..m /\ p <= k /\ k < o
    BY <1>2, <1>9
  <2> QED BY <1>14, <2>1
<1>25. ASSUME NEW i \in p..o - 1, NEW j \in p..o - 1, i < j  PROVE b[i] < b[j]
  <2>1. h[i] \in f..l - 1 /\ h[j] \in f..l - 1 /\ h[i] < h[j]
    <3>1. i \in 1..m /\ j \in 1..m /\ p <= i
      BY <1>24
    <3> QED BY <1>16, <1>24, <1>25, <3>1
  <2>2. b[i] = a[h[i]] /\ b[j] = a[h[j]]
    BY <1>12, <1>24
  <2> QED BY <1>6, <2>1, <2>2
<1>26. ASSUME NEW k \in p..o - 1  PROVE NONOPTION_P(T[b[k]])
  <2>1. h[k] \in f..l - 1 /\ b[k] = a[h[k]]
    BY <1>12, <1>24
  <2> QED BY <1>7, <2>1
<1>27. ASSUME NEW k \in 1..m, k < p, NONOPTION_P(T[b[k]])  PROVE Given(T, ret, b[k])
  <2>1. h[k] \in 1..m /\ b[k] = a[h[k]] /\ Taken(h[k], f, l, o)
    BY <1>12, <1>13, <1>27
  <2> QED BY <1>8, <1>27, <2>1
<1>28. p \in 1..m + 1 /\ o \in p..m + 1 /\ o \in o..m + 1
  BY <1>2, <1>9
<1> QED BY <1>1, <1>9, <1>11, <1>21, <1>22, <1>23, <1>25, <1>26, <1>27, <1>28 DEF Scan

\* No exchange is needed.
LEMMA RotatedIsSame ==
  ASSUME NEW m \in Nat, NEW a \in Arrangements(m), NEW f \in 1..m + 1, NEW l \in f..m + 1, NEW o \in l..m + 1, f = l \/ l = o
  PROVE  Rotated(a, f, l, o) = a
<1>1. f \in 1..l /\ l \in 1..m + 1
  OBVIOUS
<1> QED BY <1>1, RotatedIsDone

\* Non-options are passed over.
LEMMA ScanPasses ==
  ASSUME NEW T, NEW ret, NEW a, NEW f, NEW o, Len(T) \in Nat, Scan(T, ret, a, f, o, o),
         NEW x \in o..Len(T) + 1, \A k \in o..x - 1 : NONOPTION_P(T[k])
  PROVE  Scan(T, ret, a, f, x, x)
<1>1. PICK m \in Nat : m = Len(T)
  OBVIOUS
<1>2. f \in 1..m + 1 /\ o \in f..m + 1 /\ a \in Arrangements(m)
  BY <1>1 DEF Scan, Placed
<1>3. \A i \in 1..m : \E k \in 1..m : a[k] = i
  BY <1>1 DEF Scan, Placed
<1>4. \A k \in 1..m : IF k < o THEN a[k] < o ELSE a[k] = k
  BY <1>1 DEF Scan, Placed
<1>5. \A i, j \in 1..m : i < j /\ Taken(i, f, o, o) /\ Taken(j, f, o, o) => a[i] < a[j]
  BY <1>1 DEF Scan
<1>6. \A i, j \in f..o - 1 : i < j => a[i] < a[j]
  BY <1>1 DEF Scan
<1>7. \A k \in f..o - 1 : NONOPTION_P(T[a[k]])
  BY <1>1 DEF Scan
<1>8. \A k \in 1..m : Taken(k, f, o, o) /\ NONOPTION_P(T[a[k]]) => Given(T, ret, a[k])
  BY <1>1 DEF Scan
<1>9. x \in o..m + 1 /\ x \in f..m + 1 /\ x \in x..m + 1
  BY <1>1, <1>2
<1>10. \A k \in 1..m : a[k] \in 1..m
  BY <1>2 DEF Arrangements
<1>11. ASSUME NEW k \in 1..m  PROVE IF k < x THEN a[k] < x ELSE a[k] = k
  <2>1. PICK c \in 1..m : c = a[k]
    BY <1>10
  <2>2. IF k < o THEN c < o ELSE c = k
    BY <1>4, <2>1
  <2>3. IF k < x THEN c < x ELSE c = k
    BY <1>2, <1>9, <2>2
  <2> QED BY <2>1, <2>3
<1>12. Placed(T, a, x)
  BY <1>1, <1>2, <1>3, <1>11 DEF Placed
<1>13. \A k \in 1..m : Taken(k, f, x, x) <=> Taken(k, f, o, o)
  BY <1>2, <1>9 DEF Taken
<1>14. ASSUME NEW i \in f..x - 1, NEW j \in f..x - 1, i < j  PROVE a[i] < a[j]
  <2>1. i \in 1..m /\ j \in 1..m
    BY <1>2, <1>9
  <2>2. CASE j < o
    <3>1. i \in f..o - 1 /\ j \in f..o - 1
      BY <1>2, <1>14, <2>2
    <3> QED BY <1>6, <1>14, <3>1
  <2>3. CASE ~(j < o)
    <3>1. PICK c \in 1..m : c = a[i]
      BY <1>10, <2>1
    <3>2. a[j] = j
      BY <1>4, <2>1, <2>3
    <3>3. IF i < o THEN c < o ELSE c = i
      BY <1>4, <2>1, <3>1
    <3>4. c < j
      BY <1>2, <1>14, <2>3, <3>3
    <3> QED BY <3>1, <3>2, <3>4
  <2> QED BY <2>2, <2>3
<1>15. ASSUME NEW k \in f..x - 1  PROVE NONOPTION_P(T[a[k]])
  <2>1. CASE k < o
    <3>1. k \in f..o - 1
      BY <1>2, <2>1
    <3> QED BY <1>7, <3>1
  <2>2. CASE ~(k < o)
    <3>1. k \in 1..m /\ k \in o..x - 1
      BY <1>2, <1>9, <2>2
    <3>2. a[k] = k
      BY <1>4, <2>2, <3>1
    <3> QED BY <3>1, <3>2
  <2> QED BY <2>1, <2>2
<1> QED BY <1>1, <1>2, <1>9, <1>12, <1>13, <1>14, <1>15, <1>5, <1>8 DEF Scan

\* An option and its arguments are taken.
LEMMA ScanTakes ==
  ASSUME NEW T, NEW ret, NEW after, NEW a, NEW f, NEW l, NEW o, Len(T) \in Nat, Scan(T, ret, a, f, l, o),
         NEW x \in o..Len(T) + 1, \A k \in o..x - 1 : NONOPTION_P(T[k]) => Given(T, after, k),
         \A k \in 1..Len(T) : Given(T, ret, k) => Given(T, after, k)
  PROVE  Scan(T, after, a, f, l, x)
<1>1. PICK m \in Nat : m = Len(T)
  OBVIOUS
<1>2. f \in 1..m + 1 /\ l \in f..m + 1 /\ o \in l..m + 1 /\ a \in Arrangements(m)
  BY <1>1 DEF Scan, Placed
<1>3. \A i \in 1..m : \E k \in 1..m : a[k] = i
  BY <1>1 DEF Scan, Placed
<1>4. \A k \in 1..m : IF k < o THEN a[k] < o ELSE a[k] = k
  BY <1>1 DEF Scan, Placed
<1>5. \A i, j \in 1..m : i < j /\ Taken(i, f, l, o) /\ Taken(j, f, l, o) => a[i] < a[j]
  BY <1>1 DEF Scan
<1>6. \A i, j \in f..l - 1 : i < j => a[i] < a[j]
  BY <1>1 DEF Scan
<1>7. \A k \in f..l - 1 : NONOPTION_P(T[a[k]])
  BY <1>1 DEF Scan
<1>8. \A k \in 1..m : Taken(k, f, l, o) /\ NONOPTION_P(T[a[k]]) => Given(T, ret, a[k])
  BY <1>1 DEF Scan
<1>9. x \in o..m + 1 /\ x \in l..m + 1
  BY <1>1, <1>2
<1>10. \A k \in 1..m : a[k] \in 1..m
  BY <1>2 DEF Arrangements
<1>11. ASSUME NEW k \in 1..m  PROVE IF k < x THEN a[k] < x ELSE a[k] = k
  <2>1. PICK c \in 1..m : c = a[k]
    BY <1>10
  <2>2. IF k < o THEN c < o ELSE c = k
    BY <1>4, <2>1
  <2>3. IF k < x THEN c < x ELSE c = k
    BY <1>2, <1>9, <2>2
  <2> QED BY <2>1, <2>3
<1>12. Placed(T, a, x)
  BY <1>1, <1>2, <1>3, <1>11 DEF Placed
<1>13. ASSUME NEW k \in 1..m, Taken(k, f, l, x)  PROVE Taken(k, f, l, o) \/ (k \in o..x - 1 /\ a[k] = k)
  <2>1. CASE k < o
    BY <1>2, <1>9, <1>13, <2>1 DEF Taken
  <2>2. CASE ~(k < o)
    <3>1. a[k] = k
      BY <1>4, <2>2
    <3>2. k \in o..x - 1
      BY <1>2, <1>9, <1>13, <2>2 DEF Taken
    <3> QED BY <3>1, <3>2
  <2> QED BY <2>1, <2>2
<1>14. ASSUME NEW i \in 1..m, NEW j \in 1..m, i < j, Taken(i, f, l, x), Taken(j, f, l, x)  PROVE a[i] < a[j]
  <2>1. CASE Taken(j, f, l, o)
    <3>1. Taken(i, f, l, o)
      BY <1>2, <1>14, <2>1 DEF Taken
    <3> QED BY <1>5, <1>14, <2>1, <3>1
  <2>2. CASE j \in o..x - 1 /\ a[j] = j
    <3>1. PICK c \in 1..m : c = a[i]
      BY <1>10
    <3>2. IF i < o THEN c < o ELSE c = i
      BY <1>4, <3>1
    <3>3. c < j
      BY <1>2, <1>14, <2>2, <3>2
    <3> QED BY <2>2, <3>1, <3>3
  <2> QED BY <1>13, <1>14, <2>1, <2>2
<1>15. ASSUME NEW k \in 1..m, Taken(k, f, l, x), NONOPTION_P(T[a[k]])  PROVE Given(T, after, a[k])
  <2>1. CASE Taken(k, f, l, o)
    <3>1. Given(T, ret, a[k])
      BY <1>8, <1>15, <2>1
    <3> QED BY <1>1, <1>10, <3>1
  <2>2. CASE k \in o..x - 1 /\ a[k] = k
    BY <1>15, <2>2
  <2> QED BY <1>13, <1>15, <2>1, <2>2
<1> QED BY <1>1, <1>2, <1>9, <1>12, <1>14, <1>15, <1>6, <1>7 DEF Scan

\* The scan came to the end of the command line.
LEMMA SettledAtEnd ==
  ASSUME NEW T, NEW ret, NEW a, NEW f, NEW l, NEW ord, NEW m \in Nat, m = Len(T),
         Scan(T, ret, a, f, l, m + 1), f = l \/ l = m + 1
  PROVE  Settled(T, ret, a, IF f # l THEN f ELSE m + 1, ord)
<1>1. f \in 1..m + 1 /\ l \in f..m + 1 /\ a \in Arrangements(m)
  BY DEF Scan, Placed
<1>2. \A i \in 1..m : \E k \in 1..m : a[k] = i
  BY DEF Scan, Placed
<1>3. \A i, j \in 1..m : i < j /\ Taken(i, f, l, m + 1) /\ Taken(j, f, l, m + 1) => a[i] < a[j]
  BY DEF Scan
<1>4. \A i, j \in f..l - 1 : i < j => a[i] < a[j]
  BY DEF Scan
<1>5. \A k \in f..l - 1 : NONOPTION_P(T[a[k]])
  BY DEF Scan
<1>6. \A k \in 1..m : Taken(k, f, l, m + 1) /\ NONOPTION_P(T[a[k]]) => Given(T, ret, a[k])
  BY DEF Scan
<1>7. PICK p \in 1..m + 1 : p = IF f # l THEN f ELSE m + 1
  BY <1>1
<1>8. \A k \in 1..m : k < p => Taken(k, f, l, m + 1)
  BY <1>1, <1>7 DEF Taken
<1>9. \A k \in 1..m : p <= k => k \in f..l - 1
  BY <1>1, <1>7
<1>10. ASSUME NEW i \in 1..m, NEW j \in 1..m, i < j, j < p \/ p <= i  PROVE a[i] < a[j]
  <2>1. CASE j < p
    <3>1. i < p
      BY <1>10, <2>1
    <3> QED BY <1>3, <1>8, <1>10, <2>1, <3>1
  <2>2. CASE p <= i
    <3>1. p <= j
      BY <1>10, <2>2
    <3> QED BY <1>4, <1>9, <1>10, <2>2, <3>1
  <2> QED BY <1>10, <2>1, <2>2
<1>11. ASSUME NEW k \in p..m  PROVE NONOPTION_P(T[a[k]])
  <2>1. k \in 1..m /\ p <= k
    OBVIOUS
  <2> QED BY <1>5, <1>9, <2>1
<1>12. ASSUME NEW k \in 1..p - 1, NONOPTION_P(T[a[k]])  PROVE Given(T, ret, a[k])
  <2>1. k \in 1..m /\ k < p
    OBVIOUS
  <2> QED BY <1>6, <1>8, <1>12, <2>1
<1> QED BY <1>1, <1>7, <1>2, <1>10, <1>11, <1>12 DEF Settled

\* The first non-option ended the options.
LEMMA SettledBefore ==
  ASSUME NEW T, NEW ret, NEW a, NEW f, NEW o, NEW m \in Nat, m = Len(T),
         Scan(T, ret, a, f, f, o), o # m + 1, NONOPTION_P(T[o])
  PROVE  Settled(T, ret, a, o, "REQUIRE_ORDER")
<1>1. f \in 1..m + 1 /\ o \in f..m + 1 /\ a \in Arrangements(m)
  BY DEF Scan, Placed
<1>2. \A i \in 1..m : \E k \in 1..m : a[k] = i
  BY DEF Scan, Placed
<1>3. \A k \in 1..m : IF k < o THEN a[k] < o ELSE a[k] = k
  BY DEF Scan, Placed
<1>4. \A i, j \in 1..m : i < j /\ Taken(i, f, f, o) /\ Taken(j, f, f, o) => a[i] < a[j]
  BY DEF Scan
<1>5. \A k \in 1..m : Taken(k, f, f, o) /\ NONOPTION_P(T[a[k]]) => Given(T, ret, a[k])
  BY DEF Scan
<1>6. \A k \in 1..m : k < o => Taken(k, f, f, o)
  BY <1>1 DEF Taken
<1>7. o \in 1..m /\ a[o] = o
  <2>1. o \in 1..m /\ ~(o < o)
    BY <1>1
  <2> QED BY <1>3, <2>1
<1>8. ASSUME NEW i \in 1..m, NEW j \in 1..m, i < j, j < o \/ o <= i  PROVE a[i] < a[j]
  <2>1. CASE j < o
    <3>1. i < o
      BY <1>7, <1>8, <2>1
    <3> QED BY <1>4, <1>6, <1>8, <2>1, <3>1
  <2>2. CASE o <= i
    <3>1. ~(i < o) /\ ~(j < o)
      BY <1>7, <1>8, <2>2
    <3>2. a[i] = i /\ a[j] = j
      BY <1>3, <3>1
    <3> QED BY <1>8, <3>2
  <2> QED BY <1>8, <2>1, <2>2
<1>9. ASSUME NEW k \in 1..o - 1, NONOPTION_P(T[a[k]])  PROVE Given(T, ret, a[k])
  <2>1. k \in 1..m /\ k < o
    BY <1>7
  <2> QED BY <1>5, <1>6, <1>9, <2>1
<1>10. o \in 1..m + 1 /\ NONOPTION_P(T[a[o]])
  BY <1>1, <1>7
<1> QED BY <1>1, <1>2, <1>8, <1>9, <1>10 DEF Settled

\* "--" ended the options.
LEMMA SettledAfter ==
  ASSUME NEW T, NEW ret, NEW a, NEW f, NEW l, NEW o, NEW ord, NEW m \in Nat, m = Len(T),
         Scan(T, ret, a, f, l, o), o # m + 1, T[o] = <<"-", "-">>
  PROVE  Settled(T, ret, Rotated(a, f, l, o + 1), f + (o + 1 - l), ord)
<1>1. ~NONOPTION_P(<<"-", "-">>)
  BY DEF NONOPTION_P
<1>2. o \in 1..m /\ o + 1 \in o..m + 1
  BY DEF Scan
<1>3. \A k \in o..(o + 1) - 1 : k = o
  BY <1>2
<1>4. Scan(T, ret, a, f, l, o + 1)
  <2>1. \A k \in o..(o + 1) - 1 : NONOPTION_P(T[k]) => Given(T, ret, k)
    BY <1>1, <1>3
  <2> QED BY <1>2, <2>1, ScanTakes
<1>5. PICK x \in 2..m + 1 : x = o + 1
  BY <1>2
<1>6. f \in 1..m + 1 /\ l \in f..m + 1 /\ x \in l..m + 1
  BY <1>4, <1>5 DEF Scan
<1>7. PICK b : b = Rotated(a, f, l, x)
  OBVIOUS
<1>8. PICK p \in 1..x : p = f + (x - l)
  BY <1>6
<1>9. Scan(T, ret, b, p, x, x)
  BY <1>4, <1>5, <1>7, <1>8, ScanRotated
<1>10. b \in Arrangements(m)
  BY <1>9 DEF Scan, Placed
<1>11. \A i \in 1..m : \E k \in 1..m : b[k] = i
  BY <1>9 DEF Scan, Placed
<1>12. \A k \in 1..m : IF k < x THEN b[k] < x ELSE b[k] = k
  BY <1>9 DEF Scan, Placed
<1>13. \A i, j \in 1..m : i < j /\ Taken(i, p, x, x) /\ Taken(j, p, x, x) => b[i] < b[j]
  BY <1>9 DEF Scan
<1>14. \A i, j \in p..x - 1 : i < j => b[i] < b[j]
  BY <1>9 DEF Scan
<1>15. \A k \in p..x - 1 : NONOPTION_P(T[b[k]])
  BY <1>9 DEF Scan
<1>16. \A k \in 1..m : Taken(k, p, x, x) /\ NONOPTION_P(T[b[k]]) => Given(T, ret, b[k])
  BY <1>9 DEF Scan
<1>17. \A k \in 1..m : k < p => Taken(k, p, x, x)
  BY DEF Taken
<1>18. \A k \in 1..m : b[k] \in 1..m
  BY <1>10 DEF Arrangements
<1>19. ASSUME NEW i \in 1..m, NEW j \in 1..m, i < j, j < p \/ p <= i  PROVE b[i] < b[j]
  <2>1. CASE j < p
    <3>1. i < p
      BY <1>19, <2>1
    <3> QED BY <1>13, <1>17, <1>19, <2>1, <3>1
  <2>2. CASE p <= i /\ j < x
    <3>1. i \in p..x - 1 /\ j \in p..x - 1
      BY <1>19, <2>2
    <3> QED BY <1>14, <1>19, <3>1
  <2>3. CASE p <= i /\ ~(j < x)
    <3>1. PICK c \in 1..m : c = b[i]
      BY <1>18
    <3>2. b[j] = j
      BY <1>12, <2>3
    <3>3. IF i < x THEN c < x ELSE c = i
      BY <1>12, <3>1
    <3>4. c < j
      BY <1>19, <2>3, <3>3
    <3> QED BY <3>1, <3>2, <3>4
  <2> QED BY <1>19, <2>1, <2>2, <2>3
<1>20. PICK d \in 1..m : b[d] = o
  BY <1>2, <1>11
<1>21. d < p
  <2>1. CASE ~(d < x)
    <3>1. b[d] = d
      BY <1>12, <2>1
    <3> QED BY <1>2, <1>5, <1>20, <2>1, <3>1
  <2>2. CASE d < x /\ ~(d < p)
    <3>1. d \in p..x - 1
      BY <2>2
    <3> QED BY <1>1, <1>15, <1>20, <3>1
  <2> QED BY <2>1, <2>2
<1>22. ASSUME NEW k \in p..m
       PROVE  NONOPTION_P(T[b[k]]) \/ \E j \in 1..p - 1 : b[j] < b[k] /\ T[b[j]] = <<"-", "-">>
  <2>1. CASE k < x
    <3>1. k \in p..x - 1
      BY <2>1
    <3> QED BY <1>15, <3>1
  <2>2. CASE ~(k < x)
    <3>1. b[k] = k
      BY <1>12, <2>2
    <3>2. d \in 1..p - 1 /\ b[d] < b[k]
      BY <1>2, <1>5, <1>20, <1>21, <2>2, <3>1
    <3> QED BY <1>20, <3>2
  <2> QED BY <2>1, <2>2
<1>23. ASSUME NEW k \in 1..p - 1, NONOPTION_P(T[b[k]])  PROVE Given(T, ret, b[k])
  <2>1. k \in 1..m /\ k < p
    OBVIOUS
  <2> QED BY <1>16, <1>17, <1>23, <2>1
<1>24. p \in 1..m + 1
  OBVIOUS
<1>25. Settled(T, ret, b, p, ord)
  BY <1>10, <1>11, <1>19, <1>22, <1>23, <1>24 DEF Settled
<1>26. f + (o + 1 - l) = p
  BY <1>2, <1>5, <1>6, <1>8
<1>27. Rotated(a, f, l, o + 1) = b
  BY <1>5, <1>7
<1> QED BY <1>25, <1>26, <1>27

-----------------------------------------------------------------------------
(* The next element.                                                       *)

\* the state of a scan
Scanning(a, o, f, l, c, w) == [argv |-> a, optind |-> o, first |-> f, last |-> l, nextchar |-> c, W |-> w]

\* first_nonopt, last_nonopt and th_optind are in their order
Bounds(m, a, f, l, o) ==
  m \in Nat /\ a \in Arrangements(m) /\ f \in 1..m + 1 /\ l \in f..m + 1 /\ o \in l..m + 1

LEMMA ExchangedIs ==
  ASSUME NEW m, NEW a, NEW f, NEW l, NEW o, Bounds(m, a, f, l, o), NEW c, NEW w
  PROVE  /\ f # l /\ l # o
            => Exchanged(Scanning(a, o, f, l, c, w)) = Scanning(Rotated(a, f, l, o), o, f + (o - l), o, c, w)
         /\ ~(f # l /\ l # o) => Exchanged(Scanning(a, o, f, l, c, w)) = Scanning(a, o, f, l, c, w)
<1>1. m \in Nat /\ a \in Arrangements(m) /\ f \in 1..m + 1 /\ l \in f..m + 1 /\ o \in l..m + 1
  BY DEF Bounds
<1>2. PICK s : s = Scanning(a, o, f, l, c, w)
  OBVIOUS
<1>3. s.argv = a /\ s.optind = o /\ s.first = f /\ s.last = l
  BY <1>2 DEF Scanning
<1>4. CASE f # l /\ l # o
  <2>1. exchange(a, f, l, o) = Rotated(a, f, l, o)
    <3>1. l \in 1..m + 1 /\ f \in 1..l /\ o \in l..m + 1
      BY <1>1
    <3> QED BY <1>1, <3>1, ExchangeRotates
  <2>2. Exchanged(s) = [s EXCEPT !.argv = exchange(a, f, l, o), !.first = f + o - l, !.last = o]
    BY <1>3, <1>4 DEF Exchanged
  <2>3. f + o - l = f + (o - l)
    BY <1>1
  <2>4. Exchanged(s) = Scanning(Rotated(a, f, l, o), o, f + (o - l), o, c, w)
    BY <1>2, <2>1, <2>2, <2>3 DEF Scanning
  <2> QED BY <1>2, <1>4, <2>4
<1>5. CASE ~(f # l /\ l # o)
  BY <1>2, <1>3, <1>5 DEF Exchanged
<1> QED BY <1>4, <1>5

\* The next option, if there is one.
LEMMA NextOptionIs ==
  ASSUME NEW m \in Nat, Len(argv) = m, NEW v, NEW o \in 1..m + 1
  PROVE  /\ NextOption(v, o) \in o..m + 1
         /\ \A k \in o..NextOption(v, o) - 1 : NONOPTION_P(At(v, k))
<1> DEFINE I == {j \in o..m + 1 : j = m + 1 \/ ~NONOPTION_P(At(v, j))}
           Is(j) == /\ \A k \in o..j - 1 : NONOPTION_P(At(v, k))
                    /\ j = m + 1 \/ ~NONOPTION_P(At(v, j))
<1>1. I \subseteq Nat /\ m + 1 \in I
  OBVIOUS
<1>2. PICK j \in I : \A n \in I : j <= n
  BY <1>1, LeastNatural
<1>3. j \in o..m + 1 /\ (j = m + 1 \/ ~NONOPTION_P(At(v, j)))
  BY <1>2
<1>4. ASSUME NEW k \in o..j - 1  PROVE NONOPTION_P(At(v, k))
  <2>1. k \in o..m + 1 /\ ~(j <= k)
    BY <1>3
  <2> QED BY <1>2, <2>1
<1>5. Is(j)
  BY <1>3, <1>4
<1>6. argc = m + 1
  BY DEF argc
<1>7. NextOption(v, o) = CHOOSE i \in o..m + 1 : Is(i)
  BY <1>6 DEF NextOption
<1> HIDE DEF Is
<1>8. NextOption(v, o) \in o..m + 1 /\ Is(NextOption(v, o))
  BY <1>3, <1>5, <1>7
<1> QED BY <1>8 DEF Is

LEMMA LeastOfTwo == ASSUME NEW x \in Int, NEW y \in Int, x <= y PROVE Min({x, y}) = x
<1>1. Min({x, y}) = CHOOSE i \in {x, y} : \A j \in {x, y} : i <= j
  BY DEF Min
<1>2. x \in {x, y} /\ \A j \in {x, y} : x <= j
  OBVIOUS
<1>3. \A i \in {x, y} : (\A j \in {x, y} : i <= j) => i = x
  OBVIOUS
<1> QED BY <1>1, <1>2, <1>3

\* the state between two options
Between(a, f, l, o) ==
  /\ Scan(text, returned, a, f, l, o)
  /\ Ordering # "PERMUTE" => f = l

\* the command line has m texts
CommandLine(m) == m \in Nat /\ m = Len(text) /\ m = Len(argv)

LEMMA SkippedIs ==
  ASSUME NEW m, CommandLine(m), NEW a, NEW f, NEW l, NEW o, Between(a, f, l, o), NEW c, NEW w
  PROVE  \E b, p, q, x : /\ Skipped(Scanning(a, o, f, l, c, w)) = Scanning(b, x, p, q, c, w)
                         /\ Between(b, p, q, x) /\ (p = q \/ q = x)
<1>1. m \in Nat /\ m = Len(text) /\ m = Len(argv)
  BY DEF CommandLine
<1>2. Scan(text, returned, a, f, l, o)
  BY DEF Between
<1>3. f \in 1..m + 1 /\ l \in f..m + 1 /\ o \in l..m + 1 /\ a \in Arrangements(m)
  BY <1>1, <1>2 DEF Scan, Placed
<1>4. PICK s : s = Scanning(a, o, f, l, c, w)
  OBVIOUS
<1>5. s.optind = o /\ s.first = f /\ s.last = l
  BY <1>4 DEF Scanning
<1>6. CASE Ordering # "PERMUTE"
  <2>1. Skipped(s) = s
    BY <1>6 DEF Skipped
  <2>2. f = l
    BY <1>6 DEF Between
  <2> QED BY <1>4, <2>1, <2>2
<1>7. CASE Ordering = "PERMUTE"
  <2>0. Bounds(m, a, f, l, o)
    BY <1>1, <1>3 DEF Bounds
  <2>1. PICK b : b = Rotated(a, f, l, o)
    OBVIOUS
  <2>2. PICK p \in 1..m + 1 : p = f + (o - l)
    <3>1. f + (o - l) \in 1..m + 1
      BY <1>1, <1>3
    <3> QED BY <3>1
  <2>3. Scan(text, returned, b, p, o, o)
    BY <1>1, <1>2, <2>1, <2>2, ScanRotated
  <2>4. PICK e : e = Exchanged(s)
    OBVIOUS
  <2>5. e = IF f # l /\ l # o THEN Scanning(b, o, p, o, c, w) ELSE Scanning(a, o, f, l, c, w)
    <3>1. CASE f # l /\ l # o
      <4>1. Exchanged(Scanning(a, o, f, l, c, w)) = Scanning(Rotated(a, f, l, o), o, f + (o - l), o, c, w)
        BY <2>0, <3>1, ExchangedIs
      <4> QED BY <1>4, <2>1, <2>2, <2>4, <3>1, <4>1
    <3>2. CASE ~(f # l /\ l # o)
      <4>1. Exchanged(Scanning(a, o, f, l, c, w)) = Scanning(a, o, f, l, c, w)
        BY <2>0, <3>2, ExchangedIs
      <4> QED BY <1>4, <2>4, <3>2, <4>1
    <3> QED BY <3>1, <3>2
  <2>6. e.argv = b /\ (IF f # l \/ l = o THEN e.first ELSE o) = p
    <3>1. CASE f # l /\ l # o
      BY <2>5, <3>1 DEF Scanning
    <3>2. CASE ~(f # l /\ l # o)
      <4>1. b = a
        BY <1>1, <1>3, <2>1, <3>2, RotatedIsSame
      <4>2. e.argv = a /\ e.first = f
        BY <2>5, <3>2 DEF Scanning
      <4>3. (IF f # l \/ l = o THEN f ELSE o) = p
        BY <1>3, <2>2, <3>2
      <4> QED BY <4>1, <4>2, <4>3
    <3> QED BY <3>1, <3>2
  <2>7. PICK x : x = NextOption(b, o)
    OBVIOUS
  <2>8. x \in o..m + 1 /\ \A k \in o..x - 1 : NONOPTION_P(At(b, k))
    <3>1. o \in 1..m + 1
      BY <1>3
    <3> QED BY <1>1, <2>7, <3>1, NextOptionIs
  <2>9. Skipped(s) = Scanning(b, x, p, x, c, w)
    <3>1. Skipped(s) = [e EXCEPT !.first = IF f # l \/ l = o THEN e.first ELSE o, !.optind = NextOption(e.argv, o),
                                 !.last = NextOption(e.argv, o)]
      BY <1>5, <1>7, <2>4 DEF Skipped
    <3>2. Skipped(s) = [e EXCEPT !.first = p, !.optind = x, !.last = x]
      BY <2>6, <2>7, <3>1
    <3>3. CASE f # l /\ l # o
      <4>1. e = Scanning(b, o, p, o, c, w)
        BY <2>5, <3>3
      <4> QED BY <3>2, <4>1 DEF Scanning
    <3>4. CASE ~(f # l /\ l # o)
      <4>1. e = Scanning(a, o, f, l, c, w) /\ b = a
        BY <1>1, <1>3, <2>1, <2>5, <3>4, RotatedIsSame
      <4> QED BY <3>2, <4>1 DEF Scanning
    <3> QED BY <3>3, <3>4
  <2>10. ASSUME NEW k \in o..x - 1  PROVE NONOPTION_P(text[k])
    <3>1. k \in 1..m /\ ~(k < o)
      <4>1. x \in o..m + 1 /\ o \in 1..m + 1
        BY <1>3, <2>8
      <4> QED BY <1>1, <4>1
    <3>2. b[k] = k
      BY <1>1, <2>3, <3>1 DEF Scan, Placed
    <3> QED BY <2>8, <3>2 DEF At
  <2>11. Scan(text, returned, b, p, x, x)
    BY <1>1, <2>3, <2>8, <2>10, ScanPasses
  <2>12. Between(b, p, x, x)
    BY <1>7, <2>11 DEF Between
  <2> QED BY <1>4, <2>9, <2>12
<1> QED BY <1>6, <1>7

\* "--" is passed, and what follows is left.
LEMMA EndedIs ==
  ASSUME NEW m, CommandLine(m), NEW a, NEW f, NEW l, NEW o, Between(a, f, l, o), f = l \/ l = o, NEW c, NEW w
  PROVE  \/ Ended(Scanning(a, o, f, l, c, w)) = Scanning(a, o, f, l, c, w)
         \/ \E b, p : /\ Ended(Scanning(a, o, f, l, c, w)) = Scanning(b, m + 1, p, m + 1, c, w)
                      /\ \A ord : Settled(text, returned, b, p, ord)
<1>1. m \in Nat /\ m = Len(text) /\ m = Len(argv) /\ argc = m + 1
  BY DEF CommandLine, argc
<1>2. Scan(text, returned, a, f, l, o)
  BY DEF Between
<1>3. f \in 1..m + 1 /\ l \in f..m + 1 /\ o \in l..m + 1 /\ a \in Arrangements(m)
  BY <1>1, <1>2 DEF Scan, Placed
<1>4. PICK s : s = Scanning(a, o, f, l, c, w)
  OBVIOUS
<1>5. s.optind = o /\ s.first = f /\ s.last = l /\ s.argv = a
  BY <1>4 DEF Scanning
<1>6. CASE ~(o # m + 1 /\ At(a, o) = <<"-", "-">>)
  <2>1. Ended(s) = s
    BY <1>1, <1>5, <1>6 DEF Ended
  <2> QED BY <1>4, <2>1
<1>7. CASE o # m + 1 /\ At(a, o) = <<"-", "-">>
  <2>1. PICK x \in 1..m + 1 : x = o + 1 /\ x \in l..m + 1
    BY <1>1, <1>3, <1>7
  <2>2. text[o] = <<"-", "-">>
    <3>1. o \in 1..m /\ ~(o < o)
      BY <1>1, <1>3, <1>7
    <3>2. a[o] = o
      BY <1>1, <1>2, <3>1 DEF Scan, Placed
    <3> QED BY <1>7, <3>2 DEF At
  <2>3. PICK b : b = Rotated(a, f, l, x)
    OBVIOUS
  <2>4. PICK p \in 1..m + 1 : p = f + (x - l)
    <3>1. f + (x - l) \in 1..m + 1
      BY <1>1, <1>3, <2>1
    <3> QED BY <3>1
  <2>5. \A ord : Settled(text, returned, b, p, ord)
    <3>1. \A ord : Settled(text, returned, Rotated(a, f, l, o + 1), f + (o + 1 - l), ord)
      BY <1>1, <1>2, <1>7, <2>2, SettledAfter
    <3>2. f + (o + 1 - l) = p
      BY <1>3, <2>1, <2>4
    <3> QED BY <2>1, <2>3, <3>1, <3>2
  <2>6. PICK t : t = Scanning(a, x, f, l, c, w)
    OBVIOUS
  <2>7. [s EXCEPT !.optind = s.optind + 1] = t
    BY <1>4, <1>5, <2>1, <2>6 DEF Scanning
  <2>8. PICK e : e = Exchanged(t)
    OBVIOUS
  <2>9. Ended(s) = [e EXCEPT !.first = IF f = l THEN t.optind ELSE e.first, !.last = m + 1, !.optind = m + 1]
    <3>1. s.optind # argc /\ At(s.argv, s.optind) = <<"-", "-">>
      BY <1>1, <1>5, <1>7
    <3>2. Ended(s) = [Exchanged([s EXCEPT !.optind = s.optind + 1]) EXCEPT
                        !.first = IF s.first = s.last THEN [s EXCEPT !.optind = s.optind + 1].optind
                                  ELSE Exchanged([s EXCEPT !.optind = s.optind + 1]).first,
                        !.last = argc, !.optind = argc]
      BY <3>1, Zenon DEF Ended
    <3>3. Ended(s) = [e EXCEPT !.first = IF s.first = s.last THEN t.optind ELSE e.first, !.last = argc, !.optind = argc]
      BY <2>7, <2>8, <3>2, Zenon
    <3> QED BY <1>1, <1>5, <3>3, Zenon
  <2>10. Bounds(m, a, f, l, x)
    BY <1>1, <1>3, <2>1 DEF Bounds
  <2>11. CASE f # l
    <3>1. f # l /\ l # x
      BY <1>3, <2>1, <2>11
    <3>2. e = Scanning(b, x, p, x, c, w)
      <4>1. Exchanged(Scanning(a, x, f, l, c, w)) = Scanning(Rotated(a, f, l, x), x, f + (x - l), x, c, w)
        BY <2>10, <3>1, ExchangedIs
      <4> QED BY <2>3, <2>4, <2>6, <2>8, <4>1
    <3>3. Ended(s) = Scanning(b, m + 1, p, m + 1, c, w)
      BY <2>9, <2>11, <3>2 DEF Scanning
    <3> QED BY <1>4, <2>5, <3>3
  <2>12. CASE f = l
    <3>1. ~(f # l /\ l # x)
      BY <2>12
    <3>2. e = t
      <4>1. Exchanged(Scanning(a, x, f, l, c, w)) = Scanning(a, x, f, l, c, w)
        BY <2>10, <3>1, ExchangedIs
      <4> QED BY <2>6, <2>8, <4>1
    <3>3. b = a
      BY <1>1, <1>3, <2>1, <2>3, <2>12, RotatedIsSame
    <3>4. t.optind = p
      <4>1. t.optind = x
        BY <2>6 DEF Scanning
      <4>2. x = p
        BY <1>3, <2>4, <2>12
      <4> QED BY <4>1, <4>2
    <3>5. Ended(s) = [t EXCEPT !.first = p, !.last = m + 1, !.optind = m + 1]
      BY <2>9, <2>12, <3>2, <3>4
    <3>6. Ended(s) = Scanning(b, m + 1, p, m + 1, c, w)
      BY <2>6, <3>3, <3>5 DEF Scanning
    <3> QED BY <1>4, <2>5, <3>6
  <2> QED BY <2>11, <2>12
<1> QED BY <1>6, <1>7

\* The next element is found between two options, or they have ended.
LEMMA AdvancedIs ==
  ASSUME NEW m, CommandLine(m), Between(argv, first_nonopt, last_nonopt, th_optind)
  PROVE  \/ \E b, p, q, x : /\ Advanced = Scanning(b, x, p, q, <<>>, FALSE)
                            /\ Between(b, p, q, x) /\ (p = q \/ q = x)
         \/ \E b, p : /\ Advanced = Scanning(b, m + 1, p, m + 1, <<>>, FALSE)
                      /\ \A ord : Settled(text, returned, b, p, ord)
<1>1. m \in Nat /\ m = Len(text)
  BY DEF CommandLine
<1>2. PICK f \in Nat, l \in Nat, o \in Nat : f = first_nonopt /\ l = last_nonopt /\ o = th_optind /\ f <= l /\ l <= o
  BY <1>1 DEF Between, Scan
<1>3. Min({first_nonopt, th_optind}) = f /\ Min({last_nonopt, th_optind}) = l
  <2>1. f <= o
    BY <1>2
  <2> QED BY <1>2, <2>1, LeastOfTwo
<1>4. PICK c, w : c = <<>> /\ w = FALSE
  OBVIOUS
<1>5. Advanced = Ended(Skipped(Scanning(argv, o, f, l, c, w)))
  BY <1>2, <1>3, <1>4 DEF Advanced, Scanning
<1>6. Between(argv, f, l, o)
  BY <1>2
<1>7. PICK b, p, q, x : /\ Skipped(Scanning(argv, o, f, l, c, w)) = Scanning(b, x, p, q, c, w)
                        /\ Between(b, p, q, x) /\ (p = q \/ q = x)
  BY <1>6, SkippedIs
<1>8. Advanced = Ended(Scanning(b, x, p, q, c, w))
  BY <1>5, <1>7
<1>9. \/ Advanced = Scanning(b, x, p, q, c, w)
      \/ \E d, r : /\ Advanced = Scanning(d, m + 1, r, m + 1, c, w)
                   /\ \A ord : Settled(text, returned, d, r, ord)
  <2>1. \/ Ended(Scanning(b, x, p, q, c, w)) = Scanning(b, x, p, q, c, w)
        \/ \E d, r : /\ Ended(Scanning(b, x, p, q, c, w)) = Scanning(d, m + 1, r, m + 1, c, w)
                     /\ \A ord : Settled(text, returned, d, r, ord)
    BY <1>7, EndedIs
  <2> QED BY <1>8, <2>1, Zenon
<1> QED BY <1>4, <1>7, <1>9

-----------------------------------------------------------------------------
(* An option.                                                              *)

\* the elements from o on are where they were on the command line
Own(m, a, o) == o \in 1..m + 1 /\ \A k \in 1..m : o <= k => a[k] = k

\* The scan ended between x and the end, past arguments that are returned, or after -W.
Ends(out, m, a, f, l, c, x) ==
  \E y, w, r : /\ out = [s |-> Scanning(a, y, f, l, c, w), ret |-> r]
               /\ \/ r.why = "ambiguous -W"
                  \/ y \in x..m + 1 /\ \A k \in x..y - 1 : text[k] \in r.optarg

LEMMA OutcomeIs ==
  ASSUME NEW s, NEW c, NEW why, NEW optarg, NEW longind
  PROVE  \E r : Outcome(s, c, why, optarg, longind) = [s |-> s, ret |-> r] /\ r.why = why /\ r.optarg = optarg
<1>1. PICK r : r = [c |-> c, why |-> why, optarg |-> optarg, longind |-> longind]
  OBVIOUS
<1>2. r.why = why /\ r.optarg = optarg
  BY <1>1
<1> QED BY <1>1, <1>2 DEF Outcome

\* The scan stays, or ends behind the argument.
LEMMA OutcomeEnds ==
  ASSUME NEW m, CommandLine(m), NEW a, NEW f, NEW l, NEW c, NEW w, NEW x, Own(m, a, x),
         NEW ch, NEW why, NEW arg, NEW longind
  PROVE  /\ Ends(Outcome(Scanning(a, x, f, l, c, w), ch, why, arg, longind), m, a, f, l, c, x)
         /\ x < argc /\ arg = {At(a, x)}
            => Ends(Outcome(Scanning(a, x + 1, f, l, c, w), ch, why, arg, longind), m, a, f, l, c, x)
<1>1. m \in Nat /\ argc = m + 1 /\ x \in 1..m + 1
  BY DEF CommandLine, argc, Own
<1>2. Ends(Outcome(Scanning(a, x, f, l, c, w), ch, why, arg, longind), m, a, f, l, c, x)
  <2>1. PICK r : Outcome(Scanning(a, x, f, l, c, w), ch, why, arg, longind) = [s |-> Scanning(a, x, f, l, c, w), ret |-> r]
    BY OutcomeIs
  <2>2. x \in x..m + 1 /\ \A k \in x..x - 1 : text[k] \in r.optarg
    BY <1>1
  <2> QED BY <2>1, <2>2 DEF Ends
<1>3. ASSUME x < argc, arg = {At(a, x)}
      PROVE  Ends(Outcome(Scanning(a, x + 1, f, l, c, w), ch, why, arg, longind), m, a, f, l, c, x)
  <2>1. PICK r : /\ Outcome(Scanning(a, x + 1, f, l, c, w), ch, why, arg, longind)
                    = [s |-> Scanning(a, x + 1, f, l, c, w), ret |-> r]
                 /\ r.optarg = arg
    BY OutcomeIs
  <2>2. x \in 1..m /\ x <= x
    BY <1>1, <1>3
  <2>3. a[x] = x
    BY <2>2 DEF Own
  <2>4. text[x] \in r.optarg
    BY <1>3, <2>1, <2>3 DEF At
  <2>5. \A k \in x..(x + 1) - 1 : k = x
    BY <1>1
  <2>6. x + 1 \in x..m + 1 /\ \A k \in x..(x + 1) - 1 : text[k] \in r.optarg
    BY <1>1, <2>2, <2>4, <2>5
  <2> QED BY <2>1, <2>6 DEF Ends
<1> QED BY <1>2, <1>3

LEMMA PastIs ==
  ASSUME NEW a, NEW o, NEW f, NEW l, NEW c, NEW w
  PROVE  Past(Scanning(a, o, f, l, c, w)) = Scanning(a, o + 1, f, l, c, w)
<1>1. PICK s : s = Scanning(a, o, f, l, c, w)
  OBVIOUS
<1>2. [s EXCEPT !.optind = @ + 1] = Scanning(a, o + 1, f, l, c, w)
  BY <1>1 DEF Scanning
<1> QED BY <1>1, <1>2 DEF Past

LEMMA EmptiedIs ==
  ASSUME NEW a, NEW o, NEW f, NEW l, NEW c, NEW w, NEW e
  PROVE  [Scanning(a, o, f, l, c, w) EXCEPT !.nextchar = e] = Scanning(a, o, f, l, e, w)
<1>1. PICK s : s = Scanning(a, o, f, l, c, w)
  OBVIOUS
<1>2. [s EXCEPT !.nextchar = e] = Scanning(a, o, f, l, e, w)
  BY <1>1 DEF Scanning
<1> QED BY <1>1, <1>2

LEMMA TakeLongEnds ==
  ASSUME NEW m, CommandLine(m), NEW a, NEW f, NEW l, NEW c, NEW w, NEW x, Own(m, a, x), NEW t
  PROVE  Ends(TakeLong(Scanning(a, x, f, l, c, w), t), m, a, f, l, c, x)
<1>1. PICK s : s = Scanning(a, x, f, l, c, w)
  OBVIOUS
<1>2. s.optind = x /\ s.argv = a /\ Past(s) = Scanning(a, x + 1, f, l, c, w)
  BY <1>1, PastIs DEF Scanning
<1>3. \/ \E ch, why, arg, longind : TakeLong(s, t) = Outcome(s, ch, why, arg, longind)
      \/ x < argc /\ \E ch, longind : TakeLong(s, t) = Outcome(Past(s), ch, "option", {At(a, x)}, longind)
  <2>1. PICK e : e = NameEnd(t)
    OBVIOUS
  <2>2. PICK option : option = LongOptions[Found(SubSeq(t, 1, e - 1))]
    OBVIOUS
  <2>3. CASE e <= Len(t) /\ option.has_arg # "none"
    <3>1. TakeLong(s, t) = Outcome(s, IF option.flag THEN "0" ELSE option.val, "option", {Rest(t, e + 1)},
                                   {Found(SubSeq(t, 1, e - 1))})
      BY <2>1, <2>2, <2>3 DEF TakeLong
    <3> QED BY <3>1
  <2>4. CASE e <= Len(t) /\ option.has_arg = "none"
    <3>1. TakeLong(s, t) = Outcome(s, "?", "allows no argument", IF s.W THEN {t} ELSE None, {})
      BY <2>1, <2>2, <2>4 DEF TakeLong
    <3> QED BY <3>1
  <2>5. CASE ~(e <= Len(t)) /\ option.has_arg # "required"
    <3>1. TakeLong(s, t) = Outcome(s, IF option.flag THEN "0" ELSE option.val, "option", IF s.W THEN {t} ELSE None,
                                   {Found(SubSeq(t, 1, e - 1))})
      BY <2>1, <2>2, <2>5 DEF TakeLong
    <3> QED BY <3>1
  <2>6. CASE ~(e <= Len(t)) /\ option.has_arg = "required" /\ x < argc
    <3>1. TakeLong(s, t) = Outcome(Past(s), IF option.flag THEN "0" ELSE option.val, "option",
                                   {At(a, x)}, {Found(SubSeq(t, 1, e - 1))})
      BY <1>2, <2>1, <2>2, <2>6 DEF TakeLong
    <3> QED BY <2>6, <3>1
  <2>7. CASE ~(e <= Len(t)) /\ option.has_arg = "required" /\ ~(x < argc)
    <3>1. TakeLong(s, t) = Outcome(s, Missing, "requires an argument", IF s.W THEN {t} ELSE None, {})
      BY <1>2, <2>1, <2>2, <2>7 DEF TakeLong
    <3> QED BY <3>1
  <2> QED BY <2>3, <2>4, <2>5, <2>6, <2>7
<1>4. CASE \E ch, why, arg, longind : TakeLong(s, t) = Outcome(s, ch, why, arg, longind)
  <2>1. PICK ch, why, arg, longind : TakeLong(s, t) = Outcome(s, ch, why, arg, longind)
    BY <1>4
  <2>2. Ends(Outcome(Scanning(a, x, f, l, c, w), ch, why, arg, longind), m, a, f, l, c, x)
    BY OutcomeEnds
  <2> QED BY <1>1, <2>1, <2>2
<1>5. CASE x < argc /\ \E ch, longind : TakeLong(s, t)
                                        = Outcome(Past(s), ch, "option", {At(a, x)}, longind)
  <2>1. PICK ch, longind : TakeLong(s, t) = Outcome(Scanning(a, x + 1, f, l, c, w), ch, "option", {At(a, x)}, longind)
    BY <1>2, <1>5
  <2>2. Ends(Outcome(Scanning(a, x + 1, f, l, c, w), ch, "option", {At(a, x)}, longind), m, a, f, l, c, x)
    BY <1>5, OutcomeEnds
  <2> QED BY <1>1, <2>1, <2>2
<1> QED BY <1>3, <1>4, <1>5

LEMMA WOptionEnds ==
  ASSUME NEW m, CommandLine(m), NEW a, NEW f, NEW l, NEW c, NEW w, NEW x, Own(m, a, x), NEW t
  PROVE  Ends(WOption(Scanning(a, x, f, l, c, w), t), m, a, f, l, c, x)
<1>1. PICK s, name : s = Scanning(a, x, f, l, c, w) /\ name = SubSeq(t, 1, NameEnd(t) - 1)
  OBVIOUS
<1>2. CASE Ambiguous(name, TRUE)
  <2>0. PICK none, why : none = {} /\ why = "ambiguous -W"
    OBVIOUS
  <2>1. WOption(s, t) = Outcome(Past(s), "?", why, {t}, none)
    BY <1>1, <1>2, <2>0 DEF WOption
  <2>2. Past(s) = Scanning(a, x + 1, f, l, c, w)
    BY <1>1, PastIs
  <2>3. PICK r : WOption(s, t) = [s |-> Scanning(a, x + 1, f, l, c, w), ret |-> r] /\ r.why = why
    BY <2>1, <2>2, OutcomeIs
  <2> QED BY <1>1, <2>0, <2>3 DEF Ends
<1>3. CASE ~Ambiguous(name, TRUE) /\ Matches(name) # {}
  <2>1. WOption(s, t) = TakeLong([s EXCEPT !.W = TRUE], t)
    BY <1>1, <1>3 DEF WOption
  <2>2. PICK v : v = TRUE /\ [s EXCEPT !.W = TRUE] = Scanning(a, x, f, l, c, v)
    BY <1>1 DEF Scanning
  <2>3. Ends(TakeLong(Scanning(a, x, f, l, c, v), t), m, a, f, l, c, x)
    BY TakeLongEnds
  <2> QED BY <1>1, <2>1, <2>2, <2>3
<1>4. CASE ~Ambiguous(name, TRUE) /\ Matches(name) = {}
  <2>1. WOption(s, t) = Outcome(s, "W", "option", {t}, {})
    BY <1>1, <1>4 DEF WOption
  <2>2. Ends(Outcome(Scanning(a, x, f, l, c, w), "W", "option", {t}, {}), m, a, f, l, c, x)
    BY OutcomeEnds
  <2> QED BY <1>1, <2>1, <2>2
<1> QED BY <1>2, <1>3, <1>4

\* The scan ended behind the element at o and the arguments after it, or within it.
Passes(out, m, a, f, l, o) ==
  \E y, c, w, r : /\ out = [s |-> Scanning(a, y, f, l, c, w), ret |-> r]
                  /\ \/ r.why = "ambiguous -W"
                     \/ /\ y \in o..m + 1 /\ Remains(text, y, c)
                        /\ \A k \in o + 1..y - 1 : text[k] \in r.optarg \/ EndsInW(text[k - 1])

LEMMA EndsPasses ==
  ASSUME NEW m, NEW a, NEW f, NEW l, NEW o \in 1..m, NEW out, CommandLine(m),
         \/ Ends(out, m, a, f, l, <<>>, o + 1)
         \/ Ends(out, m, a, f, l, <<>>, o + 2) /\ EndsInW(text[o])
  PROVE  Passes(out, m, a, f, l, o)
<1>1. m \in Nat
  BY DEF CommandLine
<1>2. PICK x \in Nat : (x = o + 1 \/ x = o + 2) /\ Ends(out, m, a, f, l, <<>>, x) /\ (x = o + 2 => EndsInW(text[o]))
  <2>1. o + 1 # o + 2 /\ o + 1 \in Nat /\ o + 2 \in Nat
    BY <1>1
  <2> QED BY <2>1
<1>3. PICK y, w, r : /\ out = [s |-> Scanning(a, y, f, l, <<>>, w), ret |-> r]
                     /\ \/ r.why = "ambiguous -W"
                        \/ y \in x..m + 1 /\ \A k \in x..y - 1 : text[k] \in r.optarg
  BY <1>2 DEF Ends
<1>4. CASE r.why = "ambiguous -W"
  BY <1>3, <1>4 DEF Passes
<1>5. CASE y \in x..m + 1 /\ \A k \in x..y - 1 : text[k] \in r.optarg
  <2>1. y \in o..m + 1
    BY <1>1, <1>2, <1>5
  <2>2. Remains(text, y, <<>>)
    BY DEF Remains
  <2>3. ASSUME NEW k \in o + 1..y - 1  PROVE text[k] \in r.optarg \/ EndsInW(text[k - 1])
    <3>1. CASE x <= k
      <4>1. k \in x..y - 1
        BY <1>1, <1>2, <2>1, <3>1
      <4> QED BY <1>5, <4>1
    <3>2. CASE ~(x <= k)
      <4>0. k \in Nat /\ o + 1 <= k /\ k < x
        BY <1>1, <1>2, <2>1, <3>2
      <4>1. x = o + 2 /\ k - 1 = o
        BY <1>2, <4>0
      <4> QED BY <1>2, <4>1
    <3> QED BY <3>1, <3>2
  <2> QED BY <1>3, <2>1, <2>2, <2>3 DEF Passes
<1> QED BY <1>3, <1>4, <1>5

LEMMA LongOptionPasses ==
  ASSUME NEW m, CommandLine(m), NEW a, NEW f, NEW l, NEW c, NEW w, NEW o \in 1..m, Own(m, a, o + 1), NEW t
  PROVE  Passes(LongOption(Scanning(a, o, f, l, c, w), t), m, a, f, l, o)
<1>1. PICK s, name, empty, past :
        /\ s = Scanning(a, o, f, l, c, w) /\ name = SubSeq(t, 1, NameEnd(t) - 1)
        /\ empty = <<>> /\ past = Scanning(a, o + 1, f, l, empty, w)
  OBVIOUS
<1>2. [Past(s) EXCEPT !.nextchar = empty] = past
  BY <1>1, PastIs, EmptiedIs
<1>3. Ends(LongOption(s, t), m, a, f, l, empty, o + 1)
  <2>1. CASE Ambiguous(name, FALSE) \/ Matches(name) = {}
    <3>1. \E why : LongOption(s, t) = Outcome(past, "?", why, None, {})
      <4>1. CASE Ambiguous(name, FALSE)
        <5>1. LongOption(s, t) = Outcome(past, "?", "ambiguous", None, {})
          BY <1>1, <1>2, <4>1 DEF LongOption
        <5> QED BY <5>1
      <4>2. CASE ~Ambiguous(name, FALSE) /\ Matches(name) = {}
        <5>1. LongOption(s, t) = Outcome(past, "?", "unrecognized", None, {})
          BY <1>1, <1>2, <4>2 DEF LongOption
        <5> QED BY <5>1
      <4> QED BY <2>1, <4>1, <4>2
    <3>2. PICK why : LongOption(s, t) = Outcome(past, "?", why, None, {})
      BY <3>1
    <3>3. Ends(Outcome(Scanning(a, o + 1, f, l, empty, w), "?", why, None, {}), m, a, f, l, empty, o + 1)
      BY OutcomeEnds
    <3> QED BY <1>1, <3>2, <3>3
  <2>2. CASE ~Ambiguous(name, FALSE) /\ Matches(name) # {}
    <3>1. LongOption(s, t) = TakeLong(past, t)
      BY <1>1, <1>2, <2>2 DEF LongOption
    <3>2. Ends(TakeLong(Scanning(a, o + 1, f, l, empty, w), t), m, a, f, l, empty, o + 1)
      BY TakeLongEnds
    <3> QED BY <1>1, <3>1, <3>2
  <2> QED BY <2>1, <2>2
<1> QED BY <1>1, <1>3, EndsPasses

\* An argument that is the name of no option, and whether it is passed.
LEMMA ArgumentEnds ==
  ASSUME NEW m, CommandLine(m), NEW a, NEW f, NEW l, NEW c, NEW w, NEW x, Own(m, a, x), NEW ch, NEW arg
  PROVE  Ends(Argument(Scanning(a, x, f, l, c, w), ch, arg), m, a, f, l, c, x)
<1>1. CASE Takes(ch) = "W;"
  <2>1. Argument(Scanning(a, x, f, l, c, w), ch, arg) = WOption(Scanning(a, x, f, l, c, w), arg)
    BY <1>1 DEF Argument
  <2> QED BY <2>1, WOptionEnds
<1>2. CASE Takes(ch) # "W;"
  <2>1. Argument(Scanning(a, x, f, l, c, w), ch, arg) = Outcome(Scanning(a, x, f, l, c, w), ch, "option", {arg}, {})
    BY <1>2 DEF Argument
  <2>2. Ends(Outcome(Scanning(a, x, f, l, c, w), ch, "option", {arg}, {}), m, a, f, l, c, x)
    BY OutcomeEnds
  <2> QED BY <2>1, <2>2
<1> QED BY <1>1, <1>2

\* the places from x on are those from o on
LEMMA OwnAfter ==
  ASSUME NEW m \in Nat, NEW a, NEW o, Own(m, a, o), NEW x \in o..m + 1
  PROVE  Own(m, a, x)
<1>1. o \in 1..m + 1 /\ x \in 1..m + 1
  BY DEF Own
<1>2. ASSUME NEW k \in 1..m, x <= k  PROVE a[k] = k
  <2>1. o <= k
    BY <1>1, <1>2
  <2> QED BY <2>1 DEF Own
<1> QED BY <1>1, <1>2 DEF Own

\* the letter i of t, and what is after it
LEMMA LetterIs ==
  ASSUME NEW S, NEW t \in Seq(S), NEW i \in 2..Len(t), NEW n, n = SubSeq(t, i, Len(t))
  PROVE  /\ Head(n) = t[i]
         /\ Tail(n) = SubSeq(t, i + 1, Len(t))
         /\ Tail(n) = <<>> <=> i = Len(t)
<1>1. Len(t) \in Nat /\ i \in Nat /\ i >= 2 /\ i <= Len(t)
  OBVIOUS
<1>2. \A k \in 1..Len(t) : t[k] \in S
  OBVIOUS
<1>3. n \in Seq(S) /\ Len(n) = Len(t) - i + 1 /\ \A k \in 1..Len(n) : n[k] = t[i + k - 1]
  <2>1. \A k \in i..Len(t) : t[k] \in S
    BY <1>1, <1>2
  <2>2. /\ n \in Seq(S)
        /\ Len(n) = (IF i <= Len(t) THEN Len(t) - i + 1 ELSE 0)
        /\ \A k \in 1..Len(t) - i + 1 : n[k] = t[i + k - 1]
    BY <1>1, <2>1, SubSeqProperties
  <2>3. Len(n) = Len(t) - i + 1
    BY <1>1, <2>2
  <2> QED BY <2>2, <2>3
<1>4. n # <<>> /\ Len(n) >= 1
  <2>1. PICK j : j = Len(n)
    OBVIOUS
  <2>2. j = Len(t) - i + 1
    BY <1>3, <2>1
  <2>3. j >= 1
    BY <1>1, <2>2
  <2>4. n # <<>>
    <3>1. j # 0
      BY <2>3
    <3>2. Len(<<>>) = 0
      BY EmptySeq
    <3> QED BY <2>1, <3>1, <3>2, Zenon
  <2> QED BY <2>1, <2>3, <2>4
<1>5. Head(n) = n[1] /\ n[1] = t[i]
  BY <1>1, <1>3, <1>4
<1>6. PICK u : u = SubSeq(t, i + 1, Len(t))
  OBVIOUS
<1>7. u \in Seq(S) /\ Len(u) = Len(t) - i /\ \A k \in 1..Len(u) : u[k] = t[i + k]
  <2>1. i + 1 \in 1..Len(t) + 1
    BY <1>1
  <2>2. /\ u \in Seq(S)
        /\ Len(u) = (IF i + 1 <= Len(t) THEN Len(t) - (i + 1) + 1 ELSE 0)
        /\ \A k \in 1..Len(t) - (i + 1) + 1 : u[k] = t[(i + 1) + k - 1]
    <3>1. \A k \in i + 1..Len(t) : t[k] \in S
      BY <1>1, <1>2
    <3> QED BY <1>1, <1>6, <2>1, <3>1, SubSeqProperties
  <2>3. Len(u) = Len(t) - i
    BY <1>1, <2>2
  <2>4. ASSUME NEW k \in 1..Len(u)  PROVE u[k] = t[i + k]
    <3>1. k \in 1..Len(t) - (i + 1) + 1 /\ (i + 1) + k - 1 = i + k
      BY <1>1, <2>3
    <3> QED BY <2>2, <3>1
  <2> QED BY <2>2, <2>3, <2>4
<1>8. PICK d : d = Tail(n)
  OBVIOUS
<1>9. d \in Seq(S) /\ Len(d) = Len(n) - 1 /\ \A k \in 1..Len(d) : d[k] = n[k + 1]
  BY <1>3, <1>4, <1>8, HeadTailProperties
<1>10. Len(d) = Len(u)
  BY <1>1, <1>3, <1>7, <1>9
<1>11. ASSUME NEW k \in 1..Len(d)  PROVE d[k] = u[k]
  <2>1. k \in 1..Len(u) /\ k + 1 \in 1..Len(n) /\ i + (k + 1) - 1 = i + k
    BY <1>1, <1>3, <1>7, <1>9
  <2>2. u[k] = t[i + k]
    BY <1>7, <2>1
  <2>3. d[k] = n[k + 1]
    BY <1>9
  <2>4. n[k + 1] = t[i + (k + 1) - 1]
    BY <1>3, <2>1
  <2> QED BY <2>1, <2>2, <2>3, <2>4
<1>12. d = u
  BY <1>7, <1>9, <1>10, <1>11, SeqEqual
<1>13. d = <<>> <=> i = Len(t)
  <2>1. d = <<>> <=> Len(d) = 0
    BY <1>9
  <2> QED BY <1>1, <1>7, <1>10, <2>1
<1> QED BY <1>5, <1>6, <1>8, <1>12, <1>13

\* a letter that takes a long option
LEMMA LetterOfW ==
  ASSUME NEW c, c \in DOMAIN Letters \cup Prefix, Takes(c) = "W;"
  PROVE  c \in {ch \in DOMAIN Letters : Letters[ch] = "W;"}
<1>1. c \notin Prefix
  BY DEF Takes
<1>2. c \in DOMAIN Letters /\ Letters[c] = "W;"
  BY <1>1 DEF Takes
<1> QED BY <1>2

\* where the scan is when rest is left of the element at o
Behind(x, o, rest) == x = IF rest = <<>> THEN o + 1 ELSE o

\* a last letter that takes a long option
Names(ch, o, rest) == rest = <<>> /\ Takes(ch) = "W;" => EndsInW(text[o])

\* A letter's argument is what is left of its element, or the next one.
LEMMA WithArgumentPasses ==
  ASSUME NEW m, CommandLine(m), NEW a, NEW f, NEW l, NEW w, NEW o \in 1..m, Own(m, a, o + 1),
         NEW ch, NEW rest, NEW x, Behind(x, o, rest), Names(ch, o, rest)
  PROVE  Passes(WithArgument(Scanning(a, x, f, l, rest, w), ch), m, a, f, l, o)
<1>1. m \in Nat /\ argc = m + 1 /\ o + 1 \in 1..m + 1
  BY DEF CommandLine, argc
<1>2. PICK s, empty : s = Scanning(a, x, f, l, rest, w) /\ empty = <<>>
  OBVIOUS
<1>3. s.nextchar = rest /\ s.optind = x /\ s.argv = a
  BY <1>2 DEF Scanning
<1>4. CASE rest # empty
  <2>1. x = o
    BY <1>2, <1>4 DEF Behind
  <2>2. [Past(s) EXCEPT !.nextchar = empty] = Scanning(a, o + 1, f, l, empty, w)
    BY <1>2, <2>1, PastIs, EmptiedIs
  <2>3. WithArgument(s, ch) = Argument([Past(s) EXCEPT !.nextchar = empty], ch, rest)
    BY <1>2, <1>3, <1>4 DEF WithArgument
  <2>4. Ends(Argument(Scanning(a, o + 1, f, l, empty, w), ch, rest), m, a, f, l, empty, o + 1)
    BY ArgumentEnds
  <2> QED BY <1>2, <2>2, <2>3, <2>4, EndsPasses
<1>5. CASE rest = empty /\ o + 1 = argc
  <2>1. x = o + 1
    BY <1>2, <1>5 DEF Behind
  <2>2. WithArgument(s, ch) = Outcome(s, Missing, "requires an argument", None, {})
    BY <1>2, <1>3, <1>5, <2>1 DEF WithArgument
  <2>3. Ends(Outcome(Scanning(a, o + 1, f, l, empty, w), Missing, "requires an argument", None, {}), m, a, f, l, empty, o + 1)
    BY OutcomeEnds
  <2> QED BY <1>2, <1>5, <2>1, <2>2, <2>3, EndsPasses
<1>6. CASE rest = empty /\ o + 1 # argc
  <2>1. x = o + 1 /\ o + 1 \in 1..m /\ o + 1 < argc
    <3>1. x = o + 1
      BY <1>2, <1>6 DEF Behind
    <3>2. o + 1 \in 1..m /\ o + 1 < argc
      BY <1>1, <1>6
    <3> QED BY <3>1, <3>2
  <2>2. Past(s) = Scanning(a, (o + 1) + 1, f, l, empty, w)
    BY <1>2, <1>6, <2>1, PastIs
  <2>3. (o + 1) + 1 = o + 2
    OBVIOUS
  <2>4. PICK p : p = o + 1
    OBVIOUS
  <2>5. WithArgument(s, ch) = Argument(Past(s), ch, At(a, p))
    BY <1>2, <1>3, <1>6, <2>1, <2>4 DEF WithArgument
  <2>6. Own(m, a, o + 2)
    <3>1. Own(m, a, o + 1) /\ o + 2 \in (o + 1)..m + 1
      BY <1>1, <2>1
    <3> QED BY <1>1, <3>1, OwnAfter
  <2>7. CASE Takes(ch) = "W;"
    <3>1. Ends(Argument(Scanning(a, o + 2, f, l, empty, w), ch, At(a, p)), m, a, f, l, empty, o + 2)
      BY <2>6, ArgumentEnds
    <3>2. EndsInW(text[o])
      BY <1>2, <1>6, <2>7 DEF Names
    <3> QED BY <1>2, <2>2, <2>3, <2>5, <3>1, <3>2, EndsPasses
  <2>8. CASE Takes(ch) # "W;"
    <3>1. Argument(Past(s), ch, At(a, p)) = Outcome(Past(s), ch, "option", {At(a, p)}, {})
      BY <2>8 DEF Argument
    <3>2. PICK arg : arg = {At(a, p)}
      OBVIOUS
    <3>3. Own(m, a, p) /\ p < argc
      BY <2>1, <2>4
    <3>4. Ends(Outcome(Scanning(a, p + 1, f, l, empty, w), ch, "option", arg, {}), m, a, f, l, empty, p)
      BY <3>2, <3>3, OutcomeEnds
    <3> QED BY <1>2, <2>2, <2>4, <2>5, <3>1, <3>2, <3>4, EndsPasses
  <2> QED BY <2>7, <2>8
<1> QED BY <1>4, <1>5, <1>6

\* the letter i of the element at o
LEMMA ShortOptionPasses ==
  ASSUME NEW m, CommandLine(m), NEW a, NEW f, NEW l, NEW w, NEW o \in 1..m, Own(m, a, o + 1),
         NEW S, text[o] \in Seq(S), NEW i \in 2..Len(text[o]), NEW n, n = SubSeq(text[o], i, Len(text[o]))
  PROVE  Passes(ShortOption(Scanning(a, o, f, l, n, w)), m, a, f, l, o)
<1>1. m \in Nat /\ Len(text[o]) \in Nat /\ i \in Nat /\ 2 <= i /\ i <= Len(text[o])
  BY DEF CommandLine
<1>2. PICK s, c, rest, x, empty : /\ s = Scanning(a, o, f, l, n, w) /\ c = Head(n) /\ rest = Tail(n)
                                  /\ x = (IF rest = <<>> THEN o + 1 ELSE o)
                                  /\ empty = <<>>
  OBVIOUS
<1>3. c = text[o][i] /\ rest = SubSeq(text[o], i + 1, Len(text[o])) /\ (rest = <<>> <=> i = Len(text[o]))
  BY <1>2, LetterIs
<1>4. s.nextchar = n
  BY <1>2 DEF Scanning
<1>5. [IF rest = <<>> THEN Past(s) ELSE s EXCEPT !.nextchar = rest] = Scanning(a, x, f, l, rest, w)
  <2>1. CASE rest = <<>>
    <3>1. x = o + 1
      BY <1>2, <2>1
    <3>2. (IF rest = <<>> THEN Past(s) ELSE s) = Past(s)
      BY <2>1
    <3>3. Past(s) = Scanning(a, x, f, l, n, w)
      <4>1. Past(Scanning(a, o, f, l, n, w)) = Scanning(a, o + 1, f, l, n, w)
        BY PastIs
      <4>2. PICK p : p = o + 1
        OBVIOUS
      <4> QED BY <1>2, <3>1, <4>1, <4>2
    <3> QED BY <3>2, <3>3, EmptiedIs
  <2>2. CASE rest # <<>>
    <3>1. (IF rest = <<>> THEN Past(s) ELSE s) = Scanning(a, x, f, l, n, w)
      BY <1>2, <2>2
    <3> QED BY <3>1, EmptiedIs
  <2> QED BY <2>1, <2>2
<1>6. PICK past : past = Scanning(a, x, f, l, rest, w)
  OBVIOUS
<1>7. \/ \E ch, why : ShortOption(s) = Outcome(past, ch, why, None, {})
      \/ c \in DOMAIN Letters \cup Prefix /\ ShortOption(s) = WithArgument(past, c)
  <2>1. CASE c \notin DOMAIN Letters \cup Prefix
    <3>1. ShortOption(s) = Outcome(past, "?", "illegal", None, {})
      BY <1>2, <1>4, <1>5, <1>6, <2>1 DEF ShortOption
    <3> QED BY <3>1
  <2>2. CASE c \in DOMAIN Letters \cup Prefix /\ (Takes(c) = "none" \/ (Takes(c) = "optional" /\ rest = <<>>))
    <3>1. ShortOption(s) = Outcome(past, c, "option", None, {})
      BY <1>2, <1>4, <1>5, <1>6, <2>2 DEF ShortOption
    <3> QED BY <3>1
  <2>3. CASE c \in DOMAIN Letters \cup Prefix /\ ~(Takes(c) = "none" \/ (Takes(c) = "optional" /\ rest = <<>>))
    <3>1. ShortOption(s) = WithArgument(past, c)
      BY <1>2, <1>4, <1>5, <1>6, <2>3 DEF ShortOption
    <3> QED BY <2>3, <3>1
  <2> QED BY <2>1, <2>2, <2>3
<1>8. CASE \E ch, why : ShortOption(s) = Outcome(past, ch, why, None, {})
  <2>1. PICK ch, why : ShortOption(s) = Outcome(past, ch, why, None, {})
    BY <1>8
  <2>2. PICK r : ShortOption(s) = [s |-> Scanning(a, x, f, l, rest, w), ret |-> r]
    BY <1>6, <2>1, OutcomeIs
  <2>3. x \in o..m + 1
    BY <1>1, <1>2
  <2>4. Remains(text, x, rest)
    <3>1. CASE rest = <<>>
      BY <3>1 DEF Remains
    <3>2. CASE rest # <<>>
      <4>1. i + 1 \in 2..Len(text[o])
        BY <1>1, <1>3, <3>2
      <4>2. x = o /\ m = Len(text)
        BY <1>2, <3>2 DEF CommandLine
      <4>3. o \in 1..Len(text)
        BY <4>2
      <4> QED BY <1>3, <4>1, <4>2, <4>3 DEF Remains
    <3> QED BY <3>1, <3>2
  <2>5. \A k \in o + 1..x - 1 : FALSE
    BY <1>1, <1>2
  <2> QED BY <1>2, <2>2, <2>3, <2>4, <2>5 DEF Passes
<1>9. CASE c \in DOMAIN Letters \cup Prefix /\ ShortOption(s) = WithArgument(past, c)
  <2>1. ASSUME rest = <<>>, Takes(c) = "W;"  PROVE EndsInW(text[o])
    <3>1. i = Len(text[o])
      BY <1>3, <2>1
    <3>2. c = Last(text[o]) /\ Len(text[o]) > 1
      BY <1>1, <1>3, <3>1 DEF Last
    <3>3. c \in {ch \in DOMAIN Letters : Letters[ch] = "W;"}
      BY <1>9, <2>1, LetterOfW
    <3> QED BY <3>2, <3>3 DEF EndsInW
  <2>2. Names(c, o, rest) /\ Behind(x, o, rest)
    BY <1>2, <2>1 DEF Names, Behind
  <2>3. Passes(WithArgument(Scanning(a, x, f, l, rest, w), c), m, a, f, l, o)
    BY <2>2, WithArgumentPasses
  <2> QED BY <1>2, <1>6, <1>9, <2>3
<1> QED BY <1>7, <1>8, <1>9

-----------------------------------------------------------------------------
(* The calls.                                                              *)

\* What a call returns is kept; later calls give no less.
More(T, ret, r, after) ==
  /\ \E R : after \in Seq(R)
  /\ Clear(after) => Clear(ret) /\ r.why # "ambiguous -W"
  /\ \A i : Given(T, ret, i) => Given(T, after, i)
  /\ \A i : T[i] \in r.optarg => Given(T, after, i)

LEMMA AppendIsMore ==
  ASSUME NEW R, NEW ret \in Seq(R), NEW r, NEW T
  PROVE  More(T, ret, r, Append(ret, r))
<1>1. PICK Q : Q = R \cup {r}
  OBVIOUS
<1>2. \A k \in 1..Len(ret) : ret[k] \in Q
  BY <1>1
<1>3. ret \in Seq(Q) /\ r \in Q
  <2>1. R \subseteq Q /\ r \in Q
    BY <1>1
  <2> QED BY <2>1, SeqMonotonic
<1>4. PICK after : after = Append(ret, r)
  OBVIOUS
<1>5. PICK n \in Nat : n = Len(ret) /\ DOMAIN ret = 1..n
  <2>1. Len(ret) \in Nat /\ DOMAIN ret = 1..Len(ret)
    OBVIOUS
  <2> QED BY <2>1
<1>6. /\ after \in Seq(Q) /\ Len(after) = n + 1
      /\ \A k \in 1..n : after[k] = ret[k]
      /\ after[n + 1] = r
  BY <1>3, <1>4, <1>5, AppendProperties
<1>7. DOMAIN after = 1..n + 1
  BY <1>6
<1>8. n + 1 \in DOMAIN after /\ \A k \in DOMAIN ret : k \in DOMAIN after /\ after[k] = ret[k]
  BY <1>5, <1>6, <1>7
<1>9. Clear(after) => Clear(ret) /\ r.why # "ambiguous -W"
  BY <1>6, <1>8 DEF Clear
<1>10. ASSUME NEW i, Given(T, ret, i)  PROVE Given(T, after, i)
  BY <1>8, <1>10 DEF Given
<1>11. ASSUME NEW i, T[i] \in r.optarg  PROVE Given(T, after, i)
  BY <1>6, <1>8, <1>11 DEF Given
<1> QED BY <1>4, <1>6, <1>9, <1>10, <1>11 DEF More

LEMMA SettledStays ==
  ASSUME NEW T, NEW ret, NEW r, NEW after, More(T, ret, r, after), NEW a, NEW p, NEW ord, Settled(T, ret, a, p, ord)
  PROVE  Settled(T, after, a, p, ord)
<1>1. \A i : Given(T, ret, i) => Given(T, after, i)
  BY DEF More
<1>2. \A k \in 1..p - 1 : NONOPTION_P(T[a[k]]) => Given(T, ret, a[k])
  BY DEF Settled
<1>3. \A k \in 1..p - 1 : NONOPTION_P(T[a[k]]) => Given(T, after, a[k])
  BY <1>1, <1>2
<1> QED BY <1>3 DEF Settled

LEMMA StoreIs ==
  ASSUME NEW a, NEW x, NEW f, NEW l, NEW c, NEW w, NEW r, NEW out, out = [s |-> Scanning(a, x, f, l, c, w), ret |-> r],
         Store(out)
  PROVE  /\ argv' = a /\ th_optind' = x /\ nextchar' = c /\ first_nonopt' = f /\ last_nonopt' = l
         /\ text' = text /\ optstring' = optstring /\ returned' = Append(returned, r)
<1>1. PICK s : s = Scanning(a, x, f, l, c, w)
  OBVIOUS
<1>2. s.argv = a /\ s.optind = x /\ s.nextchar = c /\ s.first = f /\ s.last = l
  BY <1>1 DEF Scanning
<1>3. out.s = s /\ out.ret = r
  BY <1>1
<1>4. /\ argv' = out.s.argv /\ th_optind' = out.s.optind /\ nextchar' = out.s.nextchar
      /\ first_nonopt' = out.s.first /\ last_nonopt' = out.s.last
      /\ text' = text /\ optstring' = optstring /\ returned' = Append(returned, out.ret)
  BY DEF Store
<1> QED BY <1>2, <1>3, <1>4

\* what is kept while no -W was ambiguous
Scanned == /\ Between(argv, first_nonopt, last_nonopt, th_optind)
           /\ Remains(text, th_optind, nextchar)
LastSettled == Settled(text, returned, argv, th_optind, Ordering)

\* what every state has
Kept == text \in Vectors /\ \E R : returned \in Seq(R)

LEMMA OptionsInvIs ==
  /\ Kept /\ (Clear(returned) => (done => LastSettled) /\ (~done => Scanned)) => OptionsInv
  /\ OptionsInv => Kept
  /\ OptionsInv /\ Clear(returned) /\ done => LastSettled
  /\ OptionsInv /\ Clear(returned) /\ ~done => Scanned
<1>1. Scanned <=> /\ Scan(text, returned, argv, first_nonopt, last_nonopt, th_optind)
                  /\ Remains(text, th_optind, nextchar)
                  /\ Ordering # "PERMUTE" => first_nonopt = last_nonopt
  BY DEF Scanned, Between
<1> QED BY <1>1 DEF OptionsInv, Kept, LastSettled

LEMMA TextsAreSequences ==
  ASSUME text \in Vectors
  PROVE  /\ Len(text) \in Nat
         /\ \A o \in 1..Len(text) : text[o] \in Seq(ToSet(text[o]))
<1>1. text \in Seq(ToSet(text)) /\ \A t \in ToSet(text) : t \in Seq(ToSet(t))
  BY OptionsAssumption
<1>2. Len(text) \in Nat
  BY <1>1
<1>3. ASSUME NEW o \in 1..Len(text)  PROVE text[o] \in Seq(ToSet(text[o]))
  <2>1. text[o] \in ToSet(text)
    BY <1>1
  <2> QED BY <1>1, <2>1
<1> QED BY <1>2, <1>3

LEMMA CommandLineIs ==
  ASSUME text \in Vectors, NEW f, NEW l, NEW o, Between(argv, f, l, o)
  PROVE  CommandLine(Len(text))
<1>1. PICK m \in Nat : m = Len(text)
  BY TextsAreSequences
<1>2. argv \in Arrangements(m)
  BY <1>1 DEF Between, Scan, Placed
<1>3. argv \in Seq(1..m) /\ Len(argv) = m
  BY <1>2 DEF Arrangements
<1> QED BY <1>1, <1>3 DEF CommandLine

\* What a call leaves, when it does not end the options and when it does.
LEMMA ScannedNext ==
  ASSUME Kept, NEW a, NEW x, NEW f, NEW l, NEW c, NEW w, NEW r, NEW out,
         out = [s |-> Scanning(a, x, f, l, c, w), ret |-> r], Store(out), ~done, done' = done,
         \/ r.why = "ambiguous -W"
         \/ /\ \A after : More(text, returned, r, after) => Scan(text, after, a, f, l, x)
            /\ Remains(text, x, c)
            /\ Ordering # "PERMUTE" => f = l
  PROVE  OptionsInv'
<1>1. /\ argv' = a /\ th_optind' = x /\ nextchar' = c /\ first_nonopt' = f /\ last_nonopt' = l
      /\ text' = text /\ optstring' = optstring /\ returned' = Append(returned, r)
  BY StoreIs
<1>2. PICK after : after = Append(returned, r)
  OBVIOUS
<1>3. More(text, returned, r, after)
  BY <1>2, AppendIsMore DEF Kept
<1>4. Kept'
  BY <1>1, <1>2, <1>3 DEF Kept, More
<1>5. Ordering' = Ordering
  BY <1>1 DEF Ordering
<1>6. ASSUME Clear(returned)'  PROVE Scanned'
  <2>1. Clear(after)
    BY <1>1, <1>2, <1>6 DEF Clear
  <2>2. r.why # "ambiguous -W"
    BY <1>3, <2>1 DEF More
  <2>3. Scan(text, after, a, f, l, x) /\ Remains(text, x, c) /\ (Ordering # "PERMUTE" => f = l)
    BY <1>3, <2>2
  <2>4. Scan(text, returned, argv, first_nonopt, last_nonopt, th_optind)'
    BY <1>1, <1>2, <2>3 DEF Scan, Placed, Given
  <2>5. Remains(text, th_optind, nextchar)'
    BY <1>1, <2>3 DEF Remains
  <2>6. (Ordering # "PERMUTE" => first_nonopt = last_nonopt)'
    BY <1>1, <1>5, <2>3
  <2> QED BY <2>4, <2>5, <2>6 DEF Scanned, Between
<1>7. ~done'
  OBVIOUS
<1> QED BY <1>4, <1>6, <1>7, OptionsInvIs, PTL

LEMMA SettledNext ==
  ASSUME Kept, NEW a, NEW x, NEW f, NEW l, NEW c, NEW w, NEW r, NEW out,
         out = [s |-> Scanning(a, x, f, l, c, w), ret |-> r], Store(out), done',
         Clear(returned) => Settled(text, returned, a, x, Ordering)
  PROVE  OptionsInv'
<1>1. /\ argv' = a /\ th_optind' = x /\ nextchar' = c /\ first_nonopt' = f /\ last_nonopt' = l
      /\ text' = text /\ optstring' = optstring /\ returned' = Append(returned, r)
  BY StoreIs
<1>2. PICK after : after = Append(returned, r)
  OBVIOUS
<1>3. More(text, returned, r, after)
  BY <1>2, AppendIsMore DEF Kept
<1>4. Kept'
  BY <1>1, <1>2, <1>3 DEF Kept, More
<1>5. Ordering' = Ordering
  BY <1>1 DEF Ordering
<1>6. ASSUME Clear(returned)'  PROVE LastSettled'
  <2>1. Clear(after)
    BY <1>1, <1>2, <1>6 DEF Clear
  <2>2. Settled(text, returned, a, x, Ordering)
    BY <1>3, <2>1 DEF More
  <2>3. Settled(text, after, a, x, Ordering)
    BY <1>3, <2>2, SettledStays
  <2>4. Settled(text, returned, argv, th_optind, Ordering)'
    BY <1>1, <1>2, <1>5, <2>3 DEF Settled, Given
  <2> QED BY <2>4 DEF LastSettled
<1> QED BY <1>4, <1>6, OptionsInvIs, PTL

\* An ambiguous -W was returned, and stays.
LEMMA UnclearNext ==
  ASSUME Kept, ~Clear(returned), NEW out, Store(out)
  PROVE  OptionsInv'
<1>1. PICK r, after : r = out.ret /\ after = Append(returned, r)
  OBVIOUS
<1>2. text' = text /\ returned' = after
  BY <1>1 DEF Store
<1>3. More(text, returned, r, after)
  BY <1>1, AppendIsMore DEF Kept
<1>4. Kept'
  BY <1>2, <1>3 DEF Kept, More
<1>5. ~Clear(returned)'
  BY <1>2, <1>3 DEF More, Clear
<1> QED BY <1>4, <1>5, OptionsInvIs, PTL

\* The options end.
LEMMA EndKeeps ==
  ASSUME Kept, Scanned, ~done, EndOfOptions
  PROVE  OptionsInv'
<1>1. text \in Vectors /\ Between(argv, first_nonopt, last_nonopt, th_optind) /\ done'
  BY DEF Kept, Scanned, EndOfOptions
<1>2. PICK m \in Nat : m = Len(text)
  BY <1>1, TextsAreSequences
<1>3. CommandLine(m) /\ argc = m + 1
  <2>1. CommandLine(m)
    BY <1>1, <1>2, CommandLineIs
  <2> QED BY <2>1 DEF CommandLine, argc
<1>4. PICK c, w, s, end, why : c = <<>> /\ w = FALSE /\ s = Advanced /\ end = "-1" /\ why = "end"
  OBVIOUS
<1>5. \/ \E b, p, q, x : s = Scanning(b, x, p, q, c, w) /\ Between(b, p, q, x) /\ (p = q \/ q = x)
      \/ \E b, p : s = Scanning(b, m + 1, p, m + 1, c, w) /\ \A ord : Settled(text, returned, b, p, ord)
  BY <1>1, <1>3, <1>4, AdvancedIs
<1>6. \/ /\ s.optind = m + 1
         /\ Store(Outcome([s EXCEPT !.optind = IF s.first # s.last THEN s.first ELSE m + 1], end, why, None, {}))
      \/ /\ s.optind # m + 1 /\ NONOPTION_P(At(s.argv, s.optind)) /\ Ordering = "REQUIRE_ORDER"
         /\ Store(Outcome(s, end, why, None, {}))
  BY <1>3, <1>4 DEF EndOfOptions
<1>7. ASSUME NEW b, NEW p, NEW q, NEW x, s = Scanning(b, x, p, q, c, w), x = m + 1,
             NEW y, y = (IF p # q THEN p ELSE m + 1), Settled(text, returned, b, y, Ordering)
      PROVE  OptionsInv'
  <2>1. s.optind = m + 1 /\ s.first = p /\ s.last = q
    BY <1>7 DEF Scanning
  <2>2. Store(Outcome([s EXCEPT !.optind = y], end, why, None, {}))
    BY <1>6, <1>7, <2>1
  <2>3. [s EXCEPT !.optind = y] = Scanning(b, y, p, q, c, w)
    BY <1>7 DEF Scanning
  <2>4. PICK out : out = Outcome(Scanning(b, y, p, q, c, w), end, why, None, {})
    OBVIOUS
  <2>5. PICK r : out = [s |-> Scanning(b, y, p, q, c, w), ret |-> r]
    BY <2>4, OutcomeIs
  <2>6. Store(out)
    BY <2>2, <2>3, <2>4
  <2> QED BY <1>1, <1>7, <2>5, <2>6, SettledNext
<1>8. CASE \E b, p : s = Scanning(b, m + 1, p, m + 1, c, w) /\ \A ord : Settled(text, returned, b, p, ord)
  <2>1. PICK b, p : s = Scanning(b, m + 1, p, m + 1, c, w) /\ \A ord : Settled(text, returned, b, p, ord)
    BY <1>8
  <2>2. p = (IF p # m + 1 THEN p ELSE m + 1)
    OBVIOUS
  <2>3. PICK q : q = m + 1
    OBVIOUS
  <2> QED BY <1>7, <2>1, <2>2, <2>3
<1>9. ASSUME NEW b, NEW p, NEW q, NEW x, s = Scanning(b, x, p, q, c, w), Between(b, p, q, x), p = q \/ q = x
      PROVE  OptionsInv'
  <2>1. s.optind = x /\ s.argv = b
    BY <1>9 DEF Scanning
  <2>2. Scan(text, returned, b, p, q, x)
    BY <1>9 DEF Between
  <2>3. CASE x = m + 1
    <3>1. PICK y : y = IF p # q THEN p ELSE m + 1
      OBVIOUS
    <3>2. Settled(text, returned, b, IF p # q THEN p ELSE m + 1, Ordering)
      <4>1. Scan(text, returned, b, p, q, m + 1) /\ (p = q \/ q = m + 1)
        BY <1>9, <2>2, <2>3
      <4> QED BY <1>2, <4>1, SettledAtEnd
    <3> QED BY <1>7, <1>9, <2>3, <3>1, <3>2
  <2>4. CASE x # m + 1
    <3>1. NONOPTION_P(At(b, x)) /\ Ordering = "REQUIRE_ORDER" /\ Store(Outcome(s, end, why, None, {}))
      BY <1>6, <2>1, <2>4
    <3>2. p = q
      BY <1>9, <3>1 DEF Between
    <3>3. x \in 1..m
      BY <1>2, <2>2, <2>4 DEF Scan
    <3>4. b[x] = x
      BY <1>2, <2>2, <3>3 DEF Scan, Placed
    <3>5. NONOPTION_P(text[x])
      BY <3>1, <3>4 DEF At
    <3>6. Settled(text, returned, b, x, Ordering)
      <4>1. Settled(text, returned, b, x, "REQUIRE_ORDER")
        BY <1>2, <2>2, <2>4, <3>2, <3>5, SettledBefore
      <4> QED BY <3>1, <4>1
    <3>7. PICK out : out = Outcome(Scanning(b, x, p, q, c, w), end, why, None, {})
      OBVIOUS
    <3>8. PICK r : out = [s |-> Scanning(b, x, p, q, c, w), ret |-> r]
      BY <3>7, OutcomeIs
    <3>9. Store(out)
      BY <1>9, <3>1, <3>7
    <3> QED BY <1>1, <3>6, <3>8, <3>9, SettledNext
  <2> QED BY <2>3, <2>4
<1> QED BY <1>5, <1>8, <1>9

\* A non-option is returned.
LEMMA NonOptionKeeps ==
  ASSUME Kept, Scanned, ~done, NonOption
  PROVE  OptionsInv'
<1>1. text \in Vectors /\ Between(argv, first_nonopt, last_nonopt, th_optind) /\ done' = done
  BY DEF Kept, Scanned, NonOption
<1>2. PICK m \in Nat : m = Len(text)
  BY <1>1, TextsAreSequences
<1>3. CommandLine(m) /\ argc = m + 1
  <2>1. CommandLine(m)
    BY <1>1, <1>2, CommandLineIs
  <2> QED BY <2>1 DEF CommandLine, argc
<1>4. PICK c, w, s, one, why, none : c = <<>> /\ w = FALSE /\ s = Advanced /\ one = "1" /\ why = "non-option" /\ none = {}
  OBVIOUS
<1>5. \/ \E b, p, q, x : s = Scanning(b, x, p, q, c, w) /\ Between(b, p, q, x) /\ (p = q \/ q = x)
      \/ \E b, p : s = Scanning(b, m + 1, p, m + 1, c, w) /\ \A ord : Settled(text, returned, b, p, ord)
  BY <1>1, <1>3, <1>4, AdvancedIs
<1>6. /\ s.optind # m + 1 /\ Ordering = "RETURN_IN_ORDER"
      /\ Store(Outcome(Past(s), one, why, {At(s.argv, s.optind)}, none))
  BY <1>3, <1>4 DEF NonOption
<1>7. PICK b, p, q, x : s = Scanning(b, x, p, q, c, w) /\ Between(b, p, q, x)
  <2>1. ASSUME NEW b, NEW p, s = Scanning(b, m + 1, p, m + 1, c, w)  PROVE FALSE
    BY <1>6, <2>1 DEF Scanning
  <2> QED BY <1>5, <2>1
<1>8. s.optind = x /\ s.argv = b
  BY <1>7 DEF Scanning
<1>9. Scan(text, returned, b, p, q, x) /\ p = q
  BY <1>6, <1>7 DEF Between
<1>10. x \in 1..m
  BY <1>2, <1>6, <1>8, <1>9 DEF Scan
<1>11. b[x] = x
  BY <1>2, <1>9, <1>10 DEF Scan, Placed
<1>12. PICK arg, out : arg = {text[x]} /\ out = Outcome(Scanning(b, x + 1, p, q, c, w), one, why, arg, none)
  OBVIOUS
<1>13. Store(out)
  <2>1. Past(s) = Scanning(b, x + 1, p, q, c, w)
    BY <1>7, PastIs
  <2>2. {At(s.argv, s.optind)} = arg
    BY <1>8, <1>11, <1>12 DEF At
  <2> QED BY <1>6, <1>12, <2>1, <2>2
<1>14. PICK r : out = [s |-> Scanning(b, x + 1, p, q, c, w), ret |-> r] /\ r.optarg = arg
  BY <1>12, OutcomeIs
<1>15. ASSUME NEW after, More(text, returned, r, after)  PROVE Scan(text, after, b, p, q, x + 1)
  <2>1. Given(text, after, x)
    BY <1>12, <1>14, <1>15 DEF More
  <2>2. \A k \in x..(x + 1) - 1 : k = x
    BY <1>10
  <2>3. \A k \in x..(x + 1) - 1 : NONOPTION_P(text[k]) => Given(text, after, k)
    BY <2>1, <2>2
  <2>4. \A k \in 1..m : Given(text, returned, k) => Given(text, after, k)
    BY <1>15 DEF More
  <2>5. x + 1 \in x..m + 1
    BY <1>2, <1>10
  <2> QED BY <1>2, <1>9, <2>3, <2>4, <2>5, ScanTakes
<1>16. Remains(text, x + 1, c)
  BY <1>4 DEF Remains
<1> QED BY <1>1, <1>9, <1>13, <1>14, <1>15, <1>16, ScannedNext

\* What an option leaves, when it was kept and passes the elements it should.
LEMMA PassesKeeps ==
  ASSUME Kept, ~done, done' = done, NEW m, m = Len(text), m \in Nat, NEW a, NEW f, NEW l, NEW o, Between(a, f, l, o),
         o \in 1..m, ~NONOPTION_P(text[o]), NEW out, Passes(out, m, a, f, l, o), Store(out)
  PROVE  OptionsInv'
<1>1. PICK y, c, w, r : /\ out = [s |-> Scanning(a, y, f, l, c, w), ret |-> r]
                        /\ \/ r.why = "ambiguous -W"
                           \/ /\ y \in o..m + 1 /\ Remains(text, y, c)
                              /\ \A k \in o + 1..y - 1 : text[k] \in r.optarg \/ EndsInW(text[k - 1])
  BY DEF Passes
<1>2. Scan(text, returned, a, f, l, o) /\ (Ordering # "PERMUTE" => f = l)
  BY DEF Between
<1>3. CASE r.why = "ambiguous -W"
  BY <1>1, <1>3, ScannedNext
<1>4. CASE /\ y \in o..m + 1 /\ Remains(text, y, c)
           /\ \A k \in o + 1..y - 1 : text[k] \in r.optarg \/ EndsInW(text[k - 1])
  <2>1. ASSUME NEW after, More(text, returned, r, after)  PROVE Scan(text, after, a, f, l, y)
    <3>1. ASSUME NEW k \in o..y - 1, NONOPTION_P(text[k])  PROVE Given(text, after, k)
      <4>1. k # o
        BY <3>1
      <4>2. k \in o + 1..y - 1 /\ k > 1
        BY <1>4, <4>1
      <4>3. CASE text[k] \in r.optarg
        BY <2>1, <4>3 DEF More
      <4>4. CASE EndsInW(text[k - 1])
        BY <4>2, <4>4 DEF Given
      <4> QED BY <1>4, <4>2, <4>3, <4>4
    <3>2. \A k \in 1..m : Given(text, returned, k) => Given(text, after, k)
      BY <2>1 DEF More
    <3> QED BY <1>2, <1>4, <3>1, <3>2, ScanTakes
  <2> QED BY <1>1, <1>2, <1>4, <2>1, ScannedNext
<1> QED BY <1>1, <1>3, <1>4

\* An option is taken.
LEMMA OptionKeeps ==
  ASSUME Kept, Scanned, ~done, Option
  PROVE  OptionsInv'
<1>1. text \in Vectors /\ Between(argv, first_nonopt, last_nonopt, th_optind) /\ Remains(text, th_optind, nextchar)
  BY DEF Kept, Scanned
<1>2. PICK m \in Nat : m = Len(text)
  BY <1>1, TextsAreSequences
<1>3. CommandLine(m) /\ argc = m + 1
  <2>1. CommandLine(m)
    BY <1>1, <1>2, CommandLineIs
  <2> QED BY <2>1 DEF CommandLine, argc
<1>4. PICK empty, w, s : empty = <<>> /\ w = FALSE /\ s = IF nextchar # <<>> THEN Within ELSE Advanced
  OBVIOUS
<1>5. PICK t, n : t = At(s.argv, s.optind) /\ n = IF nextchar = <<>> THEN Tail(t) ELSE nextchar
  OBVIOUS
<1>6. /\ s.optind # m + 1 /\ ~NONOPTION_P(t) /\ done' = done
      /\ Store(IF t[2] = "-" THEN LongOption(s, Rest(t, 3)) ELSE ShortOption([s EXCEPT !.nextchar = n]))
  BY <1>3, <1>4, <1>5 DEF Option
<1>7. PICK a, f, l, o, c : s = Scanning(a, o, f, l, c, w) /\ Between(a, f, l, o)
  <2>1. CASE nextchar # <<>>
    <3>1. s = Scanning(argv, th_optind, first_nonopt, last_nonopt, nextchar, w)
      BY <1>4, <2>1 DEF Within, Scanning
    <3> QED BY <1>1, <3>1
  <2>2. CASE nextchar = <<>>
    <3>1. \/ \E b, p, q, x : s = Scanning(b, x, p, q, empty, w) /\ Between(b, p, q, x) /\ (p = q \/ q = x)
          \/ \E b, p : s = Scanning(b, m + 1, p, m + 1, empty, w) /\ \A ord : Settled(text, returned, b, p, ord)
      BY <1>1, <1>3, <1>4, <2>2, AdvancedIs
    <3>2. ASSUME NEW b, NEW p, s = Scanning(b, m + 1, p, m + 1, empty, w)  PROVE FALSE
      BY <1>6, <3>2 DEF Scanning
    <3> QED BY <3>1, <3>2
  <2> QED BY <2>1, <2>2
<1>8. s.optind = o /\ s.argv = a
  BY <1>7 DEF Scanning
<1>9. Scan(text, returned, a, f, l, o)
  BY <1>7 DEF Between
<1>10. o \in 1..m
  BY <1>2, <1>6, <1>8, <1>9 DEF Scan
<1>11. \A k \in 1..m : IF k < o THEN a[k] < o ELSE a[k] = k
  BY <1>2, <1>9 DEF Scan, Placed
<1>12. t = text[o]
  <2>1. ~(o < o)
    BY <1>10
  <2>2. a[o] = o
    BY <1>10, <1>11, <2>1
  <2> QED BY <1>5, <1>8, <2>2 DEF At
<1>13. Own(m, a, o + 1)
  <2>1. o + 1 \in 1..m + 1
    BY <1>2, <1>10
  <2>2. ASSUME NEW k \in 1..m, o + 1 <= k  PROVE a[k] = k
    <3>1. ~(k < o)
      BY <1>10, <2>2
    <3> QED BY <1>11, <3>1
  <2> QED BY <2>1, <2>2 DEF Own
<1>14. PICK S : t \in Seq(S)
  <2>1. text[o] \in Seq(ToSet(text[o]))
    BY <1>1, <1>2, <1>10, TextsAreSequences
  <2> QED BY <1>12, <2>1
<1>15. CASE t[2] = "-"
  <2>1. PICK out : out = LongOption(Scanning(a, o, f, l, c, w), Rest(t, 3))
    OBVIOUS
  <2>2. Store(out)
    BY <1>6, <1>7, <1>15, <2>1
  <2>3. Passes(out, m, a, f, l, o)
    BY <1>3, <1>10, <1>13, <2>1, LongOptionPasses
  <2> QED BY <1>2, <1>6, <1>7, <1>10, <1>12, <2>2, <2>3, PassesKeeps
<1>16. CASE t[2] # "-"
  <2>1. PICK out : out = ShortOption(Scanning(a, o, f, l, n, w))
    OBVIOUS
  <2>2. Store(out)
    <3>1. [s EXCEPT !.nextchar = n] = Scanning(a, o, f, l, n, w)
      BY <1>7, EmptiedIs
    <3> QED BY <1>6, <1>16, <2>1, <3>1
  <2>3. \E i \in 2..Len(text[o]) : n = SubSeq(text[o], i, Len(text[o]))
    <3>1. CASE nextchar # <<>>
      <4>1. th_optind = o
        <5>1. s = Scanning(argv, th_optind, first_nonopt, last_nonopt, nextchar, w)
          BY <1>4, <3>1 DEF Within, Scanning
        <5>2. s.optind = th_optind
          BY <5>1 DEF Scanning
        <5> QED BY <1>8, <5>2
      <4>2. n = nextchar
        BY <1>5, <3>1
      <4> QED BY <1>1, <3>1, <4>1, <4>2 DEF Remains
    <3>2. CASE nextchar = <<>>
      <4>1. n = Tail(t)
        BY <1>5, <3>2
      <4>2. Len(t) \in Nat /\ ~(Len(t) < 2)
        BY <1>6, <1>14 DEF NONOPTION_P
      <4>3. t # <<>>
        <5>1. Len(t) # 0
          BY <4>2
        <5>2. Len(<<>>) = 0
          BY EmptySeq
        <5> QED BY <5>1, <5>2, Zenon
      <4>4. Tail(t) = SubSeq(t, 2, Len(t))
        BY <1>14, <4>3, TailIsSubSeq
      <4>5. 2 \in 2..Len(t)
        BY <4>2
      <4> QED BY <1>12, <4>1, <4>4, <4>5
    <3> QED BY <3>1, <3>2
  <2>4. Passes(out, m, a, f, l, o)
    <3>1. PICK i \in 2..Len(text[o]) : n = SubSeq(text[o], i, Len(text[o]))
      BY <2>3
    <3> QED BY <1>3, <1>10, <1>12, <1>13, <1>14, <2>1, <3>1, ShortOptionPasses
  <2> QED BY <1>2, <1>6, <1>7, <1>10, <1>12, <2>2, <2>4, PassesKeeps
<1> QED BY <1>15, <1>16

LEMMA OptionsStart == OptionsInit => OptionsInv
<1> SUFFICES ASSUME OptionsInit  PROVE OptionsInv
  OBVIOUS
<1>1. text \in Vectors /\ th_optind = 1 /\ first_nonopt = 1 /\ last_nonopt = 1 /\ nextchar = <<>> /\ returned = <<>> /\ ~done
  BY DEF OptionsInit
<1>2. PICK m \in Nat : m = Len(text)
  BY <1>1, TextsAreSequences
<1>3. DOMAIN text = 1..m
  <2>1. text \in Seq(ToSet(text))
    BY <1>1, OptionsAssumption
  <2> QED BY <1>2, <2>1
<1>4. PICK a : a = [i \in 1..m |-> i]
  OBVIOUS
<1>5. argv = a
  BY <1>3, <1>4 DEF OptionsInit
<1>6. a \in Arrangements(m) /\ \A k \in 1..m : a[k] = k
  BY <1>4 DEF Arrangements
<1>7. \A k \in 1..m : ~(k < 1) /\ ~Taken(k, 1, 1, 1)
  BY DEF Taken
<1>8. PICK o, ret : o = 1 /\ ret = returned
  OBVIOUS
<1>9. Placed(text, a, o)
  <2>1. ASSUME NEW i \in 1..m  PROVE \E k \in 1..m : a[k] = i
    BY <1>6
  <2>2. \A k \in 1..m : IF k < o THEN a[k] < o ELSE a[k] = k
    BY <1>6, <1>7, <1>8
  <2> QED BY <1>2, <1>6, <2>1, <2>2 DEF Placed
<1>10. Scan(text, ret, a, o, o, o)
  <2>1. o \in 1..m + 1 /\ o \in o..m + 1
    BY <1>8
  <2>2. \A k \in o..o - 1 : FALSE
    BY <1>8
  <2>3. \A k \in 1..m : ~Taken(k, o, o, o)
    BY <1>7, <1>8
  <2>4. \A i, j \in o..o - 1 : i < j => a[i] < a[j]
    BY <2>2
  <2>5. \A k \in o..o - 1 : NONOPTION_P(text[a[k]])
    BY <2>2
  <2> QED BY <1>2, <1>9, <2>1, <2>3, <2>4, <2>5 DEF Scan
<1>11. Scanned
  BY <1>1, <1>5, <1>8, <1>10 DEF Scanned, Between, Remains
<1>12. Kept
  <2>1. <<>> \in Seq({})
    BY EmptySeq
  <2> QED BY <1>1, <2>1 DEF Kept
<1> QED BY <1>1, <1>11, <1>12, OptionsInvIs

LEMMA OptionsStep == OptionsInv /\ [th_getopt_long]_optionVars => OptionsInv'
<1> SUFFICES ASSUME OptionsInv, [th_getopt_long]_optionVars  PROVE OptionsInv'
  OBVIOUS
<1>1. CASE UNCHANGED optionVars
  BY <1>1 DEF optionVars, OptionsInv, Settled, Scan, Placed, Given, Remains, Clear, Ordering
<1>2. CASE th_getopt_long /\ Clear(returned)
  <2>1. Kept /\ Scanned /\ ~done
    BY <1>2, OptionsInvIs DEF th_getopt_long
  <2> QED BY <1>2, <2>1, EndKeeps, NonOptionKeeps, OptionKeeps DEF th_getopt_long
<1>3. CASE th_getopt_long /\ ~Clear(returned)
  <2>1. Kept
    BY OptionsInvIs
  <2>2. \E out : Store(out)
    <3>1. CASE EndOfOptions
      BY <3>1 DEF EndOfOptions
    <3>2. CASE NonOption
      BY <3>2 DEF NonOption
    <3>3. CASE Option
      BY <3>3 DEF Option
    <3> QED BY <1>3, <3>1, <3>2, <3>3 DEF th_getopt_long
  <2> QED BY <1>3, <2>1, <2>2, UnclearNext
<1> QED BY <1>1, <1>2, <1>3

\* v has the elements i..j of a
Part(v, a, i, j) == /\ DOMAIN v = 1..j - i + 1
                    /\ \A k \in 1..j - i + 1 : v[k] = a[i + k - 1]
                    /\ ToSet(v) = {a[k] : k \in i..j}

LEMMA PartIs ==
  ASSUME NEW m \in Nat, NEW a \in Arrangements(m), NEW i \in 1..m + 1, NEW j \in 0..m, i <= j + 1,
         NEW v, v = SubSeq(a, i, j)
  PROVE  Part(v, a, i, j)
<1>1. a \in [1..m -> 1..m]
  BY DEF Arrangements
<1>2. \A k \in i..j : a[k] \in 1..m
  BY <1>1
<1>3. PICK n \in Nat : n = j - i + 1
  OBVIOUS
<1>4. /\ v \in Seq(1..m) /\ Len(v) = (IF i <= j THEN j - i + 1 ELSE 0)
      /\ \A k \in 1..j - i + 1 : v[k] = a[i + k - 1]
  <2>1. i \in Int /\ j \in Int
    OBVIOUS
  <2> QED BY <1>2, <2>1, SubSeqProperties
<1>5. Len(v) = n
  BY <1>3, <1>4
<1>6. DOMAIN v = 1..n
  BY <1>4, <1>5
<1>7. ToSet(v) = {v[k] : k \in 1..n}
  BY <1>6 DEF ToSet
<1>8. ASSUME NEW k \in 1..n  PROVE \E h \in i..j : v[k] = a[h]
  <2>1. i + k - 1 \in i..j
    BY <1>3
  <2> QED BY <1>3, <1>4, <2>1
<1>9. ASSUME NEW k \in i..j  PROVE \E h \in 1..n : v[h] = a[k]
  <2>1. PICK h \in 1..n : i + h - 1 = k
    <3>1. k - i + 1 \in 1..n /\ i + (k - i + 1) - 1 = k
      BY <1>3
    <3> QED BY <3>1
  <2>2. v[h] = a[i + h - 1]
    BY <1>3, <1>4
  <2> QED BY <2>1, <2>2
<1>10. {v[k] : k \in 1..n} = {a[k] : k \in i..j}
  <2>1. ASSUME NEW e, e \in {v[k] : k \in 1..n}  PROVE e \in {a[k] : k \in i..j}
    <3>1. PICK k \in 1..n : e = v[k]
      BY <2>1
    <3>2. PICK h \in i..j : v[k] = a[h]
      BY <1>8
    <3> QED BY <3>1, <3>2
  <2>2. ASSUME NEW e, e \in {a[k] : k \in i..j}  PROVE e \in {v[k] : k \in 1..n}
    <3>1. PICK k \in i..j : e = a[k]
      BY <2>2
    <3>2. PICK h \in 1..n : v[h] = a[k]
      BY <1>9
    <3> QED BY <3>1, <3>2
  <2> QED BY <2>1, <2>2, Zenon
<1> QED BY <1>3, <1>4, <1>6, <1>7, <1>10 DEF Part

\* What is settled is what getopt promises.
LEMMA SettledIsPermuted ==
  ASSUME text \in Vectors, LastSettled
  PROVE  GetoptPermutes
<1>1. PICK m \in Nat : m = Len(text)
  BY TextsAreSequences
<1>2. DOMAIN text = 1..m
  <2>1. text \in Seq(ToSet(text))
    BY OptionsAssumption
  <2> QED BY <1>1, <2>1
<1>3. PICK a, p, ret : a = argv /\ p = th_optind /\ ret = returned
  OBVIOUS
<1>4. Settled(text, ret, a, p, Ordering)
  BY <1>3 DEF LastSettled
<1>5. p \in 1..m + 1 /\ a \in Arrangements(m) /\ \A i \in 1..m : \E k \in 1..m : a[k] = i
  BY <1>1, <1>4 DEF Settled
<1>6. \A i, j \in 1..m : i < j /\ (j < p \/ p <= i) => a[i] < a[j]
  BY <1>1, <1>4 DEF Settled
<1>7. \A k \in p..m : \/ NONOPTION_P(text[a[k]])
                      \/ \E j \in 1..p - 1 : a[j] < a[k] /\ text[a[j]] = <<"-", "-">>
                      \/ Ordering = "REQUIRE_ORDER" /\ NONOPTION_P(text[a[p]])
  BY <1>1, <1>4 DEF Settled
<1>8. \A k \in 1..p - 1 : NONOPTION_P(text[a[k]]) => Given(text, ret, a[k])
  BY <1>4 DEF Settled
<1>9. DOMAIN a = 1..m /\ Len(a) = m
  BY <1>5 DEF Arrangements
<1>10. PICK scanned, left : scanned = SubSeq(a, 1, p - 1) /\ left = SubSeq(a, p, m)
  OBVIOUS
<1>11. /\ DOMAIN scanned = 1..p - 1 /\ \A k \in 1..p - 1 : scanned[k] = a[k]
       /\ ToSet(scanned) = {a[k] : k \in 1..p - 1}
  <2>1. p - 1 \in 0..m /\ 1 <= (p - 1) + 1 /\ 1 \in 1..m + 1
    BY <1>5
  <2>2. PICK q : q = p - 1
    OBVIOUS
  <2>3. /\ DOMAIN scanned = 1..q - 1 + 1 /\ \A k \in 1..q - 1 + 1 : scanned[k] = a[1 + k - 1]
        /\ ToSet(scanned) = {a[k] : k \in 1..q}
    <3>1. q \in 0..m /\ 1 <= q + 1
      BY <2>1, <2>2
    <3>2. Part(scanned, a, 1, q)
      BY <1>5, <1>10, <2>1, <2>2, <3>1, PartIs
    <3> QED BY <3>2 DEF Part
  <2>4. q - 1 + 1 = q /\ \A k \in 1..q : 1 + k - 1 = k
    BY <2>1, <2>2
  <2> QED BY <2>2, <2>3, <2>4
<1>12. /\ DOMAIN left = 1..m - p + 1 /\ \A k \in 1..m - p + 1 : left[k] = a[p + k - 1]
       /\ ToSet(left) = {a[k] : k \in p..m}
  <2>1. m \in 0..m /\ p <= m + 1
    BY <1>5
  <2>2. Part(left, a, p, m)
    BY <1>5, <1>10, <2>1, PartIs
  <2> QED BY <2>2 DEF Part
<1>13. ToSet(argv) = DOMAIN text
  <2>1. ToSet(a) = {a[k] : k \in 1..m}
    BY <1>9 DEF ToSet
  <2>2. \A k \in 1..m : a[k] \in 1..m
    BY <1>5 DEF Arrangements
  <2> QED BY <1>2, <1>3, <1>5, <2>1, <2>2
<1>14. Increasing(scanned)
  <2>1. ASSUME NEW i \in 1..p - 1, NEW j \in 1..p - 1, i < j  PROVE scanned[i] < scanned[j]
    <3>1. i \in 1..m /\ j \in 1..m /\ j < p
      BY <1>5
    <3>2. a[i] < a[j]
      BY <1>6, <2>1, <3>1
    <3> QED BY <1>11, <3>2
  <2> QED BY <1>11, <2>1 DEF Increasing
<1>15. Increasing(left)
  <2>1. ASSUME NEW i \in 1..m - p + 1, NEW j \in 1..m - p + 1, i < j  PROVE left[i] < left[j]
    <3>1. PICK x \in 1..m, y \in 1..m : x = p + i - 1 /\ y = p + j - 1
      <4>1. p + i - 1 \in 1..m /\ p + j - 1 \in 1..m
        BY <1>5
      <4> QED BY <4>1
    <3>2. x < y /\ p <= x
      BY <1>5, <2>1, <3>1
    <3>3. a[x] < a[y]
      BY <1>6, <3>2
    <3> QED BY <1>12, <3>1, <3>3
  <2> QED BY <1>12, <2>1 DEF Increasing
<1>16. \A i \in ToSet(left) : \/ NONOPTION_P(text[i])
                              \/ \E j \in ToSet(scanned) : j < i /\ text[j] = <<"-", "-">>
                              \/ Ordering = "REQUIRE_ORDER" /\ NONOPTION_P(text[Head(left)])
  <2>1. ASSUME NEW k \in p..m
        PROVE  \/ NONOPTION_P(text[a[k]])
               \/ \E j \in ToSet(scanned) : j < a[k] /\ text[j] = <<"-", "-">>
               \/ Ordering = "REQUIRE_ORDER" /\ NONOPTION_P(text[Head(left)])
    <3>1. CASE \E j \in 1..p - 1 : a[j] < a[k] /\ text[a[j]] = <<"-", "-">>
      BY <1>11, <3>1
    <3>2. CASE Ordering = "REQUIRE_ORDER" /\ NONOPTION_P(text[a[p]])
      <4>1. 1 \in 1..m - p + 1 /\ p + 1 - 1 = p
        BY <1>5
      <4>2. left[1] = a[p]
        BY <1>12, <4>1
      <4> QED BY <3>2, <4>2
    <3> QED BY <1>7, <3>1, <3>2
  <2> QED BY <1>12, <2>1
<1>17. \A i \in ToSet(scanned) : NONOPTION_P(text[i]) => Given(text, ret, i)
  BY <1>8, <1>11
<1>18. scanned = SubSeq(argv, 1, th_optind - 1) /\ left = SubSeq(argv, th_optind, Len(argv))
  BY <1>3, <1>9, <1>10
<1> QED BY <1>3, <1>13, <1>14, <1>15, <1>16, <1>17, <1>18 DEF GetoptPermutes, Given, EndsInW

\* When th_getopt_long has returned -1 and no -W was ambiguous, argv is a
\* permutation of the command line, the options before th_optind and the
\* non-options from it on, each in their order: exchange, however often and
\* between whatever segments it was called, has kept the orders.
THEOREM OptionsArePermuted == OptionsSpec => []GetoptPermutes
<1>1. OptionsInv => GetoptPermutes
  <2> SUFFICES ASSUME OptionsInv, done, Clear(returned)  PROVE GetoptPermutes
    BY DEF GetoptPermutes, Clear
  <2> QED BY OptionsInvIs, SettledIsPermuted DEF Kept
<1> QED BY <1>1, OptionsStart, OptionsStep, PTL DEF OptionsSpec

=============================================================================
