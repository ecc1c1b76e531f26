---------------------------- MODULE AccurateBits ----------------------------
(***************************************************************************)
(* How many leading bits of a floating-point result are right: the check   *)
(* by which nnet, linpack, loops and fft_radix2 verify themselves.  The    *)
(* result and the reference are taken apart (load_dp, load_sp of th_al.c), *)
(* shifted to one scale as big numbers and subtracted (th_bignum.c); a     *)
(* buffer passes if its worst element does (th_lib.c).                     *)
(***************************************************************************)
EXTENDS Integers, Sequences, FiniteSetsExt, SequencesExt

CONSTANTS
  LimbBits,      \* 32: bits of a limb of a big number
  Limbs,         \* 8: BNC
  Precision,     \* per format: [fraction, bias, expMax, ignored, epsilon]; 52, 1023, 2047, 100, -200 in doubles
  Encodings,     \* per format: the floats compared, [sign, exp, frac] as encoded
  Buffers,       \* per format: the elements of longer buffers
  MinOk          \* bmin_ok

Formats == DOMAIN Precision

\* a number shifted by the largest gap keeps its sign bit, and the mantissa fills
\* at most two limbs
BitsAssumption ==
  /\ LimbBits \in Nat \ {0, 1}
  /\ \A f \in Formats : /\ Precision[f].fraction + Precision[f].ignored + 3 <= LimbBits * Limbs
                          /\ Precision[f].fraction < 2 * LimbBits

VARIABLES
  compared,      \* the last buffer compared: [f, signal, reference, bits]; f = "none" before
  res,           \* snr_result: [bmin, bmax, bsum, bavg, pass]
  acc_summary    \* the global statistics over all comparisons

vars == <<compared, res, acc_summary>>

-----------------------------------------------------------------------------
(* Big numbers: the integer whose digits are the Limbs limbs n[0], n[1],   *)
(* ..., in two's complement.                                               *)

Base == 2^LimbBits
Modulus == Base^Limbs
Limb(a, i) == (a \div Base^i) % Base

\* The carry out of a limb is recognised by a sum that is less than a summand.
bignum_add(a, b) ==
  LET from[i \in 0..Limbs, c \in {0, 1}] ==
        IF i = Limbs THEN 0
        ELSE LET n == (Limb(a, i) + Limb(b, i) + c) % Base
             IN n * Base^i + from[i + 1, IF n < Limb(a, i) \/ n < Limb(b, i) THEN 1 ELSE 0]
  IN from[0, 0]

SetBits(x) == {k \in 0..LimbBits - 1 : (x \div 2^k) % 2 = 1}
Or(x, y) == IF x = 0 \/ y = 0 THEN x + y ELSE MapThenSumSet(LAMBDA k : 2^k, SetBits(x) \cup SetBits(y))

\* Shifted by c bits where it stands: for c >= LimbBits the loop reads limbs it has already
\* written.  For a multiple of LimbBits it shifts a limb by its whole width, which C leaves
\* undefined: nothing (wraps FALSE) or the limb itself comes out.
bignum_shl(a, c, wraps) ==
  LET skip == c \div LimbBits
      rem == c % LimbBits
      Out(prev) == IF rem > 0 THEN prev \div 2^(LimbBits - rem) ELSE IF wraps THEN prev ELSE 0
      from[i \in skip..Limbs, n \in Nat, prev \in Nat] ==
        IF i = Limbs THEN n
        ELSE LET current == Limb(n, i - skip)
                 shifted == Or((current * 2^rem) % Base, Out(prev))
             IN from[i + 1, n + (shifted - Limb(n, i)) * Base^i, current]
      n == from[skip, a, 0]
  IN n - (n % Base^skip)

bignum_neg(a) == bignum_add(Modulus - 1 - a, 1)
bignum_sub(a, b) == bignum_add(a, bignum_neg(b))
bignum_abs(a) == IF a >= Modulus \div 2 THEN bignum_neg(a) ELSE a

Log2(x) == CHOOSE k \in 0..30 : 2^k <= x /\ (k = 30 \/ x < 2^(k + 1))

\* the number of the highest bit that is set, or -1
bignum_msb(a) == IF a = 0 THEN -1 ELSE Log2(a)

bignum_convert(p, scale, wraps) ==
  LET signed == IF p.sign = 1 THEN bignum_neg(p.mant) ELSE p.mant
  IN IF scale > 0 THEN bignum_shl(signed, scale, wraps) ELSE signed

-----------------------------------------------------------------------------
(* Taking floats apart.  load_sp returns before it has stored the sign of  *)
(* a subnormal, an infinity or a NaN; the caller ignores what it returns.  *)

load(f, v) ==
  LET r == Precision[f]
      special == v.exp \in {0, r.expMax}
      signs == IF f = "sp" /\ (v.exp = r.expMax \/ (v.exp = 0 /\ v.frac # 0)) THEN {0, 1} ELSE {v.sign}
  IN {[sign |-> s, exp |-> IF special THEN v.exp ELSE v.exp - r.bias,
       mant |-> IF special THEN v.frac ELSE v.frac + 2^r.fraction] : s \in signs}

Tiny(f, p) == p.exp <= Precision[f].epsilon \/ (p.exp = 0 /\ p.mant = 0)

\* Mutant: the reference is not made positive again before its size is taken.
SignedReference(f, sig, ref, wraps) ==
  LET a == bignum_convert(sig, sig.exp - ref.exp, wraps)
      b == bignum_convert(ref, ref.exp - sig.exp, wraps)
      msb == bignum_msb(bignum_abs(bignum_sub(a, b)))
  IN IF msb < 0 THEN Precision[f].fraction
     ELSE IF bignum_msb(b) < msb THEN 0 ELSE Min({Precision[f].fraction, bignum_msb(b) - msb})

\* The error of sig against ref, as a number of right bits.
ErrorBits(f, sig, ref, wraps) ==
  LET retval == Precision[f].fraction
      a == bignum_convert(sig, sig.exp - ref.exp, wraps)
      b == bignum_convert(ref, ref.exp - sig.exp, wraps)
      msb == bignum_msb(bignum_abs(bignum_sub(a, b)))
      ref_msb == bignum_msb(IF ref.sign = 1 THEN bignum_neg(b) ELSE b)
  IN IF msb < 0 THEN retval
     ELSE IF ref_msb < msb THEN 0 ELSE Min({retval, ref_msb - msb})

bignum_diff(f, sig, ref, wraps) ==
  LET retval == Precision[f].fraction
      gap == sig.exp - ref.exp
  IN IF ref.mant = 0 THEN IF Tiny(f, sig) THEN retval ELSE 0
     ELSE IF sig.mant = 0 THEN IF Tiny(f, ref) THEN retval ELSE 0
     ELSE IF Max({gap, -gap}) > Precision[f].ignored THEN 0
     ELSE ErrorBits(f, sig, ref, wraps)

fp_accurate_bits(f, sig, ref) ==
  {bignum_diff(f, s, r, wraps) : s \in load(f, sig), r \in load(f, ref), wraps \in BOOLEAN}

-----------------------------------------------------------------------------
(* Statistics.                                                             *)

NoValues == [n |-> 0, min |-> 9999, max |-> -9999, sum |-> 0]
svals(p, val) == [n |-> p.n + 1, min |-> Min({p.min, val}), max |-> Max({p.max, val}), sum |-> p.sum + val]

NoSummary == [sig_exp |-> NoValues, ref_exp |-> NoValues, bits |-> NoValues, exact |-> 0]

\* counts[] is kept as the number of comparisons with MIN_ACC_BITS_FP bits or more, its last element.
acc_summary_info(a, sig_exp, ref_exp, bits) ==
  [sig_exp |-> svals(a.sig_exp, sig_exp), ref_exp |-> svals(a.ref_exp, ref_exp),
   bits |-> svals(a.bits, bits), exact |-> a.exact + IF bits < MinOk THEN 0 ELSE 1]

ExpOf(f, v) == (CHOOSE p \in load(f, v) : TRUE).exp

Summary(f, signal, reference, bits) ==
  FoldLeft(LAMBDA a, i : acc_summary_info(a, ExpOf(f, signal[i]), ExpOf(f, reference[i]), bits[i]),
           acc_summary, [i \in 1..Len(bits) |-> i])

Result(bits) ==
  LET sum == FoldLeft(+, 0, bits)
      worst == Min({1000} \cup ToSet(bits))
  IN [bmin |-> worst, bmax |-> Max({0} \cup ToSet(bits)), bsum |-> sum, bavg |-> sum \div Len(bits),
      pass |-> IF worst < MinOk THEN 0 ELSE 1]

-----------------------------------------------------------------------------

Init ==
  /\ compared = [f |-> "none", signal |-> <<>>, reference |-> <<>>, bits |-> <<>>]
  /\ res = [bmin |-> 0, bmax |-> 0, bsum |-> 0, bavg |-> 0, pass |-> 0]
  /\ acc_summary = NoSummary

Compare(f, signal, reference, bits) ==
  /\ compared' = [f |-> f, signal |-> signal, reference |-> reference, bits |-> bits]
  /\ res' = Result(bits)
  /\ acc_summary' = Summary(f, signal, reference, bits)

\* fp_accurate_bits_dp and _sp, fp_iaccurate_bits_dp and _sp: a buffer of one element
fp_accurate ==
  \E f \in Formats : \E v, r \in Encodings[f] : \E b \in fp_accurate_bits(f, v, r) :
    Compare(f, <<v>>, <<r>>, <<b>>)

ee_accurate_bits_helper ==
  \E f \in Formats : \E v1, v2, r1, r2 \in Buffers[f] :
    \E b1 \in fp_accurate_bits(f, v1, r1), b2 \in fp_accurate_bits(f, v2, r2) :
      Compare(f, <<v1, v2>>, <<r1, r2>>, <<b1, b2>>)

Next == compared.f = "none" /\ (fp_accurate \/ ee_accurate_bits_helper)

Spec == Init /\ [][Next]_vars

-----------------------------------------------------------------------------
(* Properties.                                                             *)

Exponent(v) == IF v.exp = 0 THEN 1 ELSE v.exp
Significand(f, v) == (IF v.sign = 1 THEN -1 ELSE 1) * (IF v.exp = 0 THEN v.frac ELSE v.frac + 2^Precision[f].fraction)
Distance(x, y) == IF x < y THEN y - x ELSE x - y

\* The bits of r, from its highest, above the highest bit of the difference of
\* v and r as numbers; none when their exponents are further apart than "ignored".
RightBits(f, v, r) ==
  LET low == Min({Exponent(v), Exponent(r)})
      Whole(x) == Significand(f, x) * 2^(Exponent(x) - low)
      error == Distance(Whole(v), Whole(r))
  IN CASE Distance(Exponent(v), Exponent(r)) > Precision[f].ignored -> 0
       [] OTHER -> IF error = 0 THEN Precision[f].fraction
                   ELSE Max({0, Min({Precision[f].fraction, Log2(Distance(Whole(r), 0)) - Log2(error)})})

IsNormal(f, v) == v.exp \notin {0, Precision[f].expMax}

\* The numbers the code can compare: normal, the reference less than a limb's
\* bits larger in exponent (further apart bignum_shl reads what it has written).
Comparable(f, v, r) == IsNormal(f, v) /\ IsNormal(f, r) /\ Distance(v.exp, r.exp) < LimbBits

\* A result is credited with exactly the leading bits it shares with the
\* reference, whatever the signs, exponents and borrows between the limbs, and
\* a buffer passes exactly when each of its elements has the bits required.
AccurateBitsTell ==
  LET f == compared.f
      Right(i) == RightBits(f, compared.signal[i], compared.reference[i])
  IN (\A i \in DOMAIN compared.bits : Comparable(f, compared.signal[i], compared.reference[i])) =>
       /\ \A i \in DOMAIN compared.bits : compared.bits[i] = Right(i)
       /\ f # "none" => (res.pass = 1) = (\A i \in DOMAIN compared.bits : Right(i) >= MinOk)

\* A double result that is subnormal, which load_dp is said to support, is
\* not credited with more bits than it shares with the reference.
DenormsTell ==
  \A i \in DOMAIN compared.bits :
    LET v == compared.signal[i]
        r == compared.reference[i]
    IN compared.f = "dp" /\ v.exp = 0 /\ v.frac # 0 /\ IsNormal("dp", r) =>
         compared.bits[i] <= RightBits("dp", v, r)

=============================================================================
