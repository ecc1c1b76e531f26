------------------------------ MODULE MCLibrary ------------------------------
\* The parts of the library and of the core kernel that run alone: a behaviour
\* calls one of them, the others keep their initial state.
EXTENDS MCCoreState, CoreList, ThMalloc, Fdlibm, Getopt, TLC

VARIABLES
  library,     \* the one that runs
  float_rounding_mode, float_exception_flags, floatCall, floatZ, stored,   \* SoftFloat and FdlibmWords
  compared, res, acc_summary                                               \* AccurateBits

\* float32 in 8 bits and float64 in 16: the floats around the ends of the ranges
\* of exponents and fractions, and around one.
F32 == [exp |-> 5, frac |-> 2]
F64 == [exp |-> 6, frac |-> 9]
Packed(f, signs, exps, fracs) ==
  {s * 2^(f.exp + f.frac) + e * 2^f.frac + m : s \in signs, e \in exps, m \in fracs}
Of32 == Packed(F32, {0, 1}, {0, 1, 2, 14, 15, 16, 18, 29, 30, 31}, 0..3)
Others32 == Packed(F32, {0, 1}, {0, 15, 30, 31}, {0, 1, 3})
Of64 == Packed(F64, {0, 1}, {0, 1, 16, 31, 37, 62, 63}, {0, 1, 341, 511})
Others64 == Packed(F64, {0, 1}, {0, 31, 40, 63}, {0, 511})
Ints32 == -64..63
Ints64 == {n * m : n \in {-1, 1}, m \in {0, 1, 2, 3, 5, 7, 9, 11, 13, 14, 15, 127, 1023, 1024, 1025, 1026, 1027,
                                          2047, 4095, 28671, 28672, 28673, 32767}} \cup {-32768}

\* words of 6 low bits: j0 on both sides of HighBits = 3 and of the fraction's 9 bits,
\* subnormals to be shifted by less and by more than a word
WordOperands == Packed(F64, {0, 1}, {0, 1, 2, 30, 31, 33, 34, 35, 36, 37, 39, 40, 62, 63},
                       {0, 1, 3, 32, 63, 64, 65, 127, 256, 341, 448, 480, 511})
OtherWords == Packed(F64, {0, 1}, {0, 1, 31, 40, 63}, {0, 3, 511})
Shifts == {-600, -72, -40, -31, -10, -1, 0, 1, 9, 31, 60, 600}

Words == INSTANCE FdlibmWords WITH
  Single <- F32, Double <- F64, Int32 <- 7, Int64 <- 16, IntGuard <- 2, LowBits <- 6,
  Operands32 <- Of32, Operands64 <- Of64, call <- floatCall, z <- floatZ

\* in halves
Signed(S) == {<<s, h>> : s \in {0, 1}, h \in S} \cup {<<0, 50000>>}
MathArguments == Signed({0, 1, 2, 3, 4, 5, 6, 1419, 1420, 1421, 1490, 1491, 20000, 20004, 30000, 40000})
MathBases == Signed({0, 1, 2, 4, 30000, 40000})
MathExponents == Signed({0, 1, 2, 3, 4, 6, 2046, 2047, 2048, 2050, 2148, 2149, 2150, 2152, 4196, 4198, 30000, 40000})

MathOrders == -2..3

\* limbs of 4 bits
Encoded(exps, fracs) == [sign : {0, 1}, exp : exps, frac : fracs]
Precision == [dp |-> [fraction |-> 6, bias |-> 24, expMax |-> 49, ignored |-> 12, epsilon |-> -20],
              sp |-> [fraction |-> 3, bias |-> 12, expMax |-> 25, ignored |-> 5, epsilon |-> -10]]
Encodings == [dp |-> Encoded({0, 1, 5, 23, 24, 25, 28, 36, 49}, {0, 1, 16, 63}),
              sp |-> Encoded({0, 1, 2, 12, 13, 14, 16, 18, 25}, {0, 1, 4, 7})]
Buffers == [dp |-> Encoded({24}, {0, 1, 63}), sp |-> Encoded({11, 12}, {0, 7})]

Bits == INSTANCE AccurateBits WITH LimbBits <- 4, Limbs <- 6, MinOk <- 3

MCTexts == {<<"n">>, <<"n", "o", "t">>, <<"-", "-">>, <<"-", "a">>, <<"-", "a", "b">>, <<"-", "b", "+">>, <<"-", "c">>, <<"-", "W">>,
          <<"-", "-", "n", "o">>, <<"-", "-", "n", "i", "=", "x">>, <<"-", "-", "n">>}
MCAlternating == {<<"n">>, <<"-", "-">>, <<"-", "a">>, <<"-", "a", "b">>, <<"-", "-", "n", "i", "=", "x">>}
MCVectors == UNION {[1..n -> MCTexts] : n \in 0..3} \cup [1..4 -> MCAlternating]
MCOptstrings == {[prefix |-> "", colon |-> TRUE], [prefix |-> "+", colon |-> FALSE], [prefix |-> "-", colon |-> FALSE]}
MCLetters == [a |-> "none", b |-> "required", c |-> "optional", W |-> "W;"]
Long(name, has_arg, flag, val) == [name |-> name, has_arg |-> has_arg, flag |-> flag, val |-> val]
MCLongOptions == <<Long(<<"n", "o", "t">>, "required", FALSE, "t"), Long(<<"n", "i">>, "optional", TRUE, "i"),
                 Long(<<"n", "o">>, "none", FALSE, "o")>>

\* the presets of the core kernel, and small lists with few and many finds
ListBlocks == {<<31, 13333, 102>>, <<31, 0, 102>>, <<10, 51, 51>>}
            \cup ({4, 5, 6, 13, 20} \X {0, 13333} \X {0, 1, 3, 8})

\* All that is symmetric in them is the address of a block and which context is which.
Symmetry == Permutations(Workers) \cup Permutations(Addrs)

ASSUME PresetSeeds == SparesCommas
ASSUME FloatAssumption == Words!FormatAssumption /\ Words!WordSizes
ASSUME IdxTellsItems
ASSUME BitsAssumption == Bits!BitsAssumption

-----------------------------------------------------------------------------

FloatVars == <<float_rounding_mode, float_exception_flags, floatCall, floatZ, stored>>
BitsVars == <<compared, res, acc_summary>>

StateAtRest ==
  /\ size = 2 /\ seed1 = 0 /\ seed2 = 0 /\ step = 34 /\ orig = core_init_state(2, 0) /\ mem = orig
  /\ pc = "done" /\ p = 0 /\ token = 0 /\ sw = "start" /\ tb = "start"
FloatAtRest ==
  /\ float_rounding_mode = "nearest_even" /\ float_exception_flags = {}
  /\ floatCall = Words!NoCall /\ floatZ = 0
MathAtRest == version = "ieee" /\ call = NoCall /\ z = <<0, 0>> /\ errno = "none" /\ signgam = 1
OptionsAtRest ==
  /\ text = <<>> /\ optstring = [prefix |-> "", colon |-> TRUE] /\ argv = <<>>
  /\ th_optind = 1 /\ nextchar = <<>> /\ first_nonopt = 1 /\ last_nonopt = 1
  /\ initialized = FALSE /\ returned = <<>> /\ done = FALSE
ListsAtRest ==
  /\ block = <<4, 0, 0>> /\ list = <<0, 2, 1>> /\ info = <<>>
  /\ phase = "at rest" /\ benchCalls = 0 /\ round = 0

MCInit ==
  /\ library \in {"state", "list", "float", "math", "bits", "options", "heap"}
  /\ IF library = "state" THEN Init ELSE StateAtRest
  /\ IF library = "list" THEN ListInit ELSE ListsAtRest
  /\ IF library = "float" THEN Words!Init ELSE FloatAtRest
  /\ stored = 0
  /\ IF library = "math" THEN MathInit ELSE MathAtRest
  /\ Bits!Init
  /\ IF library = "options" THEN OptionsInit ELSE OptionsAtRest
  /\ HeapInit

UseState == library = "state" /\ Next /\ UNCHANGED <<FloatVars, mathVars, BitsVars, optionVars, listVars, heapVars>>
UseList == library = "list" /\ ListNext /\ UNCHANGED <<vars, FloatVars, mathVars, BitsVars, optionVars, heapVars>>
UseFloat ==
  /\ library = "float"
  /\ \/ Words!Next /\ UNCHANGED stored
     \/ Words!WordsNext
  /\ UNCHANGED <<vars, mathVars, BitsVars, optionVars, listVars, heapVars>>
UseMath == library = "math" /\ MathNext /\ UNCHANGED <<vars, FloatVars, BitsVars, optionVars, listVars, heapVars>>
UseBits == library = "bits" /\ Bits!Next /\ UNCHANGED <<vars, FloatVars, mathVars, optionVars, listVars, heapVars>>
UseOptions ==
  /\ library = "options" /\ th_getopt_long
  /\ UNCHANGED <<vars, FloatVars, mathVars, BitsVars, listVars, heapVars>>
UseHeap == library = "heap" /\ HeapNext /\ UNCHANGED <<vars, FloatVars, mathVars, BitsVars, optionVars, listVars>>

\* The calls have returned; the specifications of state and heap say so themselves.
Returned ==
  /\ \/ library = "list" /\ phase = "returned" /\ benchCalls = 4
     \/ library = "float" /\ floatCall # Words!NoCall
     \/ library = "math" /\ call # NoCall
     \/ library = "bits" /\ compared.f # "none"
     \/ library = "options" /\ (done \/ th_optind > argc)
  /\ UNCHANGED <<vars, FloatVars, mathVars, BitsVars, optionVars, listVars, heapVars>>

MCNext ==
  /\ UseState \/ UseList \/ UseFloat \/ UseMath \/ UseBits \/ UseOptions \/ UseHeap \/ Returned
  /\ UNCHANGED library

MCSpec == MCInit /\ [][MCNext]_<<library, vars, FloatVars, mathVars, BitsVars, optionVars, listVars, heapVars>>

-----------------------------------------------------------------------------
(* The properties of the modules.                                          *)

\* SoftFloat: every operation rounds the exact result as IEEE 754 says.
RoundsCorrectly == library = "float" => Words!RoundsCorrectly

\* SoftFloat: float_exception_flags tells what happened in an operation.
FlagsTell == library = "float" => Words!FlagsTell

\* SoftFloat: the comparisons, under libgcc's names too, order floats as numbers.
ComparesAsNumbers == library = "float" => Words!ComparesAsNumbers

\* fdlibm's functions on the words of a double return the exact or once rounded result.
WordsTell == library = "float" => Words!WordsTell

\* A floating-point result is credited with the leading bits that are right.
AccurateBitsTell == library = "bits" => Bits!AccurateBitsTell

=============================================================================
