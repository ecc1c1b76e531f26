----------------------------- MODULE KernelLife -----------------------------
(***************************************************************************)
(* The memory of a benchmark kernel through its life in the harness.  The  *)
(* main thread calls define_params_K once; every context that executes the *)
(* item calls bmark_init_K, t_run_test_K, bmark_verify_K and bmark_fini_K, *)
(* in its own time and as often as the pool gives it an iteration          *)
(* (mith_lib.c:144-178); the main thread calls bmark_clean_K at the end.   *)
(* All contexts start from the same params, which init copies with         *)
(* th_memcpy: pointers and all.                                            *)
(*                                                                         *)
(* A function is the sequence of what it does to memory blocks, one step   *)
(* each; a block stands for everything that is allocated and released      *)
(* together (the vectors of loops, the lists of core).  What is computed   *)
(* is left out: the properties are about who owns what.                    *)
(*                                                                         *)
(* What the options of a dataset or of the build change in this sequence   *)
(* is a parameter of the function, and every combination is a kernel of    *)
(* Program.  Not all of them are in order: KernelDiscipline says for each  *)
(* what it does wrong.                                                     *)
(***************************************************************************)
EXTENDS Naturals, Sequences

CONSTANTS
  NumContexts,    \* bench_threads
  NumIterations,  \* iterations of the item
  Kernels         \* the kernels, by the names of Program

Main     == 0
Contexts == 1..NumContexts
Actors   == {Main} \cup Contexts

-----------------------------------------------------------------------------
(* Operations on the blocks of a params structure: the caller's own, or,   *)
(* inside bmark_init, the one it was given.                                *)

New(f)          == [do |-> "new", f |-> f, how |-> "plain"]
NewAligned(f)   == [do |-> "new", f |-> f, how |-> "aligned"]
Static(f)       == [do |-> "new", f |-> f, how |-> "static"]   \* points at static data
Free(f)         == [do |-> "free", f |-> f, how |-> "plain"]
FreeAligned(f)  == [do |-> "free", f |-> f, how |-> "aligned"]
Read(f)         == [do |-> "read", f |-> f]
Write(f)        == [do |-> "write", f |-> f]
ReadParams(f)   == [do |-> "readParams", f |-> f]

\* th_memcpy(p, params, sizeof(*p))
CopyParams == [do |-> "copyParams", f |-> "self"]

\* th_exit: the program is over.
Exit == [do |-> "exit", f |-> "self"]

\* rand_init ... rand_fini around f's initialisation.
WithRandom(ops) == <<New("rand")>> \o ops \o <<Free("rand")>>

-----------------------------------------------------------------------------
(* darkmark/zip: do_zip and do_unz replace the buffer they produce.        *)

DoZip == <<Free("zip_buf"), New("zip_buf"), Read("unz_buf"), Write("zip_buf")>>
DoUnz == <<Free("unz_buf"), New("unz_buf"), Read("zip_buf"), Write("unz_buf")>>

\* The data of a file (-f=) goes to the buffer the kernel is to produce.
ZipDefine(unzip, file) ==
  LET out == IF unzip THEN "unz_buf" ELSE "zip_buf"
  IN  <<New("self")>> \o
      (IF file THEN <<New(out), Write(out)>>
               ELSE WithRandom(<<New("unz_buf"), Write("unz_buf")>>)
                    \o (IF unzip THEN DoZip ELSE <<>>))

ZipInit(unzip) ==
  LET in == IF unzip THEN "zip_buf" ELSE "unz_buf"
  IN  <<New("self"), CopyParams, New(in), ReadParams(in), Write(in)>>

ZipBench(unzip)  == IF unzip THEN DoUnz ELSE DoZip
ZipVerify(unzip) == <<Read(IF unzip THEN "unz_buf" ELSE "zip_buf")>>

\* Mutant: only the input is released.
ZipFiniInput == <<Free("unz_buf"), Free("self")>>

ZipFini  == <<Free("zip_buf"), Free("unz_buf"), Free("self")>>
ZipClean == <<Free("unz_buf"), Free("zip_buf"), Free("self")>>

(* darkmark/parser: ezxml_parse_str splits the text in place.              *)

ParserInput ==
  [sample |-> WithRandom(<<New("xml_buf"), Write("xml_buf")>>),
   file   |-> <<New("xml_buf"), Write("xml_buf")>>,   \* -f=
   text   |-> <<Static("xml_buf")>>,                  \* -n=0 in dataset 0: default_xml
   none   |-> <<>>]                                   \* -n=0 in the others

ParserDefine(input) == <<New("self")>> \o ParserInput[input]

\* Mutant: every context parses the buffer of params.
ParserInitAliased == <<New("self"), CopyParams>>

ParserInit   == <<New("self"), CopyParams, New("xml_buf"),
                  ReadParams("xml_buf"), Write("xml_buf")>>
ParserBench  == <<New("tree"), Write("xml_buf"), Read("tree"), Free("tree")>>
ParserVerify == <<Read("self")>>
ParserFini   == <<Free("xml_buf"), Free("self")>>
ParserClean  == <<Free("xml_buf"), Free("self")>>

(* darkmark/sha: all contexts hash the same data.                          *)

ShaDefine == <<New("self")>> \o WithRandom(<<New("data"), Write("data")>>)
ShaInit   == <<New("self"), CopyParams>>
ShaBench  == <<Read("data"), Write("self")>>
ShaVerify == <<Read("self")>>
ShaFini   == <<Free("self")>>
ShaClean  == <<Free("data"), Free("self")>>

(* core: the results and the block for list, matrix and state.             *)

CoreDefine == <<New("self"), New("results"), Write("results")>>

CoreInit   == <<New("self"), CopyParams, New("results"), ReadParams("results"),
                New("memblock"), Write("memblock"), Write("results")>>
CoreBench  == <<Read("memblock"), Write("memblock"), Write("results")>>
CoreVerify == <<Read("results"), Write("results")>>
CoreFini   == <<Free("memblock"), Free("results"), Free("self")>>
CoreClean  == <<Free("results"), Free("self")>>

(* fp/nnet: the weights live in params, the random values are shared.      *)

\* More patterns than MAX_PATTERNS: params is released and null returned.
NnetDefine(tooMany) ==
  <<NewAligned("self")>> \o
  (IF tooMany THEN <<Free("self")>>
              ELSE WithRandom(<<New("random_values"), Write("random_values")>>))

NnetInit(params) == IF params THEN <<NewAligned("self"), CopyParams>> ELSE <<Exit>>

\* With gen_ref (-g) the passes are recorded, for the verification to print.
DoNNetIteration(gen_ref) ==
  (IF gen_ref THEN <<New("ref_passes"), Write("ref_passes")>> ELSE <<>>)
  \o <<Read("random_values"), Write("self")>>
NnetBench(gen_ref)  == DoNNetIteration(gen_ref) \o <<Write("self")>>
NnetVerify(gen_ref) == <<Read("self")>> \o (IF gen_ref THEN <<Read("ref_passes")>> ELSE <<>>)

\* Mutant: an aligned block released as a plain one.
NnetFiniPlain == <<Free("self")>>

NnetFini   == <<FreeAligned("self")>>
NnetClean  == <<Free("random_values"), FreeAligned("self")>>

(* fp/linpack: linpack_first in define, three working buffers per context. *)

LinpackDefine ==
  <<New("self")>> \o WithRandom(<<New("random_values"), Write("random_values")>>)
                  \o <<New("work"), Read("random_values"), Write("work"), Free("work")>>
LinpackInit   == <<New("self"), CopyParams, New("a"), New("b"), New("ipvt")>>
LinpackRun    == <<New("feedback"), Read("random_values"), Write("a"), Write("b"), Write("ipvt"),
                   Read("a"), Write("feedback"), Free("feedback"), Write("self")>>
LinpackBench  == WithRandom(LinpackRun \o LinpackRun)
LinpackVerify == <<Read("self"), Write("self")>>
LinpackFini   == <<Free("a"), Free("b"), Free("ipvt"), Free("self")>>
LinpackClean  == <<Free("random_values"), Free("self")>>

(* fp/loops: three banks of random values, five families of work buffers.  *)

LoopsBanks == <<"rbank", "lrbank", "irbank">>
LoopsWork  == <<"v", "iv", "v2", "m2", "m3">>

Each(Op(_), fields) == [k \in 1..Len(fields) |-> Op(fields[k])]

LoopsDefine == <<New("self")>> \o WithRandom(Each(New, LoopsBanks) \o Each(Write, LoopsBanks))
LoopsInit   == <<New("self"), CopyParams>> \o Each(New, LoopsWork) \o Each(Write, LoopsWork)
LoopsBench  == WithRandom(Each(Read, LoopsBanks) \o Each(Write, LoopsWork)) \o <<Write("self")>>
LoopsVerify == <<Read("v2")>>
LoopsFini   == Each(Free, <<"v", "v2", "iv", "m2", "m3">>) \o <<Free("self")>>
LoopsClean  == Each(Free, <<"irbank", "rbank", "lrbank">>) \o <<Free("self")>>

(* fp/fft_radix2: the transform works in place, the twiddles are shared.   *)

Radix2Define == <<New("self")>> \o WithRandom(<<New("data"), Write("data")>>)
                                \o <<New("twp"), Write("twp")>>

Radix2Init   == <<New("self"), CopyParams, NewAligned("data"), ReadParams("data"), Write("data")>>
Radix2Bench  == <<Read("twp"), Write("data"), Read("data")>>
Radix2Verify == <<Read("data")>>
Radix2Fini   == <<FreeAligned("data"), Free("self")>>
Radix2Clean  == <<Free("data"), Free("twp"), Free("self")>>

(* consumer_v2/cjpeg: the image is shared, read from a file or, in a build *)
(* with SELECT_PRESET_ID, an array of the program; define allocates an     *)
(* output area that no context uses.                                       *)

LoadBMPFile == <<New("fileName"), Read("fileName"), New("inFile_p"), Write("inFile_p"), Free("fileName")>>

CjpegDefine(array) ==
  <<New("self")>> \o (IF array THEN <<Static("inFile_p")>> ELSE LoadBMPFile) \o <<New("outFile_p")>>
CjpegInit   == <<New("self"), CopyParams, New("outFile_p")>>
CjpegBench  == <<Read("inFile_p"), Write("outFile_p")>>
CjpegVerify == <<Read("outFile_p"), Write("self")>>
CjpegFini   == <<Free("outFile_p"), Free("self")>>

\* The build says whether the image is one to release, wherever it came from.
CjpegClean(use_c_buffer) ==
  (IF use_c_buffer THEN <<>> ELSE <<Free("inFile_p")>>) \o <<Free("outFile_p"), Free("self")>>

-----------------------------------------------------------------------------

Functions(define, init, bench, verify, fini, clean) ==
  [define |-> define, init |-> init, bench |-> bench,
   verify |-> verify, fini |-> fini, clean |-> clean]

Zip(unzip, file) == Functions(ZipDefine(unzip, file), ZipInit(unzip), ZipBench(unzip),
                              ZipVerify(unzip), ZipFini, ZipClean)

Parser(input) == Functions(ParserDefine(input), ParserInit, ParserBench, ParserVerify, ParserFini, ParserClean)

Nnet(gen_ref) == Functions(NnetDefine(FALSE), NnetInit(TRUE), NnetBench(gen_ref),
                           NnetVerify(gen_ref), NnetFini, NnetClean)

Cjpeg(preset, array) == Functions(CjpegDefine(array), CjpegInit, CjpegBench,
                                  CjpegVerify, CjpegFini, CjpegClean(preset))

Program ==
  [zip         |-> Zip(FALSE, FALSE),
   unzip       |-> Zip(TRUE, FALSE),      \* -d=1
   zipFile     |-> Zip(FALSE, TRUE),      \* -f=
   unzipFile   |-> Zip(TRUE, TRUE),       \* -d=1 -f=
   parser      |-> Parser("sample"),
   parserFile  |-> Parser("file"),        \* -f=
   parserText  |-> Parser("text"),        \* -n=0
   parserNone  |-> Parser("none"),        \* -n=0
   sha         |-> Functions(ShaDefine, ShaInit, ShaBench, ShaVerify, ShaFini, ShaClean),
   core        |-> Functions(CoreDefine, CoreInit, CoreBench, CoreVerify, CoreFini, CoreClean),
   nnet        |-> Nnet(FALSE),
   nnetRef     |-> Nnet(TRUE),            \* -g
   nnetTooMany |-> Functions(NnetDefine(TRUE), NnetInit(FALSE), <<>>, <<>>, <<>>, <<>>),
   linpack     |-> Functions(LinpackDefine, LinpackInit, LinpackBench, LinpackVerify, LinpackFini, LinpackClean),
   loops       |-> Functions(LoopsDefine, LoopsInit, LoopsBench, LoopsVerify, LoopsFini, LoopsClean),
   radix2      |-> Functions(Radix2Define, Radix2Init, Radix2Bench, Radix2Verify, Radix2Fini, Radix2Clean),
   cjpeg       |-> Cjpeg(FALSE, FALSE),
   cjpegPreset |-> Cjpeg(TRUE, TRUE),     \* SELECT_PRESET_ID, its own image
   cjpegOther  |-> Cjpeg(TRUE, FALSE)]    \* SELECT_PRESET_ID, another image

ASSUME LifeAssumption ==
  /\ NumContexts \in Nat \ {0}
  /\ NumIterations \in Nat \ {0}
  /\ Kernels \subseteq DOMAIN Program

Fields == {"self", "rand", "zip_buf", "unz_buf", "xml_buf", "tree", "data", "results",
           "memblock", "random_values", "work", "a", "b", "ipvt", "feedback", "rbank",
           "lrbank", "irbank", "v", "iv", "v2", "m2", "m3", "twp", "ref_passes", "fileName",
           "inFile_p", "outFile_p"}

\* How a block came to be, which says what may release it.
Hows == {"plain", "aligned", "static"}

Null == <<>>

\* A block is known by who allocated it, for which iteration, as what, and how.
Blocks == Actors \X (0..NumIterations) \X Fields \X Hows

VARIABLES
  kernel,   \* the kernel of the item
  verify,   \* verify_output: one iteration, verified
  left,     \* iterations not taken yet
  phase,    \* the function each actor is in
  pos,      \* the operation it does next
  turn,     \* the iteration a context works on
  ptr,      \* the pointers of each actor's params structure
  live      \* the blocks there are: allocated, or static and pointed to

vars == <<kernel, verify, left, phase, pos, turn, ptr, live>>

Phases == {"define", "wait", "clean", "end", "idle", "init", "bench", "verify", "fini", "exited"}

TypeOK ==
  /\ kernel \in Kernels
  /\ verify \in BOOLEAN
  /\ left \in 0..NumIterations
  /\ phase \in [Actors -> Phases]
  /\ pos \in [Actors -> Nat]
  /\ turn \in [Actors -> 0..NumIterations]
  /\ ptr \in [Actors -> [Fields -> Blocks \cup {Null}]]
  /\ live \subseteq Blocks

Init ==
  /\ kernel \in Kernels
  /\ verify \in BOOLEAN
  /\ left = IF verify THEN 1 ELSE NumIterations
  /\ phase = [a \in Actors |-> IF a = Main THEN "define" ELSE "idle"]
  /\ pos = [a \in Actors |-> 1]
  /\ turn = [a \in Actors |-> 0]
  /\ ptr = [a \in Actors |-> [f \in Fields |-> Null]]
  /\ live = {}

-----------------------------------------------------------------------------

\* The actor is inside a kernel function and has an operation to do.
Running(a) == phase[a] \in DOMAIN Program[kernel] /\ pos[a] <= Len(Program[kernel][phase[a]])

Op(a) == Program[kernel][phase[a]][pos[a]]

\* The block the next operation works on.
Target(a) == ptr[IF Op(a).do = "readParams" THEN Main ELSE a][Op(a).f]

Advance(a) == pos' = [pos EXCEPT ![a] = @ + 1]

Allocate(a) ==
  /\ Running(a) /\ Op(a).do = "new"
  /\ LET block == <<a, turn[a], Op(a).f, Op(a).how>>
     IN /\ ptr' = [ptr EXCEPT ![a][Op(a).f] = block]
        /\ live' = live \cup {block}
  /\ Advance(a)
  /\ UNCHANGED <<kernel, verify, left, phase, turn>>

\* th_free: the null pointer is valid, and the pointer keeps its value.
Release(a) ==
  /\ Running(a) /\ Op(a).do = "free"
  /\ live' = live \ {Target(a)}
  /\ Advance(a)
  /\ UNCHANGED <<kernel, verify, left, phase, turn, ptr>>

\* The copy has every pointer of params; p itself is the new structure.
Copy(a) ==
  /\ Running(a) /\ Op(a).do = "copyParams"
  /\ ptr' = [ptr EXCEPT ![a] = [ptr[Main] EXCEPT !["self"] = ptr[a]["self"]]]
  /\ Advance(a)
  /\ UNCHANGED <<kernel, verify, left, phase, turn, live>>

Access(a) ==
  /\ Running(a) /\ Op(a).do \in {"read", "readParams", "write"}
  /\ Advance(a)
  /\ UNCHANGED <<kernel, verify, left, phase, turn, ptr, live>>

\* The function returns; the caller goes on to the next one.
Return(a, from, to) ==
  /\ phase[a] = from /\ ~Running(a)
  /\ phase' = [phase EXCEPT ![a] = to]
  /\ pos' = [pos EXCEPT ![a] = 1]

\* A context gets an iteration, or finds that none is left.
TakeIteration(c) ==
  /\ phase[c] = "idle" /\ phase[Main] = "wait"
  /\ IF left > 0
     THEN /\ left' = left - 1
          /\ turn' = [turn EXCEPT ![c] = left]
          /\ phase' = [phase EXCEPT ![c] = "init"]
     ELSE /\ phase' = [phase EXCEPT ![c] = "exited"]
          /\ UNCHANGED <<left, turn>>
  /\ UNCHANGED <<kernel, verify, pos, ptr, live>>

\* bench_thread calls the functions of the item one after the other.
NextFunction(c) ==
  /\ \/ Return(c, "init", "bench")
     \/ Return(c, "bench", IF verify THEN "verify" ELSE "fini")
     \/ Return(c, "verify", "fini")
     \/ Return(c, "fini", "idle")
  /\ UNCHANGED <<kernel, verify, left, turn, ptr, live>>

\* Mutant: main does not wait for the contexts.
MainGoesOnUnjoined ==
  /\ \/ Return(Main, "define", "wait")
     \/ Return(Main, "wait", "clean")
     \/ Return(Main, "clean", "end")
  /\ UNCHANGED <<kernel, verify, left, turn, ptr, live>>

\* main: define, run the workload until all contexts have left, clean up.
MainGoesOn ==
  /\ \/ Return(Main, "define", "wait")
     \/ (\A c \in Contexts : phase[c] = "exited") /\ Return(Main, "wait", "clean")
     \/ Return(Main, "clean", "end")
  /\ UNCHANGED <<kernel, verify, left, turn, ptr, live>>

Ended == phase[Main] = "end" /\ UNCHANGED vars

Actor(a) == Allocate(a) \/ Release(a) \/ Copy(a) \/ Access(a)

Next ==
  \/ \E a \in Actors : Actor(a)
  \/ \E c \in Contexts : TakeIteration(c) \/ NextFunction(c)
  \/ MainGoesOn
  \/ Ended

Spec == Init /\ [][Next]_vars

-----------------------------------------------------------------------------
(* Properties, of the kernels of the constant Kernels.                     *)

\* No function reads or writes through a pointer that is null or whose block
\* has been released.
NoDanglingUse ==
  \A a \in Actors :
    Running(a) /\ Op(a).do \in {"read", "readParams", "write"} => Target(a) \in live

\* "execute the work item - params are saved on a per context basis"
\* (mith_lib.c:156): whoever releases a block allocated it, it is still
\* allocated, and the function matches the one that allocated it.
FreesItsOwn ==
  \A a \in Actors :
    Running(a) /\ Op(a).do = "free" /\ Target(a) # Null =>
      Target(a) \in live /\ Target(a)[1] = a /\ Target(a)[4] = Op(a).how

\* No two actors are about to touch the same block when one of them writes or
\* releases it: what the contexts share they only read.
NoInterference ==
  \A a, c \in Actors :
    /\ a # c /\ Running(a) /\ Running(c)
    /\ Op(a).do \in {"write", "free"} /\ Op(c).do \in {"read", "readParams", "write", "free"}
    /\ Target(a) # Null
    => Target(a) # Target(c)

\* "cleanup and prepare for next run" (mith_lib.c:170): between two items a
\* context owns nothing, and at the end of the program nothing that was
\* allocated is left.
NothingLeaks ==
  /\ \A c \in Contexts : phase[c] \in {"idle", "exited"} => \A block \in live : block[1] # c
  /\ phase[Main] = "end" => \A block \in live : block[4] = "static"

=============================================================================
