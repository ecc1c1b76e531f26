--------------------------- MODULE MCWorkloadMain ---------------------------
\* The programs of the repository, and an external caller's with two and three
\* items, which may be a chain and run more than once.
EXTENDS WorkloadMain

MCPrograms ==
  Workloads \cup {[items |-> n, iterations |-> 1, calls |-> "again"] : n \in {2, 3}}

-----------------------------------------------------------------------------
\* The kernels the programs load, for the theorems of KernelLife_proofs: the
\* discipline they start from is a property of the functions' text alone, so
\* the contexts, iterations and variables do not matter here.
MCKernels == {"zip", "parser", "parserFile", "sha", "core", "nnet", "linpack", "loops", "radix2",
              "cjpeg", "cjpegPreset"}

Life == INSTANCE KernelDiscipline WITH
  NumContexts <- 1, NumIterations <- 1, Kernels <- MCKernels,
  kernel <- "zip", verify <- FALSE, left <- 0, phase <- <<>>, pos <- <<>>,
  turn <- <<>>, ptr <- <<>>, live <- {}

\* These kernels are disciplined.
ASSUME KernelsDisciplined == \A name \in MCKernels : Life!Disciplined(name)

\* The options that are not, and what each of them does wrong: a buffer of
\* params, static data or an aligned block released by th_free, a null pointer
\* copied from, a call with null params.
ASSUME OptionsOffend ==
  LET offences ==
        [unzip       |-> {<<"bench", "free", "unz_buf">>},
         zipFile     |-> {<<"init", "readParams", "unz_buf">>, <<"bench", "free", "zip_buf">>},
         unzipFile   |-> {<<"init", "readParams", "zip_buf">>, <<"bench", "free", "unz_buf">>},
         parserText  |-> {<<"clean", "free", "xml_buf">>},
         parserNone  |-> {<<"init", "readParams", "xml_buf">>},
         nnetTooMany |-> {<<"define", "free", "self">>, <<"init", "exit", "self">>}]
  IN  /\ \A name \in DOMAIN offences : Life!Offences(name) = offences[name]
      /\ Life!Offences("nnetRef") = {} /\ Life!Unreleased("nnetRef") = {"ref_passes"}
      /\ Life!Offences("cjpegOther") = {} /\ Life!Unreleased("cjpegOther") = {"inFile_p"}
      /\ DOMAIN Life!Program = MCKernels \cup DOMAIN offences \cup {"nnetRef", "cjpegOther"}

=============================================================================
