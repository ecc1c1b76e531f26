----------------------------- MODULE RunPromise -----------------------------
(***************************************************************************)
(* What mith_main promises its caller, without threads or locks            *)
(* (mith/include/mith_workload.h, "Function: mith_main"): items are fired  *)
(* off to contexts, the run stops once each item has iterated              *)
(* num_iterations times, and only then the results are reported.           *)
(***************************************************************************)
EXTENDS Naturals

CONSTANTS Items,      \* the work items of the workload
          Iterations  \* how often each item has to be executed

VARIABLES started,    \* started[i]: executions of item i handed to a context
          completed,  \* completed[i]: executions of item i accounted for
          failures,   \* failures[i]: completed executions that failed
          reported    \* the results have been reported

promiseVars == <<started, completed, failures, reported>>

PromiseInit ==
  /\ started   = [i \in Items |-> 0]
  /\ completed = [i \in Items |-> 0]
  /\ failures  = [i \in Items |-> 0]
  /\ reported  = FALSE

Start(i) ==
  /\ started[i] < Iterations
  /\ started' = [started EXCEPT ![i] = @ + 1]
  /\ UNCHANGED <<completed, failures, reported>>

\* An execution is accounted for once, and fails at most once.
Complete(i, f) ==
  /\ ~reported
  /\ completed[i] < started[i]
  /\ completed' = [completed EXCEPT ![i] = @ + 1]
  /\ failures'  = [failures  EXCEPT ![i] = @ + f]
  /\ UNCHANGED <<started, reported>>

Report ==
  /\ ~reported
  /\ \A i \in Items : completed[i] = Iterations
  /\ reported' = TRUE
  /\ UNCHANGED <<started, completed, failures>>

PromiseNext ==
  \/ \E i \in Items : Start(i)
  \/ \E i \in Items, f \in 0..1 : Complete(i, f)
  \/ Report

PromiseSpec == PromiseInit /\ [][PromiseNext]_promiseVars

=============================================================================
