----------------------------- MODULE MCWorkPool -----------------------------
(***************************************************************************)
(* The workloads the pool is checked on.                                   *)
(***************************************************************************)
EXTENDS WorkPool, TLC

\* No chains, as in every workload under workloads/: chain_id is -1.
NoChainId  == [i \in Items |-> -1]
NoChainUid == [i \in Items |-> -1]
NoChainLen == <<>>

\* Chain 0 of two items, a free item, then chain 1 of three items.
ShortLongId  == (0 :> 1) @@ (1 :> 2) @@ (2 :> -1) @@
                (3 :> 1) @@ (4 :> 2) @@ (5 :> 3)
ShortLongUid == (0 :> 0) @@ (1 :> 0) @@ (2 :> -1) @@
                (3 :> 1) @@ (4 :> 1) @@ (5 :> 1)
ShortLongLen == (0 :> 2) @@ (1 :> 3)

\* One chain of two items and a free item.
PairId  == (0 :> 1) @@ (1 :> 2) @@ (2 :> -1)
PairUid == (0 :> 0) @@ (1 :> 0) @@ (2 :> -1)
PairLen == (0 :> 2)

=============================================================================
