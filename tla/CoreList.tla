------------------------------ MODULE CoreList ------------------------------
(***************************************************************************)
(* The list benchmark of the core kernel (core_list_join.c).  Every call   *)
(* of core_bench_list finds items, turns the list round, moves items,      *)
(* sorts by data or not, removes an item and puts it back, and sorts by    *)
(* idx, on the nodes core_list_init made once; the next call starts again  *)
(* from the pointer res->list, which none of this updates.                 *)
(*                                                                         *)
(* A node is its number in the block; the list is the sequence of its      *)
(* nodes.  What only feeds the CRC is left out: the counts of found and    *)
(* missed items and the find between remove and undo.                      *)
(***************************************************************************)
EXTENDS Integers, Sequences, SequencesExt

CONSTANTS
  Blocks,        \* <<li, seed1, seed3>>: the size of the list (-L) and the seeds (-a, -c)
  Iterations,
  BenchValues,   \* what the state machine or the matrix benchmark gives for an item, of 0..127
  XorW(_, _), OrW(_, _)   \* of 16-bit words

ee_u16 == 0..65535
HalfWord == 0..32767   \* of ee_s16
Byte == 0..255

\* with three nodes or fewer core_list_remove would follow a NULL pointer
ASSUME ListAssumption ==
  /\ \A b \in Blocks : b[1] \in Nat /\ b[1] >= 4 /\ b[2] \in ee_u16 /\ b[3] \in HalfWord
  /\ BenchValues \subseteq 0..127

VARIABLES
  block,
  list,        \* nodes from the head on
  info,        \* of every node: idx and the two bytes of data16
  phase,
  benchCalls,        \* calls of core_bench_list that have returned
  round            \* the round of finding

listVars == <<block, list, info, phase, benchCalls, round>>

Header == 0
Tail0 == 1

-----------------------------------------------------------------------------
(* Sorting by a key, a function of the node.                               *)

Idx(infos) == [node \in DOMAIN infos |-> infos[node].idx]

\* How many of the first n items of a merge are from p; equal keys: the item of p goes first.
FromFirst(p, q, key) ==
  LET took[n \in Nat] ==
        IF n = 0 THEN 0
        ELSE LET a == took[n - 1]
                 b == n - 1 - a
             IN IF a < Len(p) /\ (b = Len(q) \/ key[p[a + 1]] <= key[q[b + 1]]) THEN a + 1 ELSE a
  IN took

Merge(p, q, key) ==
  LET took == FromFirst(p, q, key)
  IN [n \in 1..Len(p) + Len(q) |-> IF took[n] > took[n - 1] THEN p[took[n]] ELSE q[n - took[n]]]

\* the run of at most size items behind the first n
Run(s, n, size) == SubSeq(s, n + 1, IF n + size < Len(s) THEN n + size ELSE Len(s))

\* Runs of size items are merged in pairs.
MergeRuns(s, size, key) ==
  LET pair == 2 * size
      merged == [k \in 0..Len(s) \div pair |-> Merge(Run(s, k * pair, size), Run(s, k * pair + size, size), key)]
  IN [n \in 1..Len(s) |-> merged[(n - 1) \div pair][((n - 1) % pair) + 1]]

insize[pass \in Nat] == IF pass = 0 THEN 1 ELSE 2 * insize[pass - 1]

Passes(s, key) ==
  LET sorted[n \in Nat] == IF n = 0 THEN s ELSE MergeRuns(sorted[n - 1], insize[n - 1], key)
  IN sorted

\* The last pass is the first that makes the list in one merge.
core_list_mergesort(s, key) ==
  LET last == CHOOSE n \in 1..Len(s) : insize[n] >= Len(s) /\ \A m \in 1..n - 1 : insize[m] < Len(s)
  IN Passes(s, key)[last]

-----------------------------------------------------------------------------
(* core_list_init.                                                         *)

IdxPattern(size, seed, n) ==
  IF n < size \div 5 THEN n ELSE OrW(((n + 1) % 8) * 256, XorW(n, seed)) % 16384

Items(size) == size - 3

\* Items are put behind the header one after the other, so that the last is
\* the first; the n-th of the list then gets the idx of n.
InitialInfo(size, seed) ==
  [node \in 0..Items(size) + 1 |->
     CASE node = Header -> [idx |-> 0, hi |-> 128, lo |-> 128]
       [] node = Tail0 -> [idx |-> 32767, hi |-> 255, lo |-> 255]
       [] OTHER -> LET k == node - 2
                       dat == (XorW(seed, k) % 16) * 8 + (k % 8)
                   IN [idx |-> IdxPattern(size, seed, Items(size) - k), hi |-> dat, lo |-> dat]]

InitialList(size, made) ==
  LET inserted == <<Header>> \o [n \in 1..Items(size) |-> Items(size) + 2 - n] \o <<Tail0>>
  IN core_list_mergesort(inserted, Idx(made))

NodeInfo == [idx : HalfWord, hi : Byte, lo : Byte]

\* XorW and OrW are of 16-bit words.
ASSUME WordAssumption == \A b \in Blocks : InitialInfo(b[1], b[2]) \in [0..Items(b[1]) + 1 -> NodeInfo]

ListInit ==
  /\ block \in Blocks
  /\ info = InitialInfo(block[1], block[2])
  /\ list = InitialList(block[1], info)
  /\ phase = "returned" /\ benchCalls = 0 /\ round = 0

-----------------------------------------------------------------------------
(* core_bench_list, called with finder_idx 1 and -1 in turn.               *)

finder_idx == IF benchCalls % 2 = 0 THEN 1 ELSE -1
find_num == block[3]

\* the list as the next call sees it
FromHeader == SubSeq(list, CHOOSE n \in DOMAIN list : list[n] = Header, Len(list))

Begin ==
  /\ phase = "returned" /\ benchCalls < 2 * Iterations
  /\ list' = FromHeader /\ phase' = "find" /\ round' = 0
  /\ UNCHANGED <<block, info, benchCalls>>

\* core_list_find: by idx, or by the low byte of data16
Hit(n) == IF finder_idx >= 0 THEN info[list[n]].idx = finder_idx + round ELSE info[list[n]].lo = round % 256
this_find == {list[n] : n \in {m \in DOMAIN list : Hit(m) /\ \A k \in 1..m - 1 : ~Hit(k)}}

\* The item after the one found goes behind the head of the list.
MoveAfter(s, node) ==
  LET at == CHOOSE n \in DOMAIN s : s[n] = node
  IN IF at = Len(s) \/ at = 1 THEN s
     ELSE <<s[1], s[at + 1]>> \o SubSeq(s, 2, at) \o SubSeq(s, at + 2, Len(s))

Find ==
  /\ phase = "find" /\ round < find_num
  /\ list' = IF this_find = {} THEN Reverse(list)
             ELSE MoveAfter(Reverse(list), CHOOSE node \in this_find : TRUE)
  /\ round' = round + 1
  /\ UNCHANGED <<block, info, phase, benchCalls>>

FindsDone ==
  /\ phase = "find" /\ round = find_num
  /\ phase' = IF finder_idx > 0 THEN "sort" ELSE "remove"
  /\ UNCHANGED <<block, list, info, benchCalls, round>>

\* calc_func: bit 7 tells that the low byte holds a value already; two of eight
\* patterns run the state machine or the matrix benchmark.
Runs == {node \in DOMAIN info : info[node].lo % 8 \in {0, 1} /\ info[node].lo < 128}

\* what it can give for the items
Calculated ==
  {[node \in DOMAIN info |-> IF node \in DOMAIN retval THEN retval[node] ELSE info[node].lo % 128] :
     retval \in [Runs -> BenchValues]}

\* cmp_complex; the sort compares every item, so every item is calculated
SortByData ==
  /\ phase = "sort"
  /\ \E value \in Calculated :
       /\ info' = [node \in DOMAIN info |-> [info[node] EXCEPT !.lo = 128 + value[node]]]
       /\ list' = core_list_mergesort(list, value)
  /\ phase' = "remove"
  /\ UNCHANGED <<block, benchCalls, round>>

Exchange(a, b) == [info EXCEPT ![a] = info[b], ![b] = info[a]]

\* core_list_remove(list->next): the item's info changes places with that of the next, which goes
RemoveItem ==
  /\ phase = "remove"
  /\ info' = Exchange(list[2], list[3])
  /\ list' = SubSeq(list, 1, 2) \o SubSeq(list, 4, Len(list))
  /\ phase' = "undo"
  /\ UNCHANGED <<block, benchCalls, round>>

\* Mutant: the item comes back with the other's info.
UndoKeepsInfo ==
  /\ phase = "undo"
  /\ LET remover == CHOOSE node \in DOMAIN info : node \notin ToSet(list)
     IN list' = <<list[1], list[2], remover>> \o SubSeq(list, 3, Len(list))
  /\ phase' = "order"
  /\ UNCHANGED <<block, info, benchCalls, round>>

\* core_list_undo_remove(remover, list->next): the node not in the list is the one removed
UndoRemove ==
  /\ phase = "undo"
  /\ LET remover == CHOOSE node \in DOMAIN info : node \notin ToSet(list)
     IN /\ info' = Exchange(remover, list[2])
        /\ list' = <<list[1], list[2], remover>> \o SubSeq(list, 3, Len(list))
  /\ phase' = "order"
  /\ UNCHANGED <<block, benchCalls, round>>

\* cmp_idx without res gives every item compared, that is every item, its low byte back
SortByIdx ==
  /\ phase = "order"
  /\ info' = [node \in DOMAIN info |-> [info[node] EXCEPT !.lo = info[node].hi]]
  /\ list' = core_list_mergesort(list, Idx(info))
  /\ phase' = "returned" /\ benchCalls' = benchCalls + 1
  /\ UNCHANGED <<block, round>>

ListNext == Begin \/ Find \/ FindsDone \/ SortByData \/ RemoveItem \/ UndoRemove \/ SortByIdx

ListSpec == ListInit /\ [][ListNext]_listVars

-----------------------------------------------------------------------------

\* What the restoring rests on: the header is before every item, and items of
\* equal idx are equal.  Seeds that give an item the header's idx break it.
IdxTells(made) ==
  \A n, m \in DOMAIN made :
    /\ n # Header => made[n].idx > made[Header].idx
    /\ made[n].idx = made[m].idx => made[n] = made[m]
IdxTellsItems == \A b \in Blocks : IdxTells(InitialInfo(b[1], b[2]))

\* Every call of core_bench_list leaves the list that core_list_init made: all
\* items, each with its data, in their order, starting at res->list.
ListRestored ==
  phase = "returned" =>
    LET made == InitialInfo(block[1], block[2])
        before == InitialList(block[1], made)
    IN [n \in DOMAIN FromHeader |-> info[FromHeader[n]]] = [n \in DOMAIN before |-> made[before[n]]]

=============================================================================
