----------------------------- MODULE CoreState -----------------------------
(***************************************************************************)
(* The state machine benchmark of the core kernel: core_init_state fills a *)
(* block with numbers, core_bench_state scans it, corrupts every step-th   *)
(* byte, scans it again and undoes the corruption.  The block is used      *)
(* again by the next iteration, so what is not undone stays.               *)
(*                                                                         *)
(* Two implementations of core_state_transition exist, a switch and a      *)
(* table (USE_STATE_TABLE); here both read the same symbols, one symbol a  *)
(* step.  The counters that feed the CRC are left out.                     *)
(***************************************************************************)
EXTENDS Integers, Sequences, Functions

CONSTANTS
  Sizes,      \* of the block (-S); one byte would not keep its zero
  Seeds,      \* seed1 and seed2 (-a, -b), as 16-bit numbers
  Steps,      \* distances of the corrupted bytes, 0x22 and more
  ByteXor(_, _)   \* of two bytes

Bytes == 0..255
Width == 65536    \* of a 16-bit number
SeedWords == 0..Width - 1

ASSUME StateAssumption ==
  /\ Sizes \subseteq Nat \ {0, 1}
  /\ Seeds \subseteq SeedWords
  /\ Steps \subseteq Nat /\ \A s \in Steps : s >= 34
ASSUME XorAssumption == \A b \in Bytes, c \in Bytes : ByteXor(b, c) \in Bytes /\ ByteXor(ByteXor(b, c), c) = b

-----------------------------------------------------------------------------
(* Symbols.                                                                *)

Comma == 44

Digits == 48..57

Class(b) ==
  CASE b \in Digits -> "digit"
    [] b \in {43, 45} -> "sign"
    [] b = 46 -> "dot"
    [] b \in {69, 101} -> "exp"
    [] OTHER -> "other"

States == {"start", "invalid", "s1", "s2", "int", "float", "exponent", "scientific"}

\* core_state_transition_switch
SwitchNext(state, class) ==
  CASE state = "start" ->
         CASE class = "digit" -> "int" [] class = "sign" -> "s1"
           [] class = "dot" -> "float" [] OTHER -> "invalid"
    [] state = "s1" ->
         CASE class = "digit" -> "int" [] class = "dot" -> "float" [] OTHER -> "invalid"
    [] state = "int" ->
         CASE class = "digit" -> "int" [] class = "dot" -> "float" [] OTHER -> "invalid"
    [] state = "float" ->
         CASE class = "digit" -> "float" [] class = "exp" -> "s2" [] OTHER -> "invalid"
    [] state = "s2" -> IF class = "sign" THEN "exponent" ELSE "invalid"
    [] state = "exponent" -> IF class = "digit" THEN "scientific" ELSE "invalid"
    [] state = "scientific" -> IF class = "digit" THEN "scientific" ELSE "invalid"
    [] OTHER -> state

\* Mutant: no line for the digits of an exponent.
StateTableNoExponent ==
  {<<s, "digit", "int">> : s \in {"start", "s1", "int"}}
    \cup {<<"float", "digit", "float">>, <<"scientific", "digit", "scientific">>}
    \cup {<<"start", "sign", "s1">>, <<"s2", "sign", "exponent">>}
    \cup {<<s, "dot", "float">> : s \in {"start", "s1", "int"}}
    \cup {<<"float", "exp", "s2">>}

\* fill_state_table: <<state, class, next state>>; all else is invalid.
StateTable ==
  {<<s, "digit", "int">> : s \in {"start", "s1", "int"}}
    \cup {<<"float", "digit", "float">>, <<"exponent", "digit", "scientific">>,
          <<"scientific", "digit", "scientific">>}
    \cup {<<"start", "sign", "s1">>, <<"s2", "sign", "exponent">>}
    \cup {<<s, "dot", "float">> : s \in {"start", "s1", "int"}}
    \cup {<<"float", "exp", "s2">>}

\* core_state_transition_table
TableNext(state, class) ==
  IF \E next \in States : <<state, class, next>> \in StateTable
  THEN CHOOSE next \in States : <<state, class, next>> \in StateTable
  ELSE "invalid"

-----------------------------------------------------------------------------
(* core_init_state.                                                        *)

intpat   == <<<<53, 48, 49, 50>>, <<49, 50, 51, 52>>, <<45, 56, 55, 52>>, <<43, 49, 50, 50>>>>
floatpat == <<<<51, 53, 46, 53, 52, 52, 48, 48>>, <<46, 49, 50, 51, 52, 53, 48, 48>>,
              <<45, 49, 49, 48, 46, 55, 48, 48>>, <<43, 48, 46, 54, 52, 52, 48, 48>>>>
scipat   == <<<<53, 46, 53, 48, 48, 101, 43, 51>>, <<45, 46, 49, 50, 51, 101, 45, 50>>,
              <<45, 56, 55, 101, 43, 56, 51, 50>>, <<43, 48, 46, 54, 101, 45, 49, 50>>>>
errpat   == <<<<84, 48, 46, 51, 101, 45, 49, 70>>, <<45, 84, 46, 84, 43, 43, 84, 113>>,
              <<49, 84, 51, 46, 52, 101, 52, 122>>, <<51, 52, 46, 48, 101, 45, 84, 94>>>>

\* The pattern that the incremented seed chooses.
Pattern(seed) ==
  LET kind  == seed % 8
      which == ((seed \div 8) % 4) + 1
  IN  CASE kind \in 0..2 -> intpat[which]
        [] kind \in 3..4 -> floatpat[which]
        [] kind \in 5..6 -> scipat[which]
        [] OTHER         -> errpat[which]

\* Mutant: the block may be filled to the last byte.
FitsToTheEnd(size, text, buf) == Len(text) + Len(buf) < size

\* The pattern, its comma and a final zero fit below size - 1.
Fits(size, text, buf) == Len(text) + Len(buf) + 1 < size - 1

\* The seed after k increments.
Incremented(seed, k) == (seed + k) % Width

\* The text so far with the k-th pattern and its comma, and whether it goes on:
\* the first pattern that does not fit ends it.
Appended(size, seed, k, before) ==
  LET buf == Pattern(Incremented(seed, k))
  IN  IF before[2] /\ Fits(size, before[1], buf)
      THEN <<before[1] \o buf \o <<Comma>>, TRUE>>
      ELSE <<before[1], FALSE>>

\* The texts after 0, 1, ... patterns.
Filled(size, seed) ==
  LET Fill[k \in Nat] == IF k = 0 THEN <<<<>>, TRUE>> ELSE Appended(size, seed, k, Fill[k - 1])
  IN  Fill

\* Patterns and commas, as long as they fit.
Written(size, seed) == Filled(size, seed)[size][1]

\* The block: what was written, and zeros.
core_init_state(size, seed) ==
  LET text == Written(size, seed)
  IN  [i \in 0..(size - 1) |-> IF i < Len(text) THEN text[i + 1] ELSE 0]

\* The bytes of the patterns, and the commas and zeros between and behind them.
TextBytes == {0, Comma} \cup UNION {Range(Pattern(seed)) : seed \in SeedWords}

\* The corruption by these seeds turns no byte of a text into a comma, as with
\* the seeds of the presets.
SparesCommas ==
  \A seed \in Seeds, b \in TextBytes : ByteXor(b, seed % 256) = Comma => b = Comma

-----------------------------------------------------------------------------

VARIABLES
  size,                \* of the block
  seed1, seed2, step,  \* what core_bench_state is called with
  mem,                 \* the block, from offset 0
  orig,                \* what core_init_state wrote to it
  pc,                  \* scanning, corrupting, scanning again, undoing
  p,                   \* the next symbol
  token,               \* where the token of that symbol starts
  sw, tb               \* the states of the switch and of the table

params == <<size, seed1, seed2, step, orig>>
vars   == <<params, mem, pc, p, token, sw, tb>>

Offsets == 0..(size - 1)

TypeOK ==
  /\ size \in Sizes /\ seed1 \in Seeds /\ seed2 \in Seeds /\ step \in Steps
  /\ orig \in [Offsets -> Bytes] /\ mem \in [Offsets -> Bytes]
  /\ pc \in {"scan", "corrupt", "rescan", "undo", "done"}
  /\ p \in Nat /\ token \in 0..p
  /\ sw \in States /\ tb \in States

Init ==
  /\ size \in Sizes /\ seed1 \in Seeds /\ seed2 \in Seeds /\ step \in Steps
  /\ orig = core_init_state(size, seed1)
  /\ mem = orig
  /\ pc = "scan" /\ p = 0 /\ token = 0
  /\ sw = "start" /\ tb = "start"

Scanning == pc \in {"scan", "rescan"}

\* The machine has read the symbol and is in state next: the token goes on
\* unless it is invalid or ended with the symbol.
GoesOn(next) == next # "invalid" /\ mem[p] # Comma

\* Mutant: the comma does not restart the machine.
StateAfterNoRestart(next) == IF next # "invalid" THEN next ELSE "start"

StateAfter(next) == IF GoesOn(next) THEN next ELSE "start"

\* One turn of the loop of core_state_transition; when the token ends the
\* caller starts the next one behind it.
ReadSymbol ==
  /\ Scanning /\ mem[p] # 0
  /\ LET swNext == IF mem[p] = Comma THEN sw ELSE SwitchNext(sw, Class(mem[p]))
         tbNext == IF mem[p] = Comma THEN tb ELSE TableNext(tb, Class(mem[p]))
     IN  /\ sw' = StateAfter(swNext)
         /\ tb' = StateAfter(tbNext)
         /\ p' = p + 1
         /\ token' = IF GoesOn(swNext) THEN token ELSE p'
  /\ UNCHANGED <<params, mem, pc>>

\* The zero ends the last token and the scan.
EndScan ==
  /\ Scanning /\ mem[p] = 0
  /\ pc' = IF pc = "scan" THEN "corrupt" ELSE "undo"
  /\ p' = 0 /\ token' = 0 /\ sw' = "start" /\ tb' = "start"
  /\ UNCHANGED <<params, mem>>

\* Every step-th byte from the first on, commas excepted.
Flip(seed) ==
  [i \in Offsets |-> IF i % step = 0 /\ mem[i] # Comma THEN ByteXor(mem[i], seed % 256) ELSE mem[i]]

Corrupt ==
  /\ pc = "corrupt"
  /\ mem' = Flip(seed1)
  /\ pc' = "rescan"
  /\ UNCHANGED <<params, p, token, sw, tb>>

\* Mutant: the undo starts at the second place.
UndoFromStep ==
  /\ pc = "undo"
  /\ mem' = [Flip(seed2) EXCEPT ![0] = mem[0]]
  /\ pc' = "done"
  /\ UNCHANGED <<params, p, token, sw, tb>>

Undo ==
  /\ pc = "undo"
  /\ mem' = Flip(seed2)
  /\ pc' = "done"
  /\ UNCHANGED <<params, p, token, sw, tb>>

Done == pc = "done" /\ UNCHANGED vars

Next == ReadSymbol \/ EndScan \/ Corrupt \/ Undo \/ Done

Spec == Init /\ [][Next]_vars /\ WF_vars(Next)

-----------------------------------------------------------------------------
(* Properties.                                                             *)

\* The table is the same state machine as the switch: a build with
\* USE_STATE_TABLE finds the same tokens.
SameMachine == sw = tb

Text == [i \in 1..(p - token) |-> Class(mem[token + i - 1])]

AllDigits(s) == \A i \in DOMAIN s : s[i] = "digit"

\* sign? in front of the rest of a number
Unsigned(s) == IF Len(s) > 0 /\ s[1] = "sign" THEN Tail(s) ELSE s

\* digits, a point, digits
IsFloat(s) ==
  \E k \in DOMAIN s : s[k] = "dot" /\ AllDigits(SubSeq(s, 1, k - 1)) /\ AllDigits(SubSeq(s, k + 1, Len(s)))

\* float, e, sign, digits
IsScientific(s) ==
  \E k \in DOMAIN s :
    /\ s[k] = "exp" /\ IsFloat(SubSeq(s, 1, k - 1))
    /\ k + 1 < Len(s) /\ s[k + 1] = "sign" /\ AllDigits(SubSeq(s, k + 2, Len(s)))

\* "trying to determine whether the input is a number or something else"
\* (core_state.c:42): the state names the format of the text read so far.
StateNamesFormat ==
  Scanning =>
    /\ sw = "start" <=> Text = <<>>
    /\ sw = "int" <=> Unsigned(Text) # <<>> /\ AllDigits(Unsigned(Text))
    /\ sw = "float" <=> IsFloat(Unsigned(Text))
    /\ sw = "scientific" <=> IsScientific(Unsigned(Text))

\* Both scans stop at a zero inside the block, the second one although the
\* corruption may have hit the zeros at its end.
ScansInside == p \in Offsets /\ (pc = "rescan" => \E i \in p..(size - 1) : mem[i] = 0)

\* "undo corruption is seed1 and seed2 are equal" (core_state.c:102): the
\* next iteration finds the block that core_init_state wrote.
CorruptionUndone == pc = "done" /\ seed1 = seed2 => mem = orig

=============================================================================
