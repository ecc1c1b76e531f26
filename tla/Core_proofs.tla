----------------------------- MODULE Core_proofs -----------------------------
(***************************************************************************)
(* The core kernel.  Of the state benchmark: the two machines agree, their *)
(* state names the format of what they read, both scans stop inside the    *)
(* block, and the corruption is undone.  Of the list benchmark: the merge  *)
(* sort sorts, and every call leaves the list that core_list_init made.    *)
(***************************************************************************)
EXTENDS CoreState, CoreList, NaturalRecursion, SequenceTheorems, TLAPS

-----------------------------------------------------------------------------
(* The state benchmark (CoreState).                                        *)

Classes == {"digit", "sign", "dot", "exp", "other"}

ValidStates == States \ {"invalid"}

\* Every byte has one of the five classes.
LEMMA ClassOfByte == ASSUME NEW b PROVE Class(b) \in Classes
  BY DEF Class, Classes

\* In a state the machines can be in, the line of the table is the case of
\* the switch.
LEMMA SwitchIsTable ==
  ASSUME NEW state \in ValidStates, NEW class \in Classes
  PROVE  SwitchNext(state, class) = TableNext(state, class)
<1>1. \A next \in States : <<state, class, next>> \in StateTable => next = SwitchNext(state, class)
  BY DEF ValidStates, Classes, States, StateTable, SwitchNext
<1>2. SwitchNext(state, class) \in States
  BY DEF ValidStates, Classes, States, SwitchNext
<1>3. CASE <<state, class, SwitchNext(state, class)>> \in StateTable
  BY <1>1, <1>2, <1>3 DEF TableNext
<1>4. CASE <<state, class, SwitchNext(state, class)>> \notin StateTable
  <2>1. SwitchNext(state, class) = "invalid"
    BY <1>4 DEF ValidStates, Classes, States, StateTable, SwitchNext
  <2>2. ~ \E next \in States : <<state, class, next>> \in StateTable
    BY <1>1, <1>4
  <2> QED BY <2>1, <2>2 DEF TableNext
<1> QED BY <1>3, <1>4

-----------------------------------------------------------------------------

\* Both machines are in the same state, and neither reads on in the invalid
\* one.
IMachines == sw = tb /\ sw \in ValidStates

\* Both start in CORE_START.
LEMMA InitMachines == Init => IMachines
  BY DEF Init, IMachines, ValidStates, States

\* A symbol takes both to the same state, the end of a token to CORE_START.
LEMMA NextMachines == IMachines /\ [Next]_vars => IMachines'
<1> SUFFICES ASSUME IMachines, [Next]_vars PROVE IMachines'
  OBVIOUS
<1>1. CASE ReadSymbol
  <2> DEFINE b == mem[p]
             swNext == IF b = Comma THEN sw ELSE SwitchNext(sw, Class(b))
             tbNext == IF b = Comma THEN tb ELSE TableNext(tb, Class(b))
  <2>1. swNext = tbNext
    BY ClassOfByte, SwitchIsTable DEF IMachines
  <2>2. swNext \in States
    <3>1. SwitchNext(sw, Class(b)) \in States
      BY ClassOfByte DEF IMachines, Classes, ValidStates, States, SwitchNext
    <3> QED BY <3>1 DEF IMachines, ValidStates
  <2>3. sw' = StateAfter(swNext) /\ tb' = StateAfter(tbNext)
    BY <1>1 DEF ReadSymbol
  <2> HIDE DEF swNext, tbNext
  <2>4. StateAfter(swNext) \in ValidStates
    BY <2>2 DEF StateAfter, GoesOn, ValidStates, States
  <2> QED BY <2>1, <2>3, <2>4 DEF IMachines
<1>2. CASE EndScan
  BY <1>2 DEF EndScan, IMachines, ValidStates, States
<1>3. CASE Corrupt \/ Undo
  BY <1>3 DEF Corrupt, Undo, IMachines
<1>4. CASE Done \/ UNCHANGED vars
  BY <1>4 DEF Done, vars, IMachines
<1> QED BY <1>1, <1>2, <1>3, <1>4 DEF Next

\* At every symbol of both scans core_state_transition_table is in the state
\* in which core_state_transition_switch is.
THEOREM MachinesAgree == Spec => []SameMachine
<1>1. IMachines => SameMachine
  BY DEF IMachines, SameMachine
<1> QED BY InitMachines, NextMachines, <1>1, PTL DEF Spec

-----------------------------------------------------------------------------

\* Where the number behind a sign begins, in the first n symbols of T.
First(T, n) == IF n > 0 /\ T[1] = "sign" THEN 2 ELSE 1

\* From the a-th to the b-th symbol T has digits.
DigitsIn(T, a, b) == \A i \in a..b : T[i] = "digit"

\* The first n symbols of T are digits with a point among them, perhaps behind
\* a sign.
FloatTo(T, n) ==
  \E k \in First(T, n)..n : T[k] = "dot" /\ DigitsIn(T, First(T, n), k - 1) /\ DigitsIn(T, k + 1, n)

\* They are what brings the machine to the state.
Form(state, T, n) ==
  CASE state = "start" -> n = 0
    [] state = "s1" -> n = 1 /\ T[1] = "sign"
    [] state = "int" -> First(T, n) <= n /\ DigitsIn(T, First(T, n), n)
    [] state = "float" -> FloatTo(T, n)
    [] state = "s2" -> n > 1 /\ T[n] = "exp" /\ FloatTo(T, n - 1)
    [] state = "exponent" -> n > 2 /\ T[n] = "sign" /\ T[n - 1] = "exp" /\ FloatTo(T, n - 2)
    [] state = "scientific" ->
         \E j \in 2..n : /\ T[j] = "exp" /\ FloatTo(T, j - 1)
                         /\ j + 1 < n /\ T[j + 1] = "sign" /\ DigitsIn(T, j + 2, n)
\* The symbols behind the n-th do not count.
LEMMA FloatSame ==
  ASSUME NEW T, NEW U, NEW n \in Nat, \A i \in 1..n : T[i] = U[i]
  PROVE  FloatTo(T, n) => FloatTo(U, n)
<1>1. First(T, n) = First(U, n) /\ First(T, n) \in {1, 2}
  BY DEF First
<1>2. ASSUME NEW k \in First(T, n)..n, T[k] = "dot", DigitsIn(T, First(T, n), k - 1), DigitsIn(T, k + 1, n)
      PROVE  FloatTo(U, n)
  <2>1. k \in 1..n /\ k \in First(U, n)..n /\ U[k] = "dot"
    BY <1>1, <1>2
  <2>2. DigitsIn(U, First(U, n), k - 1) /\ DigitsIn(U, k + 1, n)
    BY <1>1, <1>2, <2>1 DEF DigitsIn
  <2> QED BY <2>1, <2>2 DEF FloatTo
<1> QED BY <1>2 DEF FloatTo
\* A symbol that the machine does not reject makes the text the form of the
\* state that it leads to.
LEMMA FormGrows ==
  ASSUME NEW s \in ValidStates, NEW T, NEW U, NEW n \in Nat, Form(s, T, n),
         \A i \in 1..n : T[i] = U[i], NEW c \in Classes, U[n + 1] = c,
         SwitchNext(s, c) # "invalid"
  PROVE  Form(SwitchNext(s, c), U, n + 1)
<1>1. /\ First(U, n + 1) \in {1, 2}
      /\ n > 0 => First(U, n + 1) = First(T, n)
      /\ n = 0 => First(U, n + 1) = IF c = "sign" THEN 2 ELSE 1
  BY DEF First
<1>2. CASE s = "start"
  <2>1. n = 0
    BY <1>2 DEF Form
  <2>2. CASE c = "digit"
    BY <1>1, <1>2, <2>1, <2>2 DEF Form, SwitchNext, DigitsIn
  <2>3. CASE c = "sign"
    BY <1>1, <1>2, <2>1, <2>3 DEF Form, SwitchNext
  <2>4. CASE c = "dot"
    <3>1. FloatTo(U, n + 1)
      BY <1>1, <2>1, <2>4 DEF FloatTo, DigitsIn
    <3> QED BY <1>2, <2>4, <3>1 DEF Form, SwitchNext
  <2> QED BY <1>2, <2>2, <2>3, <2>4 DEF SwitchNext, Classes
<1>3. CASE s \in {"s1", "int"}
  <2>0. n > 0 /\ First(T, n) \in {1, 2} /\ First(U, n + 1) = First(T, n)
    <3>1. s = "s1" => n = 1
      BY DEF Form
    <3>2. s = "int" => First(T, n) <= n
      BY DEF Form
    <3>3. n > 0
      BY <1>3, <3>1, <3>2 DEF First
    <3> QED BY <1>1, <3>3 DEF First
  <2>1. First(U, n + 1) <= n + 1 /\ DigitsIn(U, First(U, n + 1), n)
    <3>1. CASE s = "s1"
      BY <2>0, <3>1 DEF Form, First, DigitsIn
    <3>2. CASE s = "int"
      <4>1. First(T, n) <= n /\ DigitsIn(T, First(T, n), n)
        BY <3>2 DEF Form
      <4> QED BY <2>0, <4>1 DEF DigitsIn
    <3> QED BY <1>3, <3>1, <3>2
  <2>2. CASE c = "digit"
    <3>1. DigitsIn(U, First(U, n + 1), n + 1)
      BY <2>0, <2>1, <2>2 DEF DigitsIn
    <3> QED BY <1>3, <2>1, <2>2, <3>1 DEF Form, SwitchNext
  <2>4. CASE c = "dot"
    <3>1. FloatTo(U, n + 1)
      BY <1>1, <2>1, <2>4 DEF FloatTo, DigitsIn
    <3> QED BY <1>3, <2>4, <3>1 DEF Form, SwitchNext
  <2> QED BY <1>3, <2>2, <2>4 DEF SwitchNext, Classes
<1>4. CASE s = "float"
  <2>1. FloatTo(T, n) /\ FloatTo(U, n)
    BY <1>4, FloatSame DEF Form
  <2>2. n > 0
    BY <2>1 DEF FloatTo, First
  <2>3. CASE c = "digit"
    <3>1. PICK k \in First(U, n)..n : U[k] = "dot" /\ DigitsIn(U, First(U, n), k - 1) /\ DigitsIn(U, k + 1, n)
      BY <2>1 DEF FloatTo
    <3>2. First(U, n + 1) = First(U, n)
      BY <2>2 DEF First
    <3>3. DigitsIn(U, k + 1, n + 1) /\ k \in First(U, n)..(n + 1)
      BY <1>1, <3>1, <3>2, <2>3 DEF DigitsIn
    <3>4. FloatTo(U, n + 1)
      BY <3>1, <3>2, <3>3 DEF FloatTo
    <3> QED BY <1>4, <2>3, <3>4 DEF Form, SwitchNext
  <2>4. CASE c = "exp"
    BY <1>4, <2>1, <2>2, <2>4 DEF Form, SwitchNext
  <2> QED BY <1>4, <2>3, <2>4 DEF SwitchNext, Classes
<1>5. CASE s = "s2"
  <2>1. n > 1 /\ T[n] = "exp" /\ FloatTo(T, n - 1)
    BY <1>5 DEF Form
  <2>2. FloatTo(U, n - 1) /\ U[n] = "exp"
    BY <2>1, FloatSame
  <2>3. c = "sign"
    BY <1>5 DEF SwitchNext
  <2> QED BY <1>5, <2>1, <2>2, <2>3 DEF Form, SwitchNext
<1>6. CASE s = "exponent"
  <2>1. n > 2 /\ T[n] = "sign" /\ T[n - 1] = "exp" /\ FloatTo(T, n - 2)
    BY <1>6 DEF Form
  <2>2. FloatTo(U, (n - 1) - 1) /\ U[n - 1] = "exp" /\ U[n] = "sign"
    BY <2>1, FloatSame
  <2>3. c = "digit"
    BY <1>6 DEF SwitchNext
  <2>4. DigitsIn(U, n + 1, n + 1)
    BY <2>3 DEF DigitsIn
  <2> QED BY <1>6, <2>1, <2>2, <2>3, <2>4 DEF Form, SwitchNext
<1>7. CASE s = "scientific"
  <2>1. PICK j \in 2..n : /\ T[j] = "exp" /\ FloatTo(T, j - 1)
                          /\ j + 1 < n /\ T[j + 1] = "sign" /\ DigitsIn(T, j + 2, n)
    BY <1>7 DEF Form
  <2>2. FloatTo(U, j - 1) /\ U[j] = "exp" /\ U[j + 1] = "sign"
    BY <2>1, FloatSame
  <2>3. c = "digit"
    BY <1>7 DEF SwitchNext
  <2>4. DigitsIn(U, j + 2, n + 1)
    BY <2>1, <2>3 DEF DigitsIn
  <2> QED BY <1>7, <2>1, <2>2, <2>3, <2>4 DEF Form, SwitchNext
<1> QED BY <1>2, <1>3, <1>4, <1>5, <1>6, <1>7 DEF ValidStates, States

\* A text that has the form of a state that ends a number is of no other.
LEMMA FormsDiffer ==
  ASSUME NEW s \in ValidStates, NEW T, NEW n \in Nat, Form(s, T, n)
  PROVE  /\ Form("start", T, n) => s = "start"
         /\ Form("int", T, n) => s = "int"
         /\ Form("float", T, n) => s = "float"
         /\ Form("scientific", T, n) => s = "scientific"
<1> DEFINE d == First(T, n)
<1>1. d \in {1, 2} /\ (n = 1 /\ T[1] = "sign" => d = 2)
  BY DEF First
<1>2. \A m \in 1..n : First(T, m) = d
  BY DEF First
<1>3. ASSUME NEW m \in 0..n, FloatTo(T, m)
      PROVE  m >= 1 /\ \E k \in d..m : T[k] = "dot" /\ \A i \in d..m : i # k => T[i] = "digit"
  <2>1. m >= 1
    BY <1>3 DEF FloatTo, First
  <2>2. PICK k \in d..m : T[k] = "dot" /\ DigitsIn(T, d, k - 1) /\ DigitsIn(T, k + 1, m)
    BY <1>2, <1>3, <2>1 DEF FloatTo
  <2> QED BY <1>1, <2>1, <2>2 DEF DigitsIn
<1> HIDE DEF d
<1>4. /\ s = "start" => n = 0
      /\ s = "s1" => n = 1 /\ d = 2
      /\ s = "int" => d <= n /\ \A i \in d..n : T[i] = "digit"
      /\ s = "float" => n >= 1 /\ \E k \in d..n : T[k] = "dot" /\ \A i \in d..n : i # k => T[i] = "digit"
      /\ s = "s2" => n > 1 /\ T[n] = "exp" /\ \E k \in d..(n - 1) : T[k] = "dot"
      /\ s = "exponent" => n > 2 /\ T[n] = "sign" /\ T[n - 1] = "exp" /\ \E k \in d..(n - 2) : T[k] = "dot"
      /\ s = "scientific" => \E j \in 2..n : /\ T[j] = "exp" /\ \E k \in d..(j - 1) : T[k] = "dot"
                                             /\ j + 1 < n /\ \A i \in (j + 2)..n : T[i] = "digit"
  <2>1. CASE s \in {"start", "s1", "int"}
    BY <1>1, <2>1 DEF Form, DigitsIn, d
  <2>2. CASE s = "float"
    BY <1>3, <2>2 DEF Form
  <2>3. CASE s = "s2"
    BY <1>3, <2>3 DEF Form
  <2>4. CASE s = "exponent"
    BY <1>3, <2>4 DEF Form
  <2>5. CASE s = "scientific"
    <3>1. PICK j \in 2..n : /\ T[j] = "exp" /\ FloatTo(T, j - 1)
                            /\ j + 1 < n /\ T[j + 1] = "sign" /\ DigitsIn(T, j + 2, n)
      BY <2>5 DEF Form
    <3>2. \E k \in d..(j - 1) : T[k] = "dot"
      BY <1>3, <3>1
    <3> QED BY <2>5, <3>1, <3>2 DEF DigitsIn
  <2> QED BY <2>1, <2>2, <2>3, <2>4, <2>5 DEF ValidStates, States
<1>5. Form("start", T, n) => s = "start"
  BY <1>1, <1>4 DEF Form, ValidStates, States
<1>6. ASSUME Form("int", T, n)  PROVE s = "int"
  <2>1. d <= n /\ \A i \in d..n : T[i] = "digit"
    BY <1>6 DEF Form, DigitsIn, d
  <2> QED BY <1>1, <1>4, <2>1 DEF ValidStates, States
<1>7. ASSUME Form("float", T, n)  PROVE s = "float"
  <2>1. PICK l \in d..n : T[l] = "dot" /\ \A i \in d..n : i # l => T[i] = "digit"
    BY <1>3, <1>7 DEF Form
  <2> QED BY <1>1, <1>4, <2>1 DEF ValidStates, States
<1>8. ASSUME Form("scientific", T, n)  PROVE s = "scientific"
  <2>1. PICK j \in 2..n : /\ T[j] = "exp" /\ FloatTo(T, j - 1)
                          /\ j + 1 < n /\ T[j + 1] = "sign" /\ DigitsIn(T, j + 2, n)
    BY <1>8 DEF Form
  <2>2. \E k \in d..(j - 1) : T[k] = "dot"
    BY <1>3, <2>1
  <2>3. T[n] = "digit"
    BY <2>1 DEF DigitsIn
  <2> QED BY <1>1, <1>4, <2>1, <2>2, <2>3 DEF ValidStates, States
<1> QED BY <1>5, <1>6, <1>7, <1>8

-----------------------------------------------------------------------------
\* The number behind the sign is the text without its first symbol or the text.
LEMMA UnsignedIs ==
  ASSUME NEW T \in Seq(Classes)
  PROVE  LET n == Len(T)
             d == First(T, n) - 1
         IN  /\ Unsigned(T) \in Seq(Classes) /\ Len(Unsigned(T)) = n - d
             /\ \A i \in 1..(n - d) : Unsigned(T)[i] = T[i + d]
<1>1. CASE Len(T) > 0 /\ T[1] = "sign"
  <2>1. T # <<>> /\ Unsigned(T) = Tail(T) /\ First(T, Len(T)) = 2
    BY <1>1 DEF Unsigned, First
  <2> QED BY <2>1, HeadTailProperties
<1>2. CASE ~(Len(T) > 0 /\ T[1] = "sign")
  <2>1. Unsigned(T) = T /\ First(T, Len(T)) = 1
    BY <1>2 DEF Unsigned, First
  <2> QED BY <2>1
<1> QED BY <1>1, <1>2
\* A part of a text is all digits when each of its symbols is one.
LEMMA AllDigitsOf ==
  ASSUME NEW S \in Seq(Classes), NEW a \in Nat, NEW b \in Nat, a >= 1, b <= Len(S)
  PROVE  AllDigits(SubSeq(S, a, b)) <=> DigitsIn(S, a, b)
<1>1. \A i \in a..b : S[i] \in Classes
  OBVIOUS
<1>2. /\ SubSeq(S, a, b) \in Seq(Classes)
      /\ Len(SubSeq(S, a, b)) = IF a <= b THEN b - a + 1 ELSE 0
      /\ \A i \in 1..(b - a + 1) : SubSeq(S, a, b)[i] = S[a + i - 1]
  BY <1>1, SubSeqProperties
<1>3. DOMAIN SubSeq(S, a, b) = 1..Len(SubSeq(S, a, b))
  BY <1>2
<1>4. ASSUME AllDigits(SubSeq(S, a, b)), NEW i \in a..b  PROVE S[i] = "digit"
  <2>1. i - a + 1 \in 1..(b - a + 1) /\ a + (i - a + 1) - 1 = i /\ a <= b
    OBVIOUS
  <2>2. SubSeq(S, a, b)[i - a + 1] = "digit"
    BY <1>2, <1>3, <1>4, <2>1 DEF AllDigits
  <2>3. SubSeq(S, a, b)[i - a + 1] = S[a + (i - a + 1) - 1]
    BY <1>2, <2>1
  <2> QED BY <2>1, <2>2, <2>3
<1>5. ASSUME DigitsIn(S, a, b), NEW i \in DOMAIN SubSeq(S, a, b)  PROVE SubSeq(S, a, b)[i] = "digit"
  <2>1. a <= b /\ i \in 1..(b - a + 1)
    BY <1>2, <1>3, <1>5
  <2>2. a + i - 1 \in a..b
    BY <2>1
  <2> QED BY <1>2, <1>5, <2>1, <2>2 DEF DigitsIn
<1> QED BY <1>4, <1>5 DEF AllDigits, DigitsIn

\* The first b symbols of a text are digits with a point among them.
LEMMA IsFloatOf ==
  ASSUME NEW S \in Seq(Classes), NEW b \in Nat, b <= Len(S)
  PROVE  IsFloat(SubSeq(S, 1, b)) <=> \E k \in 1..b : S[k] = "dot" /\ DigitsIn(S, 1, k - 1) /\ DigitsIn(S, k + 1, b)
<1> DEFINE R == SubSeq(S, 1, b)
<1>1. \A i \in 1..b : S[i] \in Classes
  OBVIOUS
<1>2. R \in Seq(Classes) /\ Len(R) = b /\ \A i \in 1..b : R[i] = S[i]
  <2>1. 1 \in Int /\ b \in Int
    OBVIOUS
  <2>2. /\ R \in Seq(Classes)
        /\ Len(R) = IF 1 <= b THEN b - 1 + 1 ELSE 0
        /\ \A i \in 1..(b - 1 + 1) : R[i] = S[1 + i - 1]
    BY ONLY <1>1, <2>1, SubSeqProperties
  <2> QED BY <2>2
<1> HIDE DEF R
<1>3. ASSUME NEW k \in 1..b
      PROVE  /\ AllDigits(SubSeq(R, 1, k - 1)) <=> DigitsIn(S, 1, k - 1)
             /\ AllDigits(SubSeq(R, k + 1, Len(R))) <=> DigitsIn(S, k + 1, b)
  <2>1. /\ AllDigits(SubSeq(R, 1, k - 1)) <=> DigitsIn(R, 1, k - 1)
        /\ AllDigits(SubSeq(R, k + 1, Len(R))) <=> DigitsIn(R, k + 1, b)
    BY <1>2, AllDigitsOf
  <2>2. /\ DigitsIn(R, 1, k - 1) <=> DigitsIn(S, 1, k - 1)
        /\ DigitsIn(R, k + 1, b) <=> DigitsIn(S, k + 1, b)
    BY <1>2 DEF DigitsIn
  <2> QED BY <2>1, <2>2
<1>4. DOMAIN R = 1..b
  BY <1>2
<1>5. IsFloat(R) <=> \E k \in 1..b : S[k] = "dot" /\ DigitsIn(S, 1, k - 1) /\ DigitsIn(S, k + 1, b)
  BY <1>2, <1>3, <1>4 DEF IsFloat
<1> QED BY <1>5 DEF R

\* The formats of the specification are the forms of the states that end a
\* number.
LEMMA FormatsAreForms ==
  ASSUME NEW T \in Seq(Classes)
  PROVE  LET n == Len(T) IN
         /\ T = <<>> <=> Form("start", T, n)
         /\ Unsigned(T) # <<>> /\ AllDigits(Unsigned(T)) <=> Form("int", T, n)
         /\ IsFloat(Unsigned(T)) <=> Form("float", T, n)
         /\ IsScientific(Unsigned(T)) <=> Form("scientific", T, n)
<1> DEFINE n == Len(T)
           d == First(T, n) - 1
           U == Unsigned(T)
<1>1. d \in {0, 1} /\ n \in Nat /\ First(T, n) = d + 1
  BY DEF First
<1>2. U \in Seq(Classes) /\ Len(U) = n - d /\ \A i \in 1..(n - d) : U[i] = T[i + d]
  BY UnsignedIs
<1>3. \A m \in 1..n : First(T, m) = d + 1
  BY DEF First
<1>4. T = <<>> <=> Form("start", T, n)
  BY DEF Form
<1> HIDE DEF n, d, U
<1>5. ASSUME NEW a \in 1..(n - d + 1), NEW b \in 0..(n - d)
      PROVE  DigitsIn(U, a, b) <=> DigitsIn(T, a + d, b + d)
  <2>1. ASSUME DigitsIn(U, a, b), NEW i \in (a + d)..(b + d)  PROVE T[i] = "digit"
    <3>1. i - d \in a..b /\ i - d \in 1..(n - d) /\ (i - d) + d = i
      BY <1>1
    <3>2. U[i - d] = T[(i - d) + d]
      BY <1>2, <3>1
    <3> QED BY <2>1, <3>1, <3>2 DEF DigitsIn
  <2>2. ASSUME DigitsIn(T, a + d, b + d), NEW i \in a..b  PROVE U[i] = "digit"
    <3>1. i + d \in (a + d)..(b + d) /\ i \in 1..(n - d)
      BY <1>1
    <3> QED BY <1>2, <2>2, <3>1 DEF DigitsIn
  <2> QED BY <2>1, <2>2 DEF DigitsIn
<1>6. U # <<>> /\ AllDigits(U) <=> Form("int", T, n)
  <2>1. AllDigits(U) <=> DigitsIn(U, 1, n - d)
    BY <1>1, <1>2 DEF AllDigits, DigitsIn
  <2>2. U # <<>> <=> n - d >= 1
    BY <1>1, <1>2
  <2>3. n - d >= 1 => (DigitsIn(U, 1, n - d) <=> DigitsIn(T, 1 + d, n - d + d))
    BY <1>1, <1>5
  <2>4. n - d + d = n
    BY <1>1
  <2> QED BY <1>1, <2>1, <2>2, <2>3, <2>4 DEF Form
<1>7. ASSUME NEW b \in 0..(n - d)
      PROVE  IsFloat(SubSeq(U, 1, b)) <=> b + d > 0 /\ FloatTo(T, b + d)
  <2>1. IsFloat(SubSeq(U, 1, b)) <=> \E k \in 1..b : U[k] = "dot" /\ DigitsIn(U, 1, k - 1) /\ DigitsIn(U, k + 1, b)
    BY <1>2, IsFloatOf
  <2>2. CASE b = 0
    <3>1. ~IsFloat(SubSeq(U, 1, b))
      BY <2>1, <2>2
    <3>2. b + d \in Nat /\ (b + d > 0 => First(T, b + d) = d + 1)
      BY <1>1, <1>3, <2>2
    <3> QED BY <1>1, <2>2, <3>1, <3>2 DEF FloatTo
  <2>3. CASE b > 0
    <3>1. b + d \in 1..n /\ First(T, b + d) = d + 1
      BY <1>1, <1>3, <2>3
    <3>2. ASSUME NEW k \in 1..b, U[k] = "dot" /\ DigitsIn(U, 1, k - 1) /\ DigitsIn(U, k + 1, b)
          PROVE  FloatTo(T, b + d)
      <4>1. k + d \in (d + 1)..(b + d) /\ T[k + d] = "dot"
        BY <1>1, <1>2, <3>2
      <4>2. DigitsIn(T, 1 + d, k - 1 + d) /\ DigitsIn(T, k + 1 + d, b + d)
        BY <1>1, <1>5, <3>2
      <4>3. 1 + d = d + 1 /\ k - 1 + d = (k + d) - 1 /\ k + 1 + d = (k + d) + 1
        BY <1>1
      <4> QED BY <3>1, <4>1, <4>2, <4>3 DEF FloatTo
    <3>3. ASSUME NEW l \in (d + 1)..(b + d), T[l] = "dot" /\ DigitsIn(T, d + 1, l - 1) /\ DigitsIn(T, l + 1, b + d)
          PROVE  \E k \in 1..b : U[k] = "dot" /\ DigitsIn(U, 1, k - 1) /\ DigitsIn(U, k + 1, b)
      <4>1. PICK k \in 1..b : k + d = l
        BY <1>1
      <4>2. U[k] = "dot"
        BY <1>1, <1>2, <3>3, <4>1
      <4>3. 1 + d = d + 1 /\ k - 1 + d = l - 1 /\ k + 1 + d = l + 1
        BY <1>1, <4>1
      <4>4. DigitsIn(U, 1, k - 1) /\ DigitsIn(U, k + 1, b)
        BY <1>1, <1>5, <3>3, <4>3
      <4> QED BY <4>2, <4>4
    <3> QED BY <1>1, <2>1, <2>3, <3>1, <3>2, <3>3 DEF FloatTo
  <2> QED BY <2>2, <2>3
<1>8. IsFloat(U) <=> Form("float", T, n)
  <2>1. n - d \in 0..(n - d) /\ n - d + d = n
    BY <1>1, <1>2
  <2>2. SubSeq(U, 1, n - d) = U
    BY <1>2, SubSeqFull
  <2>3. n = 0 => ~FloatTo(T, n)
    BY <1>1 DEF FloatTo
  <2>4. IsFloat(SubSeq(U, 1, n - d)) <=> (n - d) + d > 0 /\ FloatTo(T, (n - d) + d)
    BY <1>7, <2>1
  <2>5. Form("float", T, n) <=> FloatTo(T, n)
    BY DEF Form
  <2>6. IsFloat(U) <=> IsFloat(SubSeq(U, 1, n - d))
    BY <2>2
  <2>7. FloatTo(T, (n - d) + d) <=> FloatTo(T, n)
    BY <2>1
  <2>8. ((n - d) + d > 0) <=> n # 0
    BY <1>1, <2>1
  <2> QED BY <2>3, <2>4, <2>5, <2>6, <2>7, <2>8
<1>9. IsScientific(U) <=> Form("scientific", T, n)
  <2>1. ASSUME NEW k \in DOMAIN U, U[k] = "exp", IsFloat(SubSeq(U, 1, k - 1)),
               k + 1 < Len(U), U[k + 1] = "sign", AllDigits(SubSeq(U, k + 2, Len(U)))
        PROVE  Form("scientific", T, n)
    <3>0. k \in 1..(n - d) /\ k + 1 < n - d
      BY <1>2, <2>1
    <3>1. k + d \in 1..n /\ (k - 1) + d = (k + d) - 1 /\ k - 1 \in 0..(n - d)
      BY <1>1, <3>0
    <3>2. FloatTo(T, (k + d) - 1) /\ k + d \in 2..n
      <4>1. FloatTo(T, (k - 1) + d) /\ (k - 1) + d > 0
        BY <1>7, <2>1, <3>1
      <4> QED BY <1>1, <3>0, <3>1, <4>1
    <3>3. T[k + d] = "exp" /\ k + 1 + d = (k + d) + 1 /\ T[(k + d) + 1] = "sign"
      <4>1. U[k] = T[k + d] /\ U[k + 1] = T[k + 1 + d]
        BY <1>2, <3>0
      <4>2. k + 1 + d = (k + d) + 1
        BY <1>1, <3>0
      <4> QED BY <2>1, <4>1, <4>2
    <3>4. DigitsIn(U, k + 2, n - d)
      <4>1. k + 2 \in Nat /\ k + 2 >= 1 /\ Len(U) \in Nat /\ Len(U) = n - d
        BY <1>2, <3>0
      <4>2. DigitsIn(U, k + 2, Len(U))
        BY <1>2, <2>1, <4>1, AllDigitsOf
      <4> QED BY <4>1, <4>2
    <3>5. k + 2 + d = (k + d) + 2 /\ n - d + d = n /\ (k + d) + 1 < n
      BY <1>1, <3>0
    <3>6. DigitsIn(T, (k + d) + 2, n)
      <4>1. k + 2 \in 1..(n - d + 1) /\ n - d \in 0..(n - d)
        BY <1>1, <3>0
      <4> QED BY <1>5, <3>4, <3>5, <4>1
    <3> QED BY <3>2, <3>3, <3>5, <3>6 DEF Form
  <2>2. ASSUME NEW j \in 2..n, T[j] = "exp", FloatTo(T, j - 1),
               j + 1 < n, T[j + 1] = "sign", DigitsIn(T, j + 2, n)
        PROVE  IsScientific(U)
    <3>1. First(T, j - 1) <= j - 1
      BY <2>2 DEF FloatTo, First
    <3>2. First(T, j - 1) = d + 1
      BY <1>1, <1>3
    <3>3. PICK k \in 1..(n - d) : k + d = j
      BY <1>1, <3>1, <3>2
    <3>4. (k - 1) + d = j - 1 /\ k + 1 + d = j + 1 /\ k + 2 + d = j + 2 /\ n - d + d = n /\ k + 1 < n - d
      BY <1>1, <2>2, <3>3
    <3>5. IsFloat(SubSeq(U, 1, k - 1))
      BY <1>1, <1>7, <2>2, <3>3, <3>4
    <3>6. U[k] = "exp" /\ U[k + 1] = "sign"
      <4>1. U[k] = T[k + d] /\ U[k + 1] = T[k + 1 + d]
        BY <1>2, <3>3, <3>4
      <4> QED BY <2>2, <3>3, <3>4, <4>1
    <3>7. DigitsIn(U, k + 2, n - d)
      BY <1>1, <1>2, <1>5, <2>2, <3>3, <3>4
    <3>8. AllDigits(SubSeq(U, k + 2, Len(U)))
      BY <1>1, <1>2, <3>3, <3>4, <3>7, AllDigitsOf
    <3>9. k \in DOMAIN U /\ k + 1 < Len(U)
      BY <1>2, <3>4
    <3> QED BY <3>5, <3>6, <3>8, <3>9 DEF IsScientific
  <2> QED BY <2>1, <2>2 DEF IsScientific, Form
<1> QED BY <1>4, <1>6, <1>8, <1>9 DEF n, U

-----------------------------------------------------------------------------

\* The state is the one that the symbols of the token lead to.
ISpelling ==
  /\ p \in Nat /\ token \in 0..p /\ sw \in ValidStates
  /\ Form(sw, Text, p - token)
  /\ ~Scanning => p = 0 /\ token = 0 /\ sw = "start"
\* The text read so far has a class for each symbol of the token.
LEMMA TextType ==
  ASSUME p \in Nat, token \in 0..p
  PROVE  Text \in Seq(Classes) /\ Len(Text) = p - token
<1>1. \A i \in 1..(p - token) : Class(mem[token + i - 1]) \in Classes
  BY ClassOfByte
<1> QED BY <1>1 DEF Text
\* Nothing is read in CORE_START.
LEMMA InitSpelling == Init => ISpelling
  BY DEF Init, ISpelling, Form, Scanning, ValidStates, States
\* Each symbol keeps the form, the end of the token begins a new text.
LEMMA NextSpelling == ISpelling /\ [Next]_vars => ISpelling'
<1> SUFFICES ASSUME ISpelling, [Next]_vars PROVE ISpelling'
  OBVIOUS
<1>1. CASE ReadSymbol
  <2> DEFINE b == mem[p]
             next == IF b = Comma THEN sw ELSE SwitchNext(sw, Class(b))
  <2>1. /\ Scanning /\ sw' = StateAfter(next) /\ p' = p + 1 /\ pc' = pc /\ mem' = mem
        /\ token' = IF GoesOn(next) THEN token ELSE p'
    BY <1>1 DEF ReadSymbol
  <2>2. Scanning'
    BY <2>1 DEF Scanning
  <2>3. CASE GoesOn(next)
    <3>1. b # Comma /\ next = SwitchNext(sw, Class(b)) /\ next # "invalid"
      BY <2>3 DEF GoesOn
    <3>2. token' = token /\ sw' = SwitchNext(sw, Class(b))
      BY <2>1, <2>3, <3>1 DEF StateAfter
    <3>3. p - token \in Nat /\ p' \in Nat /\ token' \in 0..p' /\ p' - token' = (p - token) + 1
      BY <2>1, <3>2 DEF ISpelling
    <3>4. \A i \in 1..(p - token) : Text[i] = Text'[i]
      BY <2>1, <3>2, <3>3 DEF Text
    <3>5. Text'[(p - token) + 1] = Class(b)
      <4>1. token + ((p - token) + 1) - 1 = p /\ (p - token) + 1 \in 1..(p' - token')
        <5>1. p \in Nat /\ token \in Nat
          BY DEF ISpelling
        <5>2. \A a, c \in Nat : a - c \in Nat => c + ((a - c) + 1) - 1 = a /\ (a - c) + 1 \in 1..((a - c) + 1)
          OBVIOUS
        <5>3. token + ((p - token) + 1) - 1 = p /\ (p - token) + 1 \in 1..((p - token) + 1)
          BY <3>3, <5>1, <5>2
        <5> QED BY <3>3, <5>3
      <4>2. Text'[(p - token) + 1] = Class(mem'[token' + ((p - token) + 1) - 1])
        BY <4>1 DEF Text
      <4> QED BY <2>1, <3>2, <4>1, <4>2
    <3>6. Form(sw', Text', p' - token')
      <4>0. PICK c \in Classes : c = Class(b)
        BY ClassOfByte
      <4>1. PICK T, U : T = Text /\ U = Text'
        OBVIOUS
      <4>2. Form(SwitchNext(sw, c), U, (p - token) + 1)
        BY <3>1, <3>3, <3>4, <3>5, <4>0, <4>1, FormGrows DEF ISpelling
      <4> QED BY <3>2, <3>3, <4>0, <4>1, <4>2
    <3>7. sw' \in ValidStates
      BY <3>1, <3>2 DEF SwitchNext, ISpelling, ValidStates, States
    <3> QED BY <2>2, <3>3, <3>6, <3>7 DEF ISpelling
  <2>4. CASE ~GoesOn(next)
    <3>1. sw' = "start" /\ token' = p' /\ p' \in Nat /\ p' - token' = 0
      BY <2>1, <2>4 DEF StateAfter, ISpelling
    <3>2. Form("start", Text', 0)
      BY DEF Form
    <3> QED BY <2>2, <3>1, <3>2 DEF ISpelling, ValidStates, States
  <2> QED BY <2>3, <2>4
<1>2. CASE EndScan
  <2>1. p' = 0 /\ token' = 0 /\ sw' = "start"
    BY <1>2 DEF EndScan
  <2>2. Form("start", Text', 0)
    BY DEF Form
  <2> QED BY <2>1, <2>2 DEF ISpelling, ValidStates, States
<1>3. CASE Corrupt \/ Undo
  <2>1. p = 0 /\ token = 0 /\ sw = "start" /\ p' = p /\ token' = token /\ sw' = sw
    BY <1>3 DEF Corrupt, Undo, ISpelling, Scanning
  <2>2. Form("start", Text', 0)
    BY DEF Form
  <2> QED BY <2>1, <2>2 DEF ISpelling
<1>4. CASE Done \/ UNCHANGED vars
  BY <1>4 DEF Done, vars, params, ISpelling, Text, Scanning
<1> QED BY <1>1, <1>2, <1>3, <1>4 DEF Next

\* "trying to determine whether the input is a number or something else"
\* (core_state.c:42): in both scans the state names the format of the text read
\* so far, whatever the block, the seeds and the step.
THEOREM StatesNameFormats == Spec => []StateNamesFormat
<1>1. ISpelling => StateNamesFormat
  <2> SUFFICES ASSUME ISpelling  PROVE StateNamesFormat
    OBVIOUS
  <2>1. PICK T \in Seq(Classes) : T = Text /\ Len(T) = p - token
    BY TextType DEF ISpelling
  <2>2. PICK s \in ValidStates : s = sw
    BY DEF ISpelling
  <2>3. Form(s, T, Len(T)) /\ Len(T) \in Nat
    BY <2>1, <2>2 DEF ISpelling
  <2>4. /\ Form("start", T, Len(T)) => s = "start"
        /\ Form("int", T, Len(T)) => s = "int"
        /\ Form("float", T, Len(T)) => s = "float"
        /\ Form("scientific", T, Len(T)) => s = "scientific"
    BY <2>3, FormsDiffer
  <2>5. /\ T = <<>> <=> Form("start", T, Len(T))
        /\ Unsigned(T) # <<>> /\ AllDigits(Unsigned(T)) <=> Form("int", T, Len(T))
        /\ IsFloat(Unsigned(T)) <=> Form("float", T, Len(T))
        /\ IsScientific(Unsigned(T)) <=> Form("scientific", T, Len(T))
    BY FormatsAreForms
  <2>6. /\ s = "start" <=> T = <<>>
        /\ s = "int" <=> Unsigned(T) # <<>> /\ AllDigits(Unsigned(T))
        /\ s = "float" <=> IsFloat(Unsigned(T))
        /\ s = "scientific" <=> IsScientific(Unsigned(T))
    BY <2>3, <2>4, <2>5
  <2> QED BY <2>1, <2>2, <2>6 DEF StateNamesFormat
<1> QED BY InitSpelling, NextSpelling, <1>1, PTL DEF Spec

-----------------------------------------------------------------------------
(* core_init_state.  What it writes is defined by recursion.                  *)

\* A tuple is a sequence.
LEMMA FourOf ==
  ASSUME NEW S, NEW a \in S, NEW b \in S, NEW c \in S, NEW d \in S
  PROVE  <<a, b, c, d>> \in Seq(S)
  OBVIOUS

\* So is a longer one.
LEMMA EightOf ==
  ASSUME NEW S, NEW a \in S, NEW b \in S, NEW c \in S, NEW d \in S,
         NEW e \in S, NEW f \in S, NEW g \in S, NEW h \in S
  PROVE  <<a, b, c, d, e, f, g, h>> \in Seq(S)
  OBVIOUS

\* Width is a number, and SeedWords its predecessors.
LEMMA SeedsAreNumbers ==
  /\ Width \in Nat \ {0}
  /\ SeedWords = 0..Width - 1
  /\ \A seed \in SeedWords : seed \in Nat
<1>1. Width \in Nat \ {0}
  BY DEF Width
<1>2. SeedWords = 0..Width - 1
  BY DEF SeedWords
<1>3. ASSUME NEW seed \in SeedWords  PROVE seed \in Nat
  BY <1>1, <1>2
<1> QED BY <1>1, <1>2, <1>3

\* seed++ stays a 16-bit word.
LEMMA IncrementedType ==
  ASSUME NEW seed \in SeedWords, NEW k \in Nat
  PROVE  Incremented(seed, k) \in SeedWords
<1>1. PICK a \in Nat : a = seed + k
  BY SeedsAreNumbers
<1>2. a % Width \in 0..Width - 1
  BY SeedsAreNumbers
<1> QED BY <1>1, <1>2, SeedsAreNumbers DEF Incremented

\* The patterns are bytes.
LEMMA PatternType ==
  ASSUME NEW seed \in SeedWords
  PROVE  Pattern(seed) \in Seq(Bytes)
<1> DEFINE kind  == seed % 8
           which == ((seed \div 8) % 4) + 1
<1>1. kind \in 0..7 /\ which \in {1, 2, 3, 4}
  BY SeedsAreNumbers
<1> HIDE DEF kind, which
<1>2. \A w \in {1, 2, 3, 4} : intpat[w] \in Seq(Bytes)
  <2>1. 43 \in Bytes /\ 45 \in Bytes /\ 48 \in Bytes /\ 49 \in Bytes /\ 50 \in Bytes /\ 51 \in Bytes /\ 52 \in Bytes /\ 53 \in Bytes /\ 55 \in Bytes /\ 56 \in Bytes
    BY DEF Bytes
  <2>2. intpat[1] \in Seq(Bytes)
    <3>1. intpat[1] = <<53, 48, 49, 50>>
      BY DEF intpat
    <3> QED BY <2>1, <3>1, FourOf
  <2>3. intpat[2] \in Seq(Bytes)
    <3>1. intpat[2] = <<49, 50, 51, 52>>
      BY DEF intpat
    <3> QED BY <2>1, <3>1, FourOf
  <2>4. intpat[3] \in Seq(Bytes)
    <3>1. intpat[3] = <<45, 56, 55, 52>>
      BY DEF intpat
    <3> QED BY <2>1, <3>1, FourOf
  <2>5. intpat[4] \in Seq(Bytes)
    <3>1. intpat[4] = <<43, 49, 50, 50>>
      BY DEF intpat
    <3> QED BY <2>1, <3>1, FourOf
  <2> QED BY <2>2, <2>3, <2>4, <2>5
<1>3. \A w \in {1, 2, 3, 4} : floatpat[w] \in Seq(Bytes)
  <2>1. 43 \in Bytes /\ 45 \in Bytes /\ 46 \in Bytes /\ 48 \in Bytes /\ 49 \in Bytes /\ 50 \in Bytes /\ 51 \in Bytes /\ 52 \in Bytes /\ 53 \in Bytes /\ 54 \in Bytes /\ 55 \in Bytes
    BY DEF Bytes
  <2>2. floatpat[1] \in Seq(Bytes)
    <3>1. floatpat[1] = <<51, 53, 46, 53, 52, 52, 48, 48>>
      BY DEF floatpat
    <3> QED BY <2>1, <3>1, EightOf
  <2>3. floatpat[2] \in Seq(Bytes)
    <3>1. floatpat[2] = <<46, 49, 50, 51, 52, 53, 48, 48>>
      BY DEF floatpat
    <3> QED BY <2>1, <3>1, EightOf
  <2>4. floatpat[3] \in Seq(Bytes)
    <3>1. floatpat[3] = <<45, 49, 49, 48, 46, 55, 48, 48>>
      BY DEF floatpat
    <3> QED BY <2>1, <3>1, EightOf
  <2>5. floatpat[4] \in Seq(Bytes)
    <3>1. floatpat[4] = <<43, 48, 46, 54, 52, 52, 48, 48>>
      BY DEF floatpat
    <3> QED BY <2>1, <3>1, EightOf
  <2> QED BY <2>2, <2>3, <2>4, <2>5
<1>4. \A w \in {1, 2, 3, 4} : scipat[w] \in Seq(Bytes)
  <2>1. 43 \in Bytes /\ 45 \in Bytes /\ 46 \in Bytes /\ 48 \in Bytes /\ 49 \in Bytes /\ 50 \in Bytes /\ 51 \in Bytes /\ 53 \in Bytes /\ 54 \in Bytes /\ 55 \in Bytes /\ 56 \in Bytes /\ 101 \in Bytes
    BY DEF Bytes
  <2>2. scipat[1] \in Seq(Bytes)
    <3>1. scipat[1] = <<53, 46, 53, 48, 48, 101, 43, 51>>
      BY DEF scipat
    <3> QED BY <2>1, <3>1, EightOf
  <2>3. scipat[2] \in Seq(Bytes)
    <3>1. scipat[2] = <<45, 46, 49, 50, 51, 101, 45, 50>>
      BY DEF scipat
    <3> QED BY <2>1, <3>1, EightOf
  <2>4. scipat[3] \in Seq(Bytes)
    <3>1. scipat[3] = <<45, 56, 55, 101, 43, 56, 51, 50>>
      BY DEF scipat
    <3> QED BY <2>1, <3>1, EightOf
  <2>5. scipat[4] \in Seq(Bytes)
    <3>1. scipat[4] = <<43, 48, 46, 54, 101, 45, 49, 50>>
      BY DEF scipat
    <3> QED BY <2>1, <3>1, EightOf
  <2> QED BY <2>2, <2>3, <2>4, <2>5
<1>5. \A w \in {1, 2, 3, 4} : errpat[w] \in Seq(Bytes)
  <2>1. 43 \in Bytes /\ 45 \in Bytes /\ 46 \in Bytes /\ 48 \in Bytes /\ 49 \in Bytes /\ 51 \in Bytes /\ 52 \in Bytes /\ 70 \in Bytes /\ 84 \in Bytes /\ 94 \in Bytes /\ 101 \in Bytes /\ 113 \in Bytes /\ 122 \in Bytes
    BY DEF Bytes
  <2>2. errpat[1] \in Seq(Bytes)
    <3>1. errpat[1] = <<84, 48, 46, 51, 101, 45, 49, 70>>
      BY DEF errpat
    <3> QED BY <2>1, <3>1, EightOf
  <2>3. errpat[2] \in Seq(Bytes)
    <3>1. errpat[2] = <<45, 84, 46, 84, 43, 43, 84, 113>>
      BY DEF errpat
    <3> QED BY <2>1, <3>1, EightOf
  <2>4. errpat[3] \in Seq(Bytes)
    <3>1. errpat[3] = <<49, 84, 51, 46, 52, 101, 52, 122>>
      BY DEF errpat
    <3> QED BY <2>1, <3>1, EightOf
  <2>5. errpat[4] \in Seq(Bytes)
    <3>1. errpat[4] = <<51, 52, 46, 48, 101, 45, 84, 94>>
      BY DEF errpat
    <3> QED BY <2>1, <3>1, EightOf
  <2> QED BY <2>2, <2>3, <2>4, <2>5
<1>6. Pattern(seed) \in {intpat[which], floatpat[which], scipat[which], errpat[which]}
  BY <1>1 DEF Pattern, kind, which
<1>7. ASSUME NEW text \in {intpat[which], floatpat[which], scipat[which], errpat[which]}
      PROVE  text \in Seq(Bytes)
  <2>1. PICK w \in {1, 2, 3, 4} : w = which
    BY <1>1
  <2>2. text \in {intpat[w], floatpat[w], scipat[w], errpat[w]}
    BY <2>1
  <2> QED BY ONLY <1>2, <1>3, <1>4, <1>5, <2>1, <2>2
<1> QED BY <1>6, <1>7

\* They are bytes of the text.
LEMMA PatternText ==
  ASSUME NEW seed \in SeedWords
  PROVE  Pattern(seed) \in Seq(TextBytes)
<1>1. Range(Pattern(seed)) \subseteq TextBytes
  BY DEF TextBytes
<1>2. \A i \in 1..Len(Pattern(seed)) : Pattern(seed)[i] \in TextBytes
  BY <1>1, PatternType DEF Range
<1> QED BY <1>2, PatternType, SeqDef

\* And the text is bytes.
LEMMA TextBytesAreBytes == TextBytes \subseteq Bytes
<1>1. ASSUME NEW seed \in SeedWords  PROVE Range(Pattern(seed)) \subseteq Bytes
  BY PatternType DEF Range
<1> QED BY <1>1 DEF TextBytes, Bytes, Comma

\* What Filled holds after each pattern.
Filling == Seq(TextBytes) \X BOOLEAN

\* A text and whether it goes on.
LEMMA FillingIs ==
  /\ \A text \in Seq(TextBytes), more \in BOOLEAN : <<text, more>> \in Filling
  /\ \A before \in Filling : before[1] \in Seq(TextBytes) /\ before[2] \in BOOLEAN
  BY DEF Filling

\* A pattern leaves the text as it was or adds bytes up to size - 2.
LEMMA AppendedType ==
  ASSUME NEW sz \in Nat, NEW seed \in SeedWords, NEW k \in Nat, NEW before \in Filling
  PROVE  /\ Appended(sz, seed, k, before) \in Filling
         /\ Len(before[1]) <= sz - 2 => Len(Appended(sz, seed, k, before)[1]) <= sz - 2
<1> DEFINE buf == Pattern(Incremented(seed, k))
           text == before[1]
<1>1. buf \in Seq(TextBytes)
  BY PatternText, IncrementedType
<1>2. text \in Seq(TextBytes) /\ Len(text) \in Nat /\ before[2] \in BOOLEAN
  BY DEF Filling
<1> HIDE DEF buf, text
<1>3. text \o buf \o <<Comma>> \in Seq(TextBytes) /\ Len(text \o buf \o <<Comma>>) = Len(text) + Len(buf) + 1
  <2>1. Comma \in TextBytes /\ <<Comma>> \in Seq(TextBytes) /\ Len(<<Comma>>) = 1
    BY DEF TextBytes
  <2>2. text \o buf \in Seq(TextBytes) /\ Len(text \o buf) = Len(text) + Len(buf)
    BY <1>1, <1>2, ConcatProperties
  <2> QED BY <2>1, <2>2, ConcatProperties
<1>4. CASE before[2] /\ Fits(sz, text, buf)
  <2>1. Appended(sz, seed, k, before) = <<text \o buf \o <<Comma>>, TRUE>>
    BY <1>4 DEF Appended, buf, text
  <2>2. Len(text) + Len(buf) + 1 < sz - 1
    BY <1>4 DEF Fits
  <2>3. Len(buf) \in Nat
    BY <1>1
  <2>4. Len(text) + Len(buf) + 1 <= sz - 2
    BY <1>2, <2>2, <2>3
  <2>5. <<text \o buf \o <<Comma>>, TRUE>> \in Filling
    BY <1>3, FillingIs, Zenon
  <2> QED BY <1>3, <2>1, <2>4, <2>5 DEF text
<1>5. CASE ~(before[2] /\ Fits(sz, text, buf))
  <2>1. Appended(sz, seed, k, before) = <<text, FALSE>>
    BY <1>5 DEF Appended, buf, text
  <2>2. <<text, FALSE>> \in Filling
    BY <1>2, FillingIs, Zenon
  <2> QED BY <2>1, <2>2 DEF text
<1> QED BY <1>4, <1>5

\* The recursive definition of Filled has a solution: Filled is it.
LEMMA FilledIs ==
  ASSUME NEW sz \in Nat, NEW seed \in SeedWords
  PROVE  Filled(sz, seed) =
           [k \in Nat |-> IF k = 0 THEN <<<<>>, TRUE>> ELSE Appended(sz, seed, k, Filled(sz, seed)[k - 1])]
<1> DEFINE g == [x \in Nat \X Filling |-> Appended(sz, seed, x[1], x[2])]
<1>1. <<<<>>, TRUE>> \in Filling
  <2>1. <<>> \in Seq(TextBytes)
    OBVIOUS
  <2> QED BY <2>1, FillingIs, Zenon
<1>2. g \in [Nat \X Filling -> Filling]
  BY AppendedType
<1>3. \A k \in Nat, x \in Filling : g[<<k, x>>] = Appended(sz, seed, k, x)
  OBVIOUS
<1> HIDE DEF g
<1>4. PICK f : AllSteps(Filling, <<<<>>, TRUE>>, g, f)
  BY <1>1, <1>2, Recursion
<1>5. ASSUME NEW k \in Nat, k # 0  PROVE f[k] = Appended(sz, seed, k, f[k - 1])
  <2>1. k - 1 \in Nat /\ (k - 1) + 1 = k
    BY <1>5
  <2>2. f[k - 1] \in Filling /\ f[(k - 1) + 1] = g[<<(k - 1) + 1, f[k - 1]>>]
    BY <1>4, <2>1 DEF AllSteps
  <2> QED BY <1>3, <2>1, <2>2
<1>6. f = [k \in Nat |-> IF k = 0 THEN <<<<>>, TRUE>> ELSE Appended(sz, seed, k, f[k - 1])]
  BY <1>4, <1>5 DEF AllSteps
<1> QED BY <1>6 DEF Filled

\* However many patterns are tried, the text ends below size - 2.
LEMMA FilledType ==
  ASSUME NEW sz \in Nat \ {0, 1}, NEW seed \in SeedWords, NEW n \in Nat
  PROVE  Filled(sz, seed)[n] \in Filling /\ Len(Filled(sz, seed)[n][1]) <= sz - 2
<1> DEFINE F == Filled(sz, seed)
           S == {k \in Nat : F[k] \in Filling /\ Len(F[k][1]) <= sz - 2}
<1>1. F = [k \in Nat |-> IF k = 0 THEN <<<<>>, TRUE>> ELSE Appended(sz, seed, k, F[k - 1])]
  BY FilledIs
<1> HIDE DEF F
<1>2. 0 \in S
  <2>1. F[0] = <<<<>>, TRUE>>
    BY <1>1
  <2>2. <<>> \in Seq(TextBytes) /\ Len(<<>>) = 0
    OBVIOUS
  <2>3. <<<<>>, TRUE>> \in Filling
    BY <2>2, FillingIs, Zenon
  <2>4. F[0][1] = <<>>
    BY <2>1
  <2>5. F[0] \in Filling /\ Len(F[0][1]) = 0
    BY <2>1, <2>2, <2>3, <2>4, Zenon
  <2>6. 0 <= sz - 2
    OBVIOUS
  <2> QED BY <2>5, <2>6
<1>3. ASSUME NEW k \in S  PROVE k + 1 \in S
  <2>1. F[k + 1] = Appended(sz, seed, k + 1, F[k])
    <3>1. k + 1 \in Nat /\ k + 1 # 0 /\ (k + 1) - 1 = k
      OBVIOUS
    <3> QED BY <1>1, <3>1
  <2> QED BY <2>1, AppendedType
<1> HIDE DEF S
<1>4. S \in SUBSET Nat
  BY DEF S
<1>5. S = Nat
  BY <1>2, <1>3, <1>4, Induction
<1> QED BY <1>5 DEF S, F

\* core_init_state leaves two zeros at least at the end of the block.
LEMMA TwoZeros ==
  ASSUME NEW sz \in Nat \ {0, 1}, NEW seed \in SeedWords
  PROVE  /\ core_init_state(sz, seed) \in [0..(sz - 1) -> TextBytes]
         /\ core_init_state(sz, seed)[sz - 1] = 0
         /\ core_init_state(sz, seed)[sz - 2] = 0
<1>1. PICK text : text = Written(sz, seed)
  OBVIOUS
<1>2. text \in Seq(TextBytes) /\ Len(text) <= sz - 2
  BY <1>1, FilledType DEF Written, Filling
<1>3. core_init_state(sz, seed) = [i \in 0..(sz - 1) |-> IF i < Len(text) THEN text[i + 1] ELSE 0]
  BY <1>1 DEF core_init_state
<1>4. 0 \in TextBytes
  BY DEF TextBytes
<1>5. \A i \in 0..(sz - 1) : i < Len(text) => text[i + 1] \in TextBytes
  BY <1>2
<1>6. sz - 1 \in 0..(sz - 1) /\ sz - 2 \in 0..(sz - 1) /\ ~(sz - 1 < Len(text)) /\ ~(sz - 2 < Len(text))
  BY <1>2
<1> QED BY <1>3, <1>4, <1>5, <1>6

-----------------------------------------------------------------------------

\* What the corruption by a seed leaves of a block m.
FlipOf(m, seed) ==
  [i \in Offsets |-> IF i % step = 0 /\ m[i] # Comma THEN ByteXor(m[i], seed % 256) ELSE m[i]]

\* The corruption turns no byte into a comma.
NoNewComma == \A i \in Offsets : FlipOf(orig, seed1)[i] = Comma => orig[i] = Comma

\* The block is the one that core_init_state wrote up to the corruption, the
\* corrupted one up to the undo, and then the undone one.
IBlock ==
  /\ pc \in {"scan", "corrupt", "rescan", "undo", "done"}
  /\ pc \in {"scan", "corrupt"} => mem = orig
  /\ pc \in {"rescan", "undo"} => mem = FlipOf(orig, seed1)
  /\ pc = "done" => mem = FlipOf(FlipOf(orig, seed1), seed2)

\* The block is new.
LEMMA InitBlock == Init => IBlock
  BY DEF Init, IBlock

\* Scans leave the block alone; corruption and undo flip it once each.
LEMMA NextBlock == IBlock /\ [Next]_vars => IBlock'
<1> SUFFICES ASSUME IBlock, [Next]_vars PROVE IBlock'
  OBVIOUS
<1> USE DEF IBlock, params, FlipOf, Offsets
<1>1. CASE ReadSymbol
  BY <1>1 DEF ReadSymbol, Scanning
<1>2. CASE EndScan
  BY <1>2 DEF EndScan, Scanning
<1>3. CASE Corrupt
  BY <1>3 DEF Corrupt, Flip
<1>4. CASE Undo
  BY <1>4 DEF Undo, Flip
<1>5. CASE Done \/ UNCHANGED vars
  BY <1>5 DEF Done, vars
<1> QED BY <1>1, <1>2, <1>3, <1>4, <1>5 DEF Next

\* (ee_u8)seed
LEMMA LowByte == ASSUME NEW seed \in SeedWords PROVE seed % 256 \in Bytes
  BY SeedsAreNumbers DEF Bytes

\* ByteXor is its own inverse on bytes.
LEMMA XorTwice ==
  ASSUME NEW b \in Bytes, NEW c \in Bytes PROVE ByteXor(ByteXor(b, c), c) = b
  BY XorAssumption

\* With equal seeds, flipping twice restores every byte.
LEMMA FlipTwice ==
  ASSUME orig \in [Offsets -> TextBytes], seed1 \in SeedWords, NoNewComma
  PROVE  FlipOf(FlipOf(orig, seed1), seed1) = orig
<1>1. seed1 % 256 \in Bytes
  BY LowByte
<1> DEFINE once  == FlipOf(orig, seed1)
           twice == FlipOf(once, seed1)
<1>2. ASSUME NEW i \in Offsets PROVE twice[i] = orig[i]
  <2>1. once[i] = IF i % step = 0 /\ orig[i] # Comma THEN ByteXor(orig[i], seed1 % 256) ELSE orig[i]
    BY DEF FlipOf
  <2>2. twice[i] = IF i % step = 0 /\ once[i] # Comma THEN ByteXor(once[i], seed1 % 256) ELSE once[i]
    BY DEF FlipOf
  <2>3. orig[i] \in Bytes
    BY TextBytesAreBytes
  <2>4. ByteXor(ByteXor(orig[i], seed1 % 256), seed1 % 256) = orig[i]
    BY <1>1, <2>3, XorTwice, Zenon
  <2>5. once[i] = Comma => orig[i] = Comma
    BY DEF NoNewComma
  <2> QED BY <2>1, <2>2, <2>4, <2>5
<1>3. twice = [i \in Offsets |-> twice[i]]
  BY DEF FlipOf
<1>4. orig = [i \in Offsets |-> orig[i]]
  OBVIOUS
<1> HIDE DEF twice
<1>5. twice = orig
  BY <1>2, <1>3, <1>4
<1> QED BY <1>5 DEF twice

-----------------------------------------------------------------------------

\* The block that core_init_state wrote is text, and its last two bytes are
\* zero.
IText ==
  /\ size \in Sizes /\ seed1 \in Seeds /\ seed2 \in Seeds /\ step \in Steps
  /\ size \in Nat \ {0, 1} /\ seed1 \in SeedWords /\ seed2 \in SeedWords /\ step \in Nat /\ step >= 34
  /\ orig \in [Offsets -> TextBytes] /\ orig[size - 1] = 0 /\ orig[size - 2] = 0

\* core_init_state leaves them.
LEMMA InitText == Init => IText
<1> SUFFICES ASSUME Init PROVE IText
  OBVIOUS
<1>1. size \in Nat \ {0, 1} /\ seed1 \in SeedWords /\ seed2 \in SeedWords /\ step \in Nat /\ step >= 34
  BY StateAssumption DEF Init
<1>2. orig = core_init_state(size, seed1)
  BY DEF Init
<1>3. PICK n \in Nat \ {0, 1}, s \in SeedWords : n = size /\ s = seed1
  BY <1>1
<1>4. orig \in [0..(n - 1) -> TextBytes] /\ orig[n - 1] = 0 /\ orig[n - 2] = 0
  BY <1>2, <1>3, TwoZeros
<1>5. orig \in [Offsets -> TextBytes] /\ orig[size - 1] = 0 /\ orig[size - 2] = 0
  BY <1>3, <1>4 DEF Offsets
<1>6. size \in Sizes /\ seed1 \in Seeds /\ seed2 \in Seeds /\ step \in Steps
  BY DEF Init
<1> HIDE DEF Init
<1> QED BY ONLY <1>1, <1>5, <1>6 DEF IText

\* No step writes what core_init_state wrote.
LEMMA NextText == IText /\ [Next]_vars => IText'
<1> SUFFICES ASSUME IText, [Next]_vars PROVE IText'
  OBVIOUS
<1>1. UNCHANGED params
  BY DEF Next, vars, ReadSymbol, EndScan, Corrupt, Undo, Done
<1> QED BY <1>1 DEF IText, params, Offsets

\* Of two places next to each other the corruption hits one at most.
LEMMA HitsOne ==
  ASSUME NEW n \in Nat, NEW s \in Nat, s >= 34, n % s = 0
  PROVE  (n + 1) % s # 0
<1>1. SUFFICES ASSUME (n + 1) % s = 0 PROVE FALSE
  OBVIOUS
<1>2. PICK q \in Int : n = s * q
  <2>1. n = s * (n \div s) + (n % s) /\ n \div s \in Int
    OBVIOUS
  <2> QED BY <2>1
<1>3. PICK r \in Int : n + 1 = s * r
  <2>1. n + 1 = s * ((n + 1) \div s) + ((n + 1) % s) /\ (n + 1) \div s \in Int
    OBVIOUS
  <2> QED BY <1>1, <2>1
<1>4. s * (r - q) = 1
  BY <1>2, <1>3
<1>5. CASE r - q <= 0
  <2>1. s * (r - q) <= 0
    BY <1>5
  <2> QED BY <1>4, <2>1
<1>6. CASE r - q >= 1
  <2>1. s * (r - q) >= s
    BY <1>6
  <2> QED BY <1>4, <2>1
<1> QED BY <1>5, <1>6

\* A zero lies ahead, and in the second scan one that the corruption missed.
IZeroAhead ==
  /\ p \in Nat
  /\ ~Scanning => p = 0
  /\ \E n \in p..(size - 1) : orig[n] = 0 /\ (pc = "rescan" => n % step # 0)

\* The zero that the second scan stops at is in the block still.
LEMMA ZeroStays ==
  ASSUME IText, IBlock, NEW n \in Offsets, orig[n] = 0, pc = "rescan" => n % step # 0, Scanning
  PROVE  mem[n] = 0
  BY DEF IBlock, FlipOf, Scanning

\* The first zero is the last byte of the block.
LEMMA InitZeroAhead == Init => IZeroAhead
<1> SUFFICES ASSUME Init PROVE IZeroAhead
  OBVIOUS
<1>1. size - 1 \in 0..(size - 1) /\ orig[size - 1] = 0
  BY InitText DEF IText
<1> QED BY <1>1 DEF Init, IZeroAhead, Scanning

\* No scan passes a zero, and the corruption misses one of the last two.
LEMMA NextZeroAhead == IText /\ IBlock /\ IZeroAhead /\ [Next]_vars => IZeroAhead'
<1> SUFFICES ASSUME IText, IBlock, IZeroAhead, [Next]_vars PROVE IZeroAhead'
  OBVIOUS
<1>0. size \in Nat \ {0, 1} /\ step \in Nat /\ step >= 34 /\ orig[size - 1] = 0 /\ orig[size - 2] = 0
  BY DEF IText
<1>1. CASE ReadSymbol
  <2>1. /\ Scanning /\ mem[p] # 0 /\ p' = p + 1 /\ pc' = pc
        /\ size' = size /\ orig' = orig /\ step' = step
    BY <1>1 DEF ReadSymbol, params
  <2>2. PICK n \in p..(size - 1) : orig[n] = 0 /\ (pc = "rescan" => n % step # 0)
    BY DEF IZeroAhead
  <2>3. n \in Offsets /\ p \in Nat
    BY <1>0 DEF IZeroAhead, Offsets
  <2>4. n # p
    BY <2>1, <2>2, <2>3, ZeroStays
  <2>5. n \in (p + 1)..(size - 1)
    BY <1>0, <2>3, <2>4
  <2>6. Scanning'
    BY <2>1 DEF Scanning
  <2> QED BY <2>1, <2>2, <2>3, <2>5, <2>6 DEF IZeroAhead
<1>2. CASE EndScan
  <2>1. p' = 0 /\ pc' \in {"corrupt", "undo"} /\ size' = size /\ orig' = orig /\ step' = step
    BY <1>2 DEF EndScan, params
  <2>2. size - 1 \in 0..(size - 1)
    BY <1>0
  <2> QED BY <1>0, <2>1, <2>2 DEF IZeroAhead, Scanning
<1>3. CASE Corrupt
  <2>1. p' = p /\ p = 0 /\ pc' = "rescan" /\ size' = size /\ orig' = orig /\ step' = step
    BY <1>3 DEF Corrupt, params, IZeroAhead, Scanning
  <2>2. size - 1 \in 0..(size - 1) /\ size - 2 \in 0..(size - 1) /\ size - 2 \in Nat /\ (size - 2) + 1 = size - 1
    BY <1>0
  <2>3. (size - 2) % step = 0 => (size - 1) % step # 0
    BY <1>0, <2>2, HitsOne
  <2>4. \E n \in 0..(size - 1) : orig[n] = 0 /\ n % step # 0
    BY <1>0, <2>2, <2>3
  <2> QED BY <2>1, <2>4 DEF IZeroAhead, Scanning
<1>4. CASE Undo
  <2>1. p' = p /\ p = 0 /\ pc' = "done" /\ size' = size /\ orig' = orig /\ step' = step
    BY <1>4 DEF Undo, params, IZeroAhead, Scanning
  <2>2. size - 1 \in 0..(size - 1)
    BY <1>0
  <2> QED BY <1>0, <2>1, <2>2 DEF IZeroAhead, Scanning
<1>5. CASE Done \/ UNCHANGED vars
  BY <1>5 DEF Done, vars, params, IZeroAhead, Scanning
<1> QED BY <1>1, <1>2, <1>3, <1>4, <1>5 DEF Next

\* Both scans stop inside the block, whatever its size, the seeds and the
\* step: the second scan finds a zero although the corruption may have hit one
\* at the end (core_state.c:73, :91).
THEOREM ScansStop == Spec => []ScansInside
<1>1. IText /\ IBlock /\ IZeroAhead => ScansInside
  <2> SUFFICES ASSUME IText, IBlock, IZeroAhead PROVE ScansInside
    OBVIOUS
  <2>1. PICK n \in p..(size - 1) : orig[n] = 0 /\ (pc = "rescan" => n % step # 0)
    BY DEF IZeroAhead
  <2>2. size \in Nat /\ p \in Nat
    BY DEF IText, IZeroAhead
  <2>3. n \in Offsets /\ p \in Offsets
    BY <2>2 DEF Offsets
  <2>4. pc = "rescan" => mem[n] = 0
    BY <2>1, <2>3, ZeroStays DEF Scanning
  <2> QED BY <2>3, <2>4 DEF ScansInside
<1> QED BY InitText, NextText, InitBlock, NextBlock, InitZeroAhead, NextZeroAhead, <1>1, PTL DEF Spec

-----------------------------------------------------------------------------

\* The corruption makes bytes of bytes.
LEMMA FlipType ==
  ASSUME NEW seed \in SeedWords, NEW m \in [Offsets -> Bytes]
  PROVE  FlipOf(m, seed) \in [Offsets -> Bytes]
<1>1. seed % 256 \in Bytes
  BY LowByte
<1>2. \A i \in Offsets : m[i] \in Bytes /\ ByteXor(m[i], seed % 256) \in Bytes
  BY <1>1, XorAssumption
<1> QED BY <1>2 DEF FlipOf

\* The block keeps its bytes, the positions and the states their ranges.
THEOREM TypeCorrect == Spec => []TypeOK
<1>1. IMachines /\ ISpelling /\ IText /\ IBlock => TypeOK
  <2> SUFFICES ASSUME IMachines, ISpelling, IText, IBlock PROVE TypeOK
    OBVIOUS
  <2>1. orig \in [Offsets -> Bytes] /\ seed1 \in SeedWords /\ seed2 \in SeedWords
    BY TextBytesAreBytes DEF IText
  <2>2. FlipOf(orig, seed1) \in [Offsets -> Bytes]
    BY <2>1, FlipType
  <2>3. FlipOf(FlipOf(orig, seed1), seed2) \in [Offsets -> Bytes]
    BY <2>1, <2>2, FlipType
  <2>4. mem \in [Offsets -> Bytes] /\ pc \in {"scan", "corrupt", "rescan", "undo", "done"}
    BY <2>1, <2>2, <2>3 DEF IBlock
  <2>5. sw \in States /\ tb \in States /\ p \in Nat /\ token \in 0..p
    BY DEF IMachines, ISpelling, ValidStates
  <2>6. size \in Sizes /\ seed1 \in Seeds /\ seed2 \in Seeds /\ step \in Steps
    BY DEF IText
  <2>7. p \in Nat /\ token \in 0..p /\ orig \in [Offsets -> Bytes] /\ sw \in States /\ tb \in States
    BY <2>1, <2>5
  <2> QED BY ONLY <2>4, <2>6, <2>7 DEF TypeOK
<1> QED BY InitMachines, NextMachines, InitSpelling, NextSpelling, InitText, NextText, InitBlock, NextBlock, <1>1, PTL DEF Spec

-----------------------------------------------------------------------------

\* Equal seeds restore the block.
UndoneUnlessComma == pc = "done" /\ seed1 = seed2 /\ NoNewComma => mem = orig

\* "undo corruption is seed1 and seed2 are equal" (core_state.c:102), for
\* every size, step and seed of which no byte of this block becomes a comma.
THEOREM UndoRestores == Spec => []UndoneUnlessComma
<1>1. IText /\ IBlock => UndoneUnlessComma
  BY FlipTwice DEF IBlock, IText, UndoneUnlessComma
<1> QED BY InitText, NextText, InitBlock, NextBlock, <1>1, PTL DEF Spec

\* The next iteration finds the block that core_init_state wrote, of every size
\* and with every step, when the seeds make a comma of no byte that
\* core_init_state writes, as those of the presets.
THEOREM SeedsRestore ==
  ASSUME SparesCommas PROVE Spec => []CorruptionUndone
<1>1. IText => NoNewComma
  <2> SUFFICES ASSUME IText, NEW i \in Offsets, FlipOf(orig, seed1)[i] = Comma PROVE orig[i] = Comma
    BY DEF NoNewComma
  <2>1. FlipOf(orig, seed1)[i] = IF i % step = 0 /\ orig[i] # Comma THEN ByteXor(orig[i], seed1 % 256) ELSE orig[i]
    BY DEF FlipOf
  <2>2. orig[i] \in TextBytes /\ seed1 \in Seeds
    BY DEF IText
  <2> QED BY <2>1, <2>2, SparesCommas DEF SparesCommas
<1>2. NoNewComma /\ UndoneUnlessComma => CorruptionUndone
  BY DEF UndoneUnlessComma, CorruptionUndone
<1> QED BY InitText, NextText, UndoRestores, <1>1, <1>2, PTL DEF Spec

-----------------------------------------------------------------------------
(* The list benchmark (CoreList).  Division, by lemmas for what is the      *)
(* multiple of a name.                                                     *)

\* x is its quotient times w and its remainder.
LEMMA DivMod ==
  ASSUME NEW x \in Nat, NEW w \in Nat, w # 0
  PROVE  x \div w \in Nat /\ x % w \in 0..w - 1 /\ x = (x \div w) * w + (x % w)
  OBVIOUS

\* Multiples of w are w apart.
LEMMA TimesApart ==
  ASSUME NEW k \in Nat, NEW j \in Nat, k < j, NEW w \in Nat
  PROVE  k * w + w <= j * w
<1>1. (j - k - 1) * w >= 0
  OBVIOUS
<1>2. (j - k - 1) * w = j * w - k * w - w
  OBVIOUS
<1>3. k * w \in Nat /\ j * w \in Nat
  OBVIOUS
<1> QED BY <1>1, <1>2, <1>3

\* Quotient and remainder are the only ones.
LEMMA DivModIs ==
  ASSUME NEW k \in Nat, NEW j \in Nat, NEW w \in Nat, j < w
  PROVE  (k * w + j) \div w = k /\ (k * w + j) % w = j
<1>0. k * w \in Nat
  OBVIOUS
<1>1. PICK x \in Nat : x = k * w + j
  BY <1>0
<1>2. PICK d \in Nat, m \in 0..w - 1 : d = x \div w /\ m = x % w /\ x = d * w + m
  BY DivMod
<1>3. ~(d < k) /\ ~(k < d)
  <2>0. d * w \in Nat
    OBVIOUS
  <2>1. d < k => d * w + w <= k * w
    BY TimesApart
  <2>2. k < d => k * w + w <= d * w
    BY TimesApart
  <2> QED BY <1>0, <1>1, <1>2, <2>0, <2>1, <2>2
<1>4. d = k
  BY <1>3
<1>5. m = j
  BY <1>0, <1>1, <1>2, <1>4
<1> QED BY <1>1, <1>2, <1>4, <1>5

-----------------------------------------------------------------------------
(* The sort.                                                               *)

\* r has the items of s in another order.
Shuffles(r, s) ==
  Len(r) = Len(s) /\ \E f \in Injection(1..Len(s), 1..Len(s)) : \A n \in 1..Len(s) : r[n] = s[f[n]]

KeyOf(key, S) == \A x \in S : key[x] \in Int

\* no item is before the one ahead of it
InOrder(s, key) == \A n \in 1..Len(s) - 1 : key[s[n]] <= key[s[n + 1]]

\* the runs of wide items are in order
RunsInOrder(s, wide, key) == \A n \in 1..Len(s) - 1 : n % wide # 0 => key[s[n]] <= key[s[n + 1]]

\* the item of z goes first when some of z are left and those of q are done, or not before
TakesFirst(z, q, key, a, b) == a < Len(z) /\ (b = Len(q) \/ key[z[a + 1]] <= key[q[b + 1]])

\* took counts from step to step
Counts(z, q, key, took) ==
  /\ took[0] = 0
  /\ \A n \in Nat : /\ took[n] \in Nat
                    /\ took[n + 1] = IF TakesFirst(z, q, key, took[n], n - took[n]) THEN took[n] + 1 ELSE took[n]

\* The recursive definition of FromFirst has a solution: FromFirst is it.
LEMMA FromFirstIs ==
  ASSUME NEW z, NEW q, NEW key
  PROVE  Counts(z, q, key, FromFirst(z, q, key))
<1> DEFINE g == [x \in Nat \X Nat |-> IF TakesFirst(z, q, key, x[2], x[1] - 1 - x[2]) THEN x[2] + 1 ELSE x[2]]
<1>1. g \in [Nat \X Nat -> Nat]
  OBVIOUS
<1>2. \A n \in Nat, a \in Nat : g[<<n, a>>] = IF TakesFirst(z, q, key, a, n - 1 - a) THEN a + 1 ELSE a
  OBVIOUS
<1> HIDE DEF g
<1>3. PICK f : AllSteps(Nat, 0, g, f)
  BY <1>1, Recursion
<1>4. ASSUME NEW n \in Nat, n # 0
      PROVE  f[n] = IF TakesFirst(z, q, key, f[n - 1], n - 1 - f[n - 1]) THEN f[n - 1] + 1 ELSE f[n - 1]
  <2>1. n - 1 \in Nat /\ (n - 1) + 1 = n
    BY <1>4
  <2>2. f[n - 1] \in Nat /\ f[(n - 1) + 1] = g[<<(n - 1) + 1, f[n - 1]>>]
    BY <1>3, <2>1 DEF AllSteps
  <2> QED BY <1>2, <2>1, <2>2
<1>5. f = [n \in Nat |-> IF n = 0 THEN 0
                         ELSE IF TakesFirst(z, q, key, f[n - 1], n - 1 - f[n - 1]) THEN f[n - 1] + 1 ELSE f[n - 1]]
  BY <1>3, <1>4, Zenon DEF AllSteps
<1> DEFINE took == FromFirst(z, q, key)
<1>6. took = [n \in Nat |-> IF n = 0 THEN 0
                            ELSE IF TakesFirst(z, q, key, took[n - 1], n - 1 - took[n - 1])
                                 THEN took[n - 1] + 1 ELSE took[n - 1]]
  BY <1>5, Zenon DEF FromFirst, TakesFirst
<1> HIDE DEF took
<1>7. took[0] = 0
  BY <1>6
<1>8. ASSUME NEW n \in Nat
      PROVE  took[n + 1] = IF TakesFirst(z, q, key, took[n], n - took[n]) THEN took[n] + 1 ELSE took[n]
  <2>1. n + 1 \in Nat /\ n + 1 # 0 /\ (n + 1) - 1 = n
    OBVIOUS
  <2> QED BY <1>6, <2>1
<1>9. Nat = {n \in Nat : took[n] \in Nat}
  <2> DEFINE S == {n \in Nat : took[n] \in Nat}
  <2>1. 0 \in S
    BY <1>7
  <2>2. ASSUME NEW n \in S PROVE n + 1 \in S
    BY <1>8
  <2>3. S \in SUBSET Nat
    OBVIOUS
  <2> HIDE DEF S
  <2>4. S = Nat
    BY <2>1, <2>2, <2>3, Induction
  <2> QED BY <2>4 DEF S
<1> QED BY <1>7, <1>8, <1>9 DEF took, Counts

\* took counts what there is
CountsWithin(z, q, key, took) ==
  /\ took[0] = 0
  /\ \A n \in 0..Len(z) + Len(q) : took[n] \in 0..Len(z) /\ n - took[n] \in 0..Len(q)
  /\ \A n \in 1..Len(z) + Len(q) :
       \/ took[n] = took[n - 1] + 1 /\ TakesFirst(z, q, key, took[n - 1], n - 1 - took[n - 1])
       \/ took[n] = took[n - 1] /\ ~TakesFirst(z, q, key, took[n - 1], n - 1 - took[n - 1])

\* A merge takes no more than there is, and every step takes one item.
LEMMA FromFirstBounds ==
  ASSUME NEW N, NEW z \in Seq(N), NEW q \in Seq(N), NEW key, NEW took, Counts(z, q, key, took)
  PROVE  CountsWithin(z, q, key, took)
<1>0. Len(z) \in Nat /\ Len(q) \in Nat
  OBVIOUS
<1>1. took[0] = 0
  BY DEF Counts
<1>2. \A n \in Nat : /\ took[n] \in Nat
                     /\ took[n + 1] = IF TakesFirst(z, q, key, took[n], n - took[n]) THEN took[n] + 1 ELSE took[n]
  BY DEF Counts
<1> DEFINE S == {n \in Nat : n <= Len(z) + Len(q) => took[n] \in 0..Len(z) /\ n - took[n] \in 0..Len(q)}
<1>3. 0 \in S
  BY <1>0, <1>1
<1>4. ASSUME NEW n \in S PROVE n + 1 \in S
  <2>1. PICK a \in Nat : a = took[n]
    BY <1>2
  <2>2. SUFFICES ASSUME n + 1 <= Len(z) + Len(q)
                 PROVE  took[n + 1] \in 0..Len(z) /\ n + 1 - took[n + 1] \in 0..Len(q)
    BY DEF S
  <2>3. n \in Nat /\ a <= Len(z) /\ n - a \in 0..Len(q)
    BY <1>0, <2>1, <2>2
  <2>4. CASE TakesFirst(z, q, key, a, n - a)
    <3>1. a < Len(z)
      BY <2>4 DEF TakesFirst
    <3>2. took[n + 1] = a + 1
      BY <1>2, <2>1, <2>3, <2>4
    <3> QED BY <1>0, <2>3, <3>1, <3>2
  <2>5. CASE ~TakesFirst(z, q, key, a, n - a)
    <3>1. a = Len(z) \/ n - a # Len(q)
      BY <1>0, <2>3, <2>5 DEF TakesFirst
    <3>2. took[n + 1] = a
      BY <1>2, <2>1, <2>3, <2>5
    <3> QED BY <1>0, <2>2, <2>3, <3>1, <3>2
  <2> QED BY <2>4, <2>5
<1>5. S \in SUBSET Nat
  OBVIOUS
<1>6. S = Nat
  <2> HIDE DEF S
  <2> QED BY <1>3, <1>4, <1>5, Induction
<1>7. \A n \in 0..Len(z) + Len(q) : took[n] \in 0..Len(z) /\ n - took[n] \in 0..Len(q)
  BY <1>0, <1>6
<1>8. ASSUME NEW n \in 1..Len(z) + Len(q)
      PROVE  \/ took[n] = took[n - 1] + 1 /\ TakesFirst(z, q, key, took[n - 1], n - 1 - took[n - 1])
             \/ took[n] = took[n - 1] /\ ~TakesFirst(z, q, key, took[n - 1], n - 1 - took[n - 1])
  <2>1. n - 1 \in Nat /\ (n - 1) + 1 = n
    BY <1>0
  <2> QED BY <1>2, <2>1
<1> QED BY <1>1, <1>7, <1>8 DEF CountsWithin

\* Where the n-th item of a merge comes from: the place in z, or in q behind z.
Source(z, took, n) == IF took[n] > took[n - 1] THEN took[n] ELSE Len(z) + (n - took[n])

\* Every item of z and of q goes to one place of the merge.
LEMMA MergeShuffles ==
  ASSUME NEW N, NEW z \in Seq(N), NEW q \in Seq(N), NEW key
  PROVE  LET took == FromFirst(z, q, key)
             all == 1..Len(z) + Len(q)
         IN /\ Merge(z, q, key) \in [all -> N]
            /\ \A n \in all : /\ Source(z, took, n) \in all
                              /\ Merge(z, q, key)[n] = IF Source(z, took, n) <= Len(z) THEN z[Source(z, took, n)]
                                                       ELSE q[Source(z, took, n) - Len(z)]
            /\ \A n, m \in all : Source(z, took, n) = Source(z, took, m) => n = m
<1>1. PICK took : took = FromFirst(z, q, key) /\ CountsWithin(z, q, key, took)
  BY FromFirstIs, FromFirstBounds
<1>2. PICK lp \in Nat, lq \in Nat : lp = Len(z) /\ lq = Len(q)
  OBVIOUS
<1>3. /\ took[0] = 0
      /\ \A n \in 0..lp + lq : took[n] \in 0..lp /\ n - took[n] \in 0..lq
      /\ \A n \in 1..lp + lq : took[n] = took[n - 1] + 1 \/ took[n] = took[n - 1]
  BY <1>1, <1>2 DEF CountsWithin
<1>4. ASSUME NEW n \in 1..lp + lq
      PROVE  /\ Source(z, took, n) \in 1..lp + lq
             /\ took[n] > took[n - 1] => Source(z, took, n) = took[n] /\ took[n] \in 1..lp
             /\ ~(took[n] > took[n - 1]) => Source(z, took, n) = lp + (n - took[n]) /\ n - took[n] \in 1..lq
  <2>1. PICK a \in 0..lp, b \in 0..lp : a = took[n - 1] /\ b = took[n]
    <3>1. n - 1 \in 0..lp + lq /\ n \in 0..lp + lq
      BY <1>2
    <3> QED BY <1>3, <3>1
  <2>2. n - b \in 0..lq /\ (n - 1) - a \in 0..lq /\ (b = a + 1 \/ b = a)
    <3>1. n - 1 \in 0..lp + lq /\ n \in 0..lp + lq
      BY <1>2
    <3>2. n - took[n] \in 0..lq /\ (n - 1) - took[n - 1] \in 0..lq /\ (took[n] = took[n - 1] + 1 \/ took[n] = took[n - 1])
      BY <1>3, <3>1
    <3> QED BY <2>1, <3>2
  <2>3. Source(z, took, n) = IF b > a THEN b ELSE lp + (n - b)
    BY <1>2, <2>1 DEF Source
  <2>4. /\ (IF b > a THEN b ELSE lp + (n - b)) \in 1..lp + lq
        /\ (b > a => b \in 1..lp)
        /\ (~(b > a) => n - b \in 1..lq)
    BY <1>2, <2>2
  <2> QED BY <2>1, <2>3, <2>4
<1>5. Merge(z, q, key) = [n \in 1..lp + lq |-> IF took[n] > took[n - 1] THEN z[took[n]] ELSE q[n - took[n]]]
  BY <1>1, <1>2 DEF Merge
<1>6. ASSUME NEW n \in 1..lp + lq
      PROVE  /\ Merge(z, q, key)[n] \in N
             /\ Merge(z, q, key)[n] = IF Source(z, took, n) <= lp THEN z[Source(z, took, n)]
                                      ELSE q[Source(z, took, n) - lp]
  <2>1. CASE took[n] > took[n - 1]
    <3>1. PICK c \in 1..lp : c = took[n] /\ c = Source(z, took, n)
      BY <1>4, <2>1
    <3>2. Merge(z, q, key)[n] = z[c]
      BY <1>5, <2>1, <3>1
    <3> QED BY <1>2, <3>1, <3>2
  <2>2. CASE ~(took[n] > took[n - 1])
    <3>1. PICK c \in 1..lq : c = n - took[n] /\ lp + c = Source(z, took, n)
      BY <1>4, <2>2
    <3>2. Merge(z, q, key)[n] = q[c]
      BY <1>5, <2>2, <3>1
    <3>3. ~(lp + c <= lp) /\ (lp + c) - lp = c /\ c \in 1..Len(q)
      BY <1>2, <3>1
    <3> QED BY <3>1, <3>2, <3>3
  <2> QED BY <2>1, <2>2
<1>7. \A d \in Nat : \A n \in 0..lp + lq : n + d <= lp + lq => took[n] <= took[n + d] /\ n - took[n] <= (n + d) - took[n + d]
  <2> DEFINE S == {d \in Nat : \A n \in 0..lp + lq : n + d <= lp + lq =>
                      took[n] <= took[n + d] /\ n - took[n] <= (n + d) - took[n + d]}
  <2>1. 0 \in S
    BY <1>2, <1>3
  <2>2. ASSUME NEW d \in S PROVE d + 1 \in S
    <3>1. SUFFICES ASSUME NEW n \in 0..lp + lq, n + (d + 1) <= lp + lq
                   PROVE  took[n] <= took[n + (d + 1)] /\ n - took[n] <= (n + (d + 1)) - took[n + (d + 1)]
      BY DEF S
    <3>2. d \in Nat /\ n + d \in 0..lp + lq /\ n + d <= lp + lq /\ n + (d + 1) \in 1..lp + lq
          /\ (n + (d + 1)) - 1 = n + d /\ n \in 0..lp + lq
      BY <1>2, <3>1
    <3>3. took[n] <= took[n + d] /\ n - took[n] <= (n + d) - took[n + d]
      BY <3>1, <3>2
    <3>4. took[n + (d + 1)] = took[n + d] + 1 \/ took[n + (d + 1)] = took[n + d]
      BY <1>3, <3>2
    <3>5. PICK a \in Nat, b \in Nat, c \in Nat : a = took[n] /\ b = took[n + d] /\ c = took[n + (d + 1)]
      <4>1. n + (d + 1) \in 0..lp + lq
        BY <3>2
      <4>2. took[n] \in 0..lp /\ took[n + d] \in 0..lp /\ took[n + (d + 1)] \in 0..lp
        BY <1>3, <3>2, <4>1
      <4>3. 0..lp \subseteq Nat
        BY <1>2
      <4> QED BY <4>2, <4>3
    <3>6. a <= b /\ n - a <= (n + d) - b
      BY <3>3, <3>5
    <3>7. c = b + 1 \/ c = b
      BY <3>4, <3>5
    <3>8. a <= c /\ n - a <= (n + (d + 1)) - c
      BY <1>2, <3>6, <3>7
    <3> QED BY <3>5, <3>8
  <2>3. S \in SUBSET Nat
    OBVIOUS
  <2> HIDE DEF S
  <2>4. S = Nat
    BY <2>1, <2>2, <2>3, Induction
  <2> QED BY <2>4 DEF S
<1>8. ASSUME NEW n \in 1..lp + lq, NEW m \in 1..lp + lq, n < m  PROVE Source(z, took, n) # Source(z, took, m)
  <2>1. PICK d \in Nat : n + d = m - 1 /\ n + d <= lp + lq /\ n \in 0..lp + lq
    <3>1. (m - 1) - n \in Nat /\ n + ((m - 1) - n) = m - 1 /\ m - 1 <= lp + lq
      BY <1>2, <1>8
    <3> QED BY <1>2, <3>1
  <2>2. took[n] <= took[m - 1] /\ n - took[n] <= (m - 1) - took[m - 1]
    BY <1>7, <2>1
  <2>3. PICK a \in Nat, b \in Nat, c \in Nat, e \in Nat : a = took[n - 1] /\ b = took[n] /\ c = took[m - 1] /\ e = took[m]
    <3>1. n - 1 \in 0..lp + lq /\ n \in 0..lp + lq /\ m - 1 \in 0..lp + lq /\ m \in 0..lp + lq
      BY <1>2
    <3>2. took[n - 1] \in 0..lp /\ took[n] \in 0..lp /\ took[m - 1] \in 0..lp /\ took[m] \in 0..lp
      BY <1>3, <3>1
    <3>3. 0..lp \subseteq Nat
      BY <1>2
    <3> QED BY <3>2, <3>3
  <2>4. b <= c /\ n - b <= (m - 1) - c
    BY <2>2, <2>3
  <2>5. /\ b > a => Source(z, took, n) = b /\ b \in 1..lp
        /\ ~(b > a) => Source(z, took, n) = lp + (n - b) /\ n - b \in 1..lq
        /\ e > c => Source(z, took, m) = e /\ e \in 1..lp
        /\ ~(e > c) => Source(z, took, m) = lp + (m - e) /\ m - e \in 1..lq
    BY <1>4, <2>3
  <2>6. e = c + 1 \/ e = c
    BY <1>3, <2>3
  <2> QED BY <2>4, <2>5, <2>6
<1>9. \A n, m \in 1..lp + lq : Source(z, took, n) = Source(z, took, m) => n = m
  BY <1>2, <1>8
<1>10. Merge(z, q, key) \in [1..lp + lq -> N]
  BY <1>5, <1>6
<1> QED BY <1>1, <1>2, <1>4, <1>6, <1>9, <1>10

\* The merge of two sequences in order is in order.
LEMMA MergeSorts ==
  ASSUME NEW N, NEW z \in Seq(N), NEW q \in Seq(N), NEW key, KeyOf(key, N), InOrder(z, key), InOrder(q, key)
  PROVE  \A n \in 1..Len(z) + Len(q) - 1 : key[Merge(z, q, key)[n]] <= key[Merge(z, q, key)[n + 1]]
<1>1. PICK took : took = FromFirst(z, q, key) /\ CountsWithin(z, q, key, took)
  BY FromFirstIs, FromFirstBounds
<1>2. PICK lp \in Nat, lq \in Nat : lp = Len(z) /\ lq = Len(q)
  OBVIOUS
<1>3. /\ \A n \in 0..lp + lq : took[n] \in 0..lp /\ n - took[n] \in 0..lq
      /\ \A n \in 1..lp + lq :
              \/ took[n] = took[n - 1] + 1 /\ TakesFirst(z, q, key, took[n - 1], n - 1 - took[n - 1])
              \/ took[n] = took[n - 1] /\ ~TakesFirst(z, q, key, took[n - 1], n - 1 - took[n - 1])
  BY <1>1, <1>2 DEF CountsWithin
<1>4. \A n \in 1..lp + lq : Merge(z, q, key)[n] = IF took[n] > took[n - 1] THEN z[took[n]] ELSE q[n - took[n]]
  BY <1>1, <1>2 DEF Merge
<1>5. \A i \in 1..lp : z[i] \in N /\ key[z[i]] \in Int
  BY <1>2 DEF KeyOf
<1>6. \A i \in 1..lq : q[i] \in N /\ key[q[i]] \in Int
  BY <1>2 DEF KeyOf
<1>7. ASSUME NEW n \in 1..lp + lq
      PROVE  /\ took[n] < lp => key[Merge(z, q, key)[n]] <= key[z[took[n] + 1]]
             /\ n - took[n] < lq => key[Merge(z, q, key)[n]] <= key[q[(n - took[n]) + 1]]
  <2>1. PICK a \in 0..lp, b \in 0..lq : a = took[n - 1] /\ b = n - 1 - a
    <3>1. n - 1 \in 0..lp + lq
      BY <1>2
    <3> QED BY <1>3, <3>1
  <2>0. took[n] \in 0..lp /\ n - took[n] \in 0..lq /\ n = a + b + 1
    <3>1. n \in 0..lp + lq /\ n - 1 \in 0..lp + lq
      BY <1>2
    <3>2. took[n] \in 0..lp /\ n - took[n] \in 0..lq /\ took[n - 1] \in 0..lp
      BY <1>3, <3>1
    <3> QED BY <2>1, <3>2
  <2>4. n \in Nat /\ n = a + b + 1
    BY <1>2, <2>0
  <2>2. CASE TakesFirst(z, q, key, a, b)
    <3>1. took[n] = a + 1 /\ n - took[n] = b /\ took[n] > took[n - 1] /\ a + 1 \in 1..lp
      <4>1. took[n] = a + 1
        BY <1>3, <2>1, <2>2
      <4>2. n - (a + 1) \in 0..lq /\ a + 1 \in 0..lp
        BY <2>0, <4>1
      <4>3. n - (a + 1) = b /\ a + 1 > a /\ a + 1 \in 1..lp
        BY <1>2, <2>4, <4>2
      <4> QED BY <2>1, <4>1, <4>3
    <3>2. Merge(z, q, key)[n] = z[a + 1]
      BY <1>4, <3>1
    <3>3. b < lq => key[z[a + 1]] <= key[q[b + 1]]
      BY <1>2, <2>1, <2>2 DEF TakesFirst
    <3>4. ASSUME a + 1 < lp  PROVE key[z[a + 1]] <= key[z[(a + 1) + 1]]
      <4>1. a + 1 \in 1..Len(z) - 1
        BY <1>2, <2>1, <3>4
      <4> QED BY <1>2, <4>1 DEF InOrder
    <3> QED BY <3>1, <3>2, <3>3, <3>4
  <2>3. CASE ~TakesFirst(z, q, key, a, b)
    <3>1. took[n] = a /\ n - took[n] = b + 1 /\ ~(took[n] > took[n - 1]) /\ b + 1 \in 1..lq
      <4>1. took[n] = a
        BY <1>3, <2>1, <2>3
      <4>2. n - (a) \in 0..lq /\ a \in 0..lp
        BY <2>0, <4>1
      <4>3. n - a = b + 1 /\ ~(a > a) /\ b + 1 \in 1..lq
        BY <1>2, <2>4, <4>2
      <4> QED BY <2>1, <4>1, <4>3
    <3>2. Merge(z, q, key)[n] = q[b + 1]
      BY <1>4, <3>1
    <3>3. a < lp => key[q[b + 1]] <= key[z[a + 1]]
      <4>1. SUFFICES ASSUME a < lp PROVE key[q[b + 1]] <= key[z[a + 1]]
        OBVIOUS
      <4>2. ~(key[z[a + 1]] <= key[q[b + 1]])
        BY <1>2, <2>3, <4>1 DEF TakesFirst
      <4>3. a + 1 \in 1..lp
        BY <2>1, <4>1
      <4>4. PICK u \in Int, v \in Int : u = key[z[a + 1]] /\ v = key[q[b + 1]]
        BY <1>5, <1>6, <3>1, <4>3
      <4> QED BY <4>2, <4>4
    <3>4. ASSUME b + 1 < lq  PROVE key[q[b + 1]] <= key[q[(b + 1) + 1]]
      <4>1. b + 1 \in 1..Len(q) - 1
        BY <1>2, <2>1, <3>4
      <4> QED BY <1>2, <4>1 DEF InOrder
    <3> QED BY <3>1, <3>2, <3>3, <3>4
  <2> QED BY <2>2, <2>3
<1>8. ASSUME NEW n \in 1..lp + lq - 1  PROVE key[Merge(z, q, key)[n]] <= key[Merge(z, q, key)[n + 1]]
  <2>0. n \in 1..lp + lq /\ n + 1 \in 1..lp + lq /\ (n + 1) - 1 = n /\ n \in 0..lp + lq /\ n + 1 \in 0..lp + lq
    BY <1>2
  <2>1. PICK a \in 0..lp, b \in 0..lq : a = took[n] /\ b = n - took[n]
    BY <1>3, <2>0
  <2>2. CASE TakesFirst(z, q, key, a, b)
    <3>1. took[n + 1] = a + 1
      BY <1>3, <2>0, <2>1, <2>2
    <3>2. took[n + 1] > took[n]
      BY <2>1, <3>1
    <3>3. Merge(z, q, key)[n + 1] = z[a + 1]
      <4>1. Merge(z, q, key)[n + 1] = IF took[n + 1] > took[(n + 1) - 1] THEN z[took[n + 1]]
                                      ELSE q[(n + 1) - took[n + 1]]
        BY <1>4, <2>0, Zenon
      <4> QED BY <2>0, <3>1, <3>2, <4>1
    <3>4. a < lp
      BY <1>2, <2>2 DEF TakesFirst
    <3> QED BY <1>7, <2>0, <2>1, <3>3, <3>4
  <2>3. CASE ~TakesFirst(z, q, key, a, b)
    <3>1. took[n + 1] = a
      BY <1>3, <2>0, <2>1, <2>3
    <3>2. ~(took[n + 1] > took[n])
      BY <2>1, <3>1
    <3>3. (n + 1) - took[n + 1] = b + 1
      <4>1. b = n - a
        BY <2>1
      <4>2. (n + 1) - a = b + 1
        BY <4>1
      <4> QED BY <3>1, <4>2
    <3>4. Merge(z, q, key)[n + 1] = q[b + 1]
      <4>1. Merge(z, q, key)[n + 1] = IF took[n + 1] > took[(n + 1) - 1] THEN z[took[n + 1]]
                                      ELSE q[(n + 1) - took[n + 1]]
        BY <1>4, <2>0, Zenon
      <4> QED BY <2>0, <3>2, <3>3, <4>1, Zenon
    <3>5. b < lq
      <4>1. (n + 1) - took[n + 1] \in 0..lq
        BY <1>3, <2>0
      <4> QED BY <2>1, <3>3, <4>1
    <3> QED BY <1>7, <2>0, <2>1, <3>4, <3>5
  <2> QED BY <2>2, <2>3
<1> QED BY <1>2, <1>8

-----------------------------------------------------------------------------
(* A pass of the sort.                                                     *)

\* r is what there is of the wide items behind the first b
IsRun(s, b, wide, r) ==
  /\ Len(r) = IF b >= Len(s) THEN 0 ELSE IF wide < Len(s) - b THEN wide ELSE Len(s) - b
  /\ \A i \in 1..Len(r) : r[i] = s[b + i]

\* A run is what there is of the next wide items.
LEMMA RunIs ==
  ASSUME NEW N, NEW s \in Seq(N), NEW b \in Nat, NEW wide \in Nat
  PROVE  Run(s, b, wide) \in Seq(N) /\ IsRun(s, b, wide, Run(s, b, wide))
<1>1. PICK e \in Nat : e = IF b + wide < Len(s) THEN b + wide ELSE Len(s)
  OBVIOUS
<1>2. Run(s, b, wide) = SubSeq(s, b + 1, e) /\ e <= Len(s)
  BY <1>1 DEF Run
<1>3. \A i \in (b + 1)..e : s[i] \in N
  BY <1>2
<1>4. /\ Run(s, b, wide) \in Seq(N)
      /\ Len(Run(s, b, wide)) = IF b + 1 <= e THEN e - (b + 1) + 1 ELSE 0
      /\ \A i \in 1..e - (b + 1) + 1 : Run(s, b, wide)[i] = s[(b + 1) + i - 1]
  BY <1>2, <1>3, SubSeqProperties
<1>5. Len(Run(s, b, wide)) = IF b >= Len(s) THEN 0 ELSE IF wide < Len(s) - b THEN wide ELSE Len(s) - b
  BY <1>1, <1>4
<1>6. ASSUME NEW i \in 1..Len(Run(s, b, wide))  PROVE Run(s, b, wide)[i] = s[b + i]
  <2>1. i \in 1..e - (b + 1) + 1 /\ (b + 1) + i - 1 = b + i
    BY <1>4
  <2> QED BY <1>4, <2>1
<1> QED BY <1>4, <1>5, <1>6 DEF IsRun

\* In a list of runs in order every run is.
LEMMA RunInOrder ==
  ASSUME NEW N, NEW s \in Seq(N), NEW wide \in Nat, NEW key, RunsInOrder(s, wide, key), NEW j \in Nat
  PROVE  InOrder(Run(s, j * wide, wide), key)
<1>1. PICK b \in Nat : b = j * wide
  OBVIOUS
<1>0. b \in Nat
  BY <1>1
<1>2. PICK r \in Seq(N) : r = Run(s, b, wide) /\ IsRun(s, b, wide, r)
  BY <1>0, RunIs
<1>3. ASSUME NEW n \in 1..Len(r) - 1  PROVE key[r[n]] <= key[r[n + 1]]
  <2>1. n < wide /\ b + n \in 1..Len(s) - 1 /\ n \in 1..Len(r) /\ n + 1 \in 1..Len(r) /\ b + (n + 1) = (b + n) + 1 /\ n \in Nat
    BY <1>0, <1>2 DEF IsRun
  <2>2. (b + n) % wide = n
    BY <1>1, <2>1, DivModIs
  <2>3. (b + n) % wide # 0
    BY <2>2
  <2>4. key[s[b + n]] <= key[s[(b + n) + 1]]
    BY <2>1, <2>3 DEF RunsInOrder
  <2>5. r[n] = s[b + n] /\ r[n + 1] = s[b + (n + 1)]
    BY <1>2, <2>1 DEF IsRun
  <2> QED BY <2>1, <2>4, <2>5
<1> QED BY <1>1, <1>2, <1>3 DEF InOrder

\* the k-th pair of runs merged, and where its items come from
PairMerge(s, wide, key, k) == Merge(Run(s, k * (2 * wide), wide), Run(s, k * (2 * wide) + wide, wide), key)
PairSource(s, wide, key, k, x) ==
  Source(Run(s, k * (2 * wide), wide), FromFirst(Run(s, k * (2 * wide), wide), Run(s, k * (2 * wide) + wide, wide), key), x)

\* what is left of a pair of runs behind the first b items
PairLength(s, wide, b) == IF 2 * wide < Len(s) - b THEN 2 * wide ELSE Len(s) - b

\* b items are in front of the k-th pair of runs, and it has some
Starts(s, wide, k, b) == b = k * (2 * wide) /\ b < Len(s)

\* the k-th pair merged has the items of the pair, each once
PairKept(s, wide, key, k, b) ==
  /\ \A x \in 1..PairLength(s, wide, b) :
       /\ PairSource(s, wide, key, k, x) \in 1..PairLength(s, wide, b)
       /\ PairMerge(s, wide, key, k)[x] = s[b + PairSource(s, wide, key, k, x)]
  /\ \A x, y \in 1..PairLength(s, wide, b) :
       PairSource(s, wide, key, k, x) = PairSource(s, wide, key, k, y) => x = y

\* A pair of runs becomes one: the same items, each once.
LEMMA PairShuffles ==
  ASSUME NEW N, NEW s \in Seq(N), NEW wide \in Nat, NEW key, NEW k \in Nat, NEW b \in Nat, Starts(s, wide, k, b)
  PROVE  PairKept(s, wide, key, k, b)
<1>0. b = k * (2 * wide) /\ b < Len(s)
  BY DEF Starts
<1>1. PICK z \in Seq(N) : z = Run(s, b, wide) /\ IsRun(s, b, wide, z)
  BY RunIs
<1>2. PICK q \in Seq(N) : q = Run(s, b + wide, wide) /\ IsRun(s, b + wide, wide, q)
  <2>1. PICK e \in Nat : e = b + wide
    OBVIOUS
  <2>2. PICK q \in Seq(N) : q = Run(s, e, wide) /\ IsRun(s, e, wide, q)
    BY RunIs
  <2> QED BY <2>1, <2>2
<1>9. PICK lp \in Nat, lq \in Nat, ls \in Nat : lp = Len(z) /\ lq = Len(q) /\ ls = Len(s)
  OBVIOUS
<1>10. /\ lp = IF wide < ls - b THEN wide ELSE ls - b
       /\ lq = IF b + wide >= ls THEN 0 ELSE IF wide < ls - (b + wide) THEN wide ELSE ls - (b + wide)
       /\ PairLength(s, wide, b) = IF 2 * wide < ls - b THEN 2 * wide ELSE ls - b
       /\ b < ls
  BY <1>0, <1>1, <1>2, <1>9 DEF IsRun, PairLength
<1>3. PICK l \in Nat : l = lp + lq /\ l = PairLength(s, wide, b)
  BY <1>10
<1>4. PICK took : took = FromFirst(z, q, key)
  OBVIOUS
<1>5. /\ \A n \in 1..l : /\ Source(z, took, n) \in 1..l
                         /\ Merge(z, q, key)[n] = IF Source(z, took, n) <= Len(z) THEN z[Source(z, took, n)]
                                                  ELSE q[Source(z, took, n) - Len(z)]
      /\ \A n, m \in 1..l : Source(z, took, n) = Source(z, took, m) => n = m
  BY <1>3, <1>4, <1>9, MergeShuffles
<1>6. /\ \A x : PairSource(s, wide, key, k, x) = Source(z, took, x)
      /\ PairMerge(s, wide, key, k) = Merge(z, q, key)
  BY <1>0, <1>1, <1>2, <1>4 DEF PairSource, PairMerge
<1>7. ASSUME NEW i \in 1..l  PROVE (IF i <= Len(z) THEN z[i] ELSE q[i - Len(z)]) = s[b + i]
  <2>1. CASE i <= Len(z)
    <3>1. i \in 1..Len(z)
      BY <1>9, <2>1
    <3> QED BY <1>1, <2>1, <3>1 DEF IsRun
  <2>2. CASE ~(i <= Len(z))
    <3>1. i - lp \in 1..lq
      BY <1>3, <1>9, <2>2
    <3>2. lp = wide /\ (b + wide) + (i - lp) = b + i
      BY <1>10, <3>1
    <3>3. q[i - lp] = s[(b + wide) + (i - lp)]
      BY <1>2, <1>9, <3>1 DEF IsRun
    <3> QED BY <1>9, <2>2, <3>2, <3>3
  <2> QED BY <2>1, <2>2
<1>8. ASSUME NEW x \in 1..l  PROVE PairMerge(s, wide, key, k)[x] = s[b + PairSource(s, wide, key, k, x)]
  <2>1. PICK i \in 1..l : i = Source(z, took, x)
    BY <1>5
  <2>2. Merge(z, q, key)[x] = IF i <= Len(z) THEN z[i] ELSE q[i - Len(z)]
    BY <1>5, <2>1
  <2> QED BY <1>6, <1>7, <2>1, <2>2
<1>11. ASSUME NEW x \in 1..l  PROVE PairSource(s, wide, key, k, x) \in 1..l
  BY <1>5, <1>6
<1>12. ASSUME NEW x \in 1..l, NEW y \in 1..l, PairSource(s, wide, key, k, x) = PairSource(s, wide, key, k, y)
       PROVE  x = y
  BY <1>5, <1>6, <1>12
<1> QED BY <1>3, <1>8, <1>11, <1>12 DEF PairKept

\* the k-th pair merged is in order
PairInOrder(s, wide, key, k, b) ==
  \A x \in 1..PairLength(s, wide, b) - 1 :
    key[PairMerge(s, wide, key, k)[x]] <= key[PairMerge(s, wide, key, k)[x + 1]]

\* The pair of two runs in order is one in order.
LEMMA PairSorts ==
  ASSUME NEW N, NEW s \in Seq(N), NEW wide \in Nat, NEW key, KeyOf(key, N), RunsInOrder(s, wide, key),
         NEW k \in Nat, NEW b \in Nat, Starts(s, wide, k, b)
  PROVE  PairInOrder(s, wide, key, k, b)
<1>0. b = k * (2 * wide) /\ b < Len(s)
  BY DEF Starts
<1>1. PICK z \in Seq(N) : z = Run(s, b, wide) /\ IsRun(s, b, wide, z)
  BY RunIs
<1>2. PICK q \in Seq(N) : q = Run(s, b + wide, wide) /\ IsRun(s, b + wide, wide, q)
  <2>1. PICK e \in Nat : e = b + wide
    OBVIOUS
  <2>2. PICK q \in Seq(N) : q = Run(s, e, wide) /\ IsRun(s, e, wide, q)
    BY RunIs
  <2> QED BY <2>1, <2>2
<1>9. PICK lp \in Nat, lq \in Nat, ls \in Nat : lp = Len(z) /\ lq = Len(q) /\ ls = Len(s)
  OBVIOUS
<1>10. /\ lp = IF wide < ls - b THEN wide ELSE ls - b
       /\ lq = IF b + wide >= ls THEN 0 ELSE IF wide < ls - (b + wide) THEN wide ELSE ls - (b + wide)
       /\ PairLength(s, wide, b) = IF 2 * wide < ls - b THEN 2 * wide ELSE ls - b
       /\ b < ls
  BY <1>0, <1>1, <1>2, <1>9 DEF IsRun, PairLength
<1>3. PICK l \in Nat : l = lp + lq /\ l = PairLength(s, wide, b)
  BY <1>10
<1>4. 2 * k \in Nat /\ 2 * k + 1 \in Nat /\ b = (2 * k) * wide /\ b + wide = (2 * k + 1) * wide
  BY <1>0
<1>5. InOrder(z, key)
  BY <1>1, <1>4, RunInOrder
<1>6. InOrder(q, key)
  BY <1>2, <1>4, RunInOrder
<1>7. PairMerge(s, wide, key, k) = Merge(z, q, key)
  BY <1>0, <1>1, <1>2 DEF PairMerge
<1>8. \A x \in 1..l - 1 : key[Merge(z, q, key)[x]] <= key[Merge(z, q, key)[x + 1]]
  BY <1>3, <1>5, <1>6, <1>9, MergeSorts
<1> QED BY <1>3, <1>7, <1>8 DEF PairInOrder

\* the pair of runs the n-th item is in, and its place there
PairOf(wide, n) == (n - 1) \div (2 * wide)
PlaceIn(wide, n) == ((n - 1) % (2 * wide)) + 1

\* the n-th item is the x-th of the k-th pair, with b items in front of that
AtPlace(s, wide, n, k, b, x) ==
  /\ k = PairOf(wide, n) /\ x = PlaceIn(wide, n)
  /\ k <= Len(s) \div (2 * wide)
  /\ Starts(s, wide, k, b)
  /\ x \in 1..PairLength(s, wide, b)
  /\ n = b + x

\* Every place of the list is a place of one of its pairs of runs.
LEMMA PlaceOf ==
  ASSUME NEW N, NEW s \in Seq(N), NEW wide \in Nat, wide # 0, NEW n \in 1..Len(s)
  PROVE  \E k \in Nat, b \in Nat, x \in Nat : AtPlace(s, wide, n, k, b, x)
<1>1. PICK w \in Nat, ls \in Nat, y \in Nat : w = 2 * wide /\ ls = Len(s) /\ y = n - 1 /\ w # 0 /\ y < ls
  OBVIOUS
<1>2. PICK k \in Nat, m \in Nat : k = y \div w /\ m = y % w /\ y = k * w + m /\ m < w
  <2>1. y \div w \in Nat /\ y % w \in 0..w - 1 /\ y = (y \div w) * w + (y % w)
    BY <1>1, DivMod
  <2>2. y % w \in Nat /\ y % w < w
    BY <1>1, <2>1
  <2> QED BY <2>1, <2>2
<1>3. PICK b \in Nat : b = k * w
  OBVIOUS
<1>4. PICK d \in Nat, e \in Nat : d = ls \div w /\ ls = d * w + e /\ e < w
  <2>1. ls \div w \in Nat /\ ls % w \in 0..w - 1 /\ ls = (ls \div w) * w + (ls % w)
    BY <1>1, DivMod
  <2>2. ls % w \in Nat /\ ls % w < w
    BY <1>1, <2>1
  <2> QED BY <2>1, <2>2
<1>5. k <= d
  <2>1. PICK c \in Nat : c = d * w
    OBVIOUS
  <2>2. d < k => c + w <= b
    BY <1>3, <2>1, TimesApart
  <2>3. y = b + m /\ ls = c + e
    BY <1>2, <1>3, <1>4, <2>1
  <2> QED BY <1>1, <1>4, <2>2, <2>3
<1>6. b + m = y /\ b < ls /\ n = b + (m + 1)
  <2>1. b + m = y
    BY <1>2, <1>3
  <2> QED BY <1>1, <2>1
<1>7. m + 1 \in 1..(IF w < ls - b THEN w ELSE ls - b)
  BY <1>1, <1>2, <1>6
<1>8. PairOf(wide, n) = k /\ PlaceIn(wide, n) = m + 1 /\ PairLength(s, wide, b) = IF w < ls - b THEN w ELSE ls - b
  BY <1>1, <1>2 DEF PairOf, PlaceIn, PairLength
<1>9. Starts(s, wide, k, b) /\ k <= Len(s) \div (2 * wide)
  BY <1>1, <1>3, <1>4, <1>5, <1>6 DEF Starts
<1>10. AtPlace(s, wide, n, k, b, m + 1)
  BY <1>6, <1>7, <1>8, <1>9 DEF AtPlace
<1>11. m + 1 \in Nat
  OBVIOUS
<1> QED BY <1>10, <1>11

\* the n-th item is the x-th of a pair of runs with b items in front of it
InPair(wide, b, x, n) == x \in 1..2 * wide /\ n = b + x

\* The place is the only one.
LEMMA PlaceIs ==
  ASSUME NEW N, NEW s \in Seq(N), NEW wide \in Nat, NEW k \in Nat, NEW b \in Nat, Starts(s, wide, k, b),
         NEW x, NEW n, InPair(wide, b, x, n)
  PROVE  PairOf(wide, n) = k /\ PlaceIn(wide, n) = x
<1>0. x \in Nat /\ n \in Nat /\ x \in 1..2 * wide /\ n = b + x
  BY DEF InPair
<1>1. PICK w \in Nat, j \in Nat : w = 2 * wide /\ j = x - 1 /\ j < w /\ b = k * w
  BY <1>0 DEF Starts
<1>2. n - 1 = b + j /\ j + 1 = x
  BY <1>0, <1>1
<1>3. (b + j) \div w = k /\ (b + j) % w = j
  BY <1>1, DivModIs
<1> QED BY <1>1, <1>2, <1>3 DEF PairOf, PlaceIn

PassSource(s, wide, key, n) ==
  PairOf(wide, n) * (2 * wide) + PairSource(s, wide, key, PairOf(wide, n), PlaceIn(wide, n))

\* r has the items of the pairs of s merged
IsPass(s, wide, key, r) ==
  /\ Len(r) = Len(s)
  /\ \A n \in 1..Len(s) :
       /\ r[n] = PairMerge(s, wide, key, PairOf(wide, n))[PlaceIn(wide, n)]
       /\ PassSource(s, wide, key, n) \in 1..Len(s)
       /\ r[n] = s[PassSource(s, wide, key, n)]

\* A pass puts the items of every pair of runs in its place.
LEMMA PassIs ==
  ASSUME NEW N, NEW s \in Seq(N), NEW wide \in Nat, wide # 0, NEW key
  PROVE  MergeRuns(s, wide, key) \in Seq(N) /\ IsPass(s, wide, key, MergeRuns(s, wide, key))
<1>1. PICK r : r = [n \in 1..Len(s) |-> PairMerge(s, wide, key, PairOf(wide, n))[PlaceIn(wide, n)]]
  OBVIOUS
<1>2. MergeRuns(s, wide, key) = r
  <2>1. PICK merged : merged = [k \in 0..Len(s) \div (2 * wide) |-> PairMerge(s, wide, key, k)]
    OBVIOUS
  <2>2. MergeRuns(s, wide, key) = [n \in 1..Len(s) |-> merged[PairOf(wide, n)][PlaceIn(wide, n)]]
    BY <2>1 DEF MergeRuns, PairMerge, PairOf, PlaceIn
  <2>3. ASSUME NEW n \in 1..Len(s)  PROVE merged[PairOf(wide, n)] = PairMerge(s, wide, key, PairOf(wide, n))
    <3>1. PICK k \in Nat, b \in Nat, x \in Nat : AtPlace(s, wide, n, k, b, x)
      BY PlaceOf
    <3>2. PICK d : d = Len(s) \div (2 * wide) /\ k <= d /\ k = PairOf(wide, n)
      BY <3>1 DEF AtPlace
    <3>3. d \in Nat
      <4>1. PICK ls \in Nat, w \in Nat : ls = Len(s) /\ w = 2 * wide /\ w # 0
        OBVIOUS
      <4> QED BY <3>2, <4>1, DivMod
    <3>4. k \in 0..Len(s) \div (2 * wide)
      BY <3>2, <3>3
    <3> QED BY <2>1, <3>2, <3>4
  <2> QED BY <1>1, <2>2, <2>3
<1>3. ASSUME NEW n \in 1..Len(s)
      PROVE  PassSource(s, wide, key, n) \in 1..Len(s) /\ r[n] = s[PassSource(s, wide, key, n)]
  <2>1. PICK k \in Nat, b \in Nat, x \in Nat : AtPlace(s, wide, n, k, b, x)
    BY PlaceOf
  <2>2. /\ k = PairOf(wide, n) /\ x = PlaceIn(wide, n) /\ x \in 1..PairLength(s, wide, b)
        /\ b = k * (2 * wide) /\ b < Len(s) /\ Starts(s, wide, k, b)
    BY <2>1 DEF AtPlace, Starts
  <2>3. PairKept(s, wide, key, k, b)
    BY <2>2, PairShuffles
  <2>4. PICK d \in 1..PairLength(s, wide, b) : d = PairSource(s, wide, key, k, x) /\ PairMerge(s, wide, key, k)[x] = s[b + d]
    BY <2>2, <2>3 DEF PairKept
  <2>5. PassSource(s, wide, key, n) = b + d
    BY <2>2, <2>4 DEF PassSource
  <2>6. b + d \in 1..Len(s)
    BY <2>2 DEF PairLength
  <2> QED BY <1>1, <2>2, <2>4, <2>5, <2>6
<1>4. r \in Seq(N) /\ Len(r) = Len(s)
  <2>1. \A n \in 1..Len(s) : r[n] \in N
    BY <1>3
  <2>2. r \in [1..Len(s) -> N] /\ Len(s) \in Nat
    BY <1>1, <2>1
  <2> QED BY <2>2
<1> QED BY <1>1, <1>2, <1>3, <1>4 DEF IsPass

\* Of two places of a list of the same source both are one.
LEMMA PassInjective ==
  ASSUME NEW N, NEW s \in Seq(N), NEW wide \in Nat, wide # 0, NEW key,
         NEW n \in 1..Len(s), NEW m \in 1..Len(s), PassSource(s, wide, key, n) = PassSource(s, wide, key, m)
  PROVE  n = m
<1>1. PICK k \in Nat, b \in Nat, x \in Nat : AtPlace(s, wide, n, k, b, x)
  BY PlaceOf
<1>2. PICK j \in Nat, c \in Nat, y \in Nat : AtPlace(s, wide, m, j, c, y)
  BY PlaceOf
<1>3. /\ k = PairOf(wide, n) /\ x = PlaceIn(wide, n) /\ x \in 1..PairLength(s, wide, b)
      /\ b = k * (2 * wide) /\ b < Len(s) /\ Starts(s, wide, k, b) /\ n = b + x
  BY <1>1 DEF AtPlace, Starts
<1>4. /\ j = PairOf(wide, m) /\ y = PlaceIn(wide, m) /\ y \in 1..PairLength(s, wide, c)
      /\ c = j * (2 * wide) /\ c < Len(s) /\ Starts(s, wide, j, c) /\ m = c + y
  BY <1>2 DEF AtPlace, Starts
<1>5. PairKept(s, wide, key, k, b) /\ PairKept(s, wide, key, j, c)
  BY <1>3, <1>4, PairShuffles
<1>6. PICK d \in 1..PairLength(s, wide, b) : d = PairSource(s, wide, key, k, x)
  BY <1>3, <1>5 DEF PairKept
<1>7. PICK e \in 1..PairLength(s, wide, c) : e = PairSource(s, wide, key, j, y)
  BY <1>4, <1>5 DEF PairKept
<1>8. PassSource(s, wide, key, n) = b + d /\ PassSource(s, wide, key, m) = c + e
  BY <1>3, <1>4, <1>6, <1>7 DEF PassSource
<1>9. d \in 1..2 * wide /\ e \in 1..2 * wide
  <2>1. PICK w \in Nat, ls \in Nat : w = 2 * wide /\ ls = Len(s)
    OBVIOUS
  <2>2. d \in 1..(IF w < ls - b THEN w ELSE ls - b) /\ e \in 1..(IF w < ls - c THEN w ELSE ls - c)
    BY <2>1 DEF PairLength
  <2>3. d \in 1..w /\ e \in 1..w
    BY <2>2
  <2> QED BY <2>1, <2>3
<1>10. k = j
  <2>1. InPair(wide, b, d, b + d) /\ InPair(wide, c, e, c + e)
    BY <1>9 DEF InPair
  <2>2. PICK t, u : t = b + d /\ u = c + e /\ t = u /\ InPair(wide, b, d, t) /\ InPair(wide, c, e, u)
    BY <1>8, <2>1
  <2>3. Starts(s, wide, k, b) /\ Starts(s, wide, j, c)
    BY <1>3, <1>4
  <2>4. PairOf(wide, t) = k
    BY <2>2, <2>3, PlaceIs
  <2>5. PairOf(wide, u) = j
    BY <2>2, <2>3, PlaceIs
  <2> QED BY <2>2, <2>4, <2>5
<1>11. b = c
  BY <1>3, <1>4, <1>10
<1>12. d = e
  <2>1. b + d = b + e
    BY <1>8, <1>11
  <2>2. d \in Nat /\ e \in Nat
    BY <1>9
  <2> QED BY <2>1, <2>2
<1>13. x = y
  BY <1>3, <1>4, <1>5, <1>6, <1>7, <1>10, <1>11, <1>12 DEF PairKept
<1> QED BY <1>3, <1>4, <1>11, <1>13

\* A pass changes nothing but the order of the items.
LEMMA PassShuffles ==
  ASSUME NEW N, NEW s \in Seq(N), NEW wide \in Nat, wide # 0, NEW key
  PROVE  Shuffles(MergeRuns(s, wide, key), s)
<1>1. PICK r : r = MergeRuns(s, wide, key) /\ IsPass(s, wide, key, r)
  BY PassIs
<1>2. PICK f : f = [n \in 1..Len(s) |-> PassSource(s, wide, key, n)]
  OBVIOUS
<1>3. \A n \in 1..Len(s) : f[n] \in 1..Len(s) /\ r[n] = s[f[n]]
  BY <1>1, <1>2 DEF IsPass
<1>4. f \in Injection(1..Len(s), 1..Len(s))
  <2>1. f \in [1..Len(s) -> 1..Len(s)]
    BY <1>2, <1>3
  <2>2. ASSUME NEW n \in 1..Len(s), NEW m \in 1..Len(s), f[n] = f[m]  PROVE n = m
    <3>1. PassSource(s, wide, key, n) = PassSource(s, wide, key, m)
      BY <1>2, <2>2
    <3> QED BY <3>1, PassInjective
  <2> QED BY <2>1, <2>2 DEF Injection, IsInjective
<1> QED BY <1>1, <1>3, <1>4 DEF Shuffles, IsPass

\* A pass makes the runs in order twice as long.
LEMMA PassSorts ==
  ASSUME NEW N, NEW s \in Seq(N), NEW wide \in Nat, wide # 0, NEW key, KeyOf(key, N), RunsInOrder(s, wide, key)
  PROVE  RunsInOrder(MergeRuns(s, wide, key), 2 * wide, key)
<1>1. PICK r : r = MergeRuns(s, wide, key) /\ IsPass(s, wide, key, r)
  BY PassIs
<1>2. ASSUME NEW n \in 1..Len(s) - 1, n % (2 * wide) # 0  PROVE key[r[n]] <= key[r[n + 1]]
  <2>0. n \in 1..Len(s) /\ n + 1 \in 1..Len(s) /\ n < Len(s)
    OBVIOUS
  <2>1. PICK k \in Nat, b \in Nat, x \in Nat : AtPlace(s, wide, n, k, b, x)
    BY <2>0, PlaceOf
  <2>2. /\ k = PairOf(wide, n) /\ x = PlaceIn(wide, n) /\ x \in 1..PairLength(s, wide, b)
        /\ b = k * (2 * wide) /\ b < Len(s) /\ Starts(s, wide, k, b) /\ n = b + x
    BY <2>1 DEF AtPlace, Starts
  <2>3. PICK w \in Nat : w = 2 * wide /\ w # 0
    OBVIOUS
  <2>4. x # w
    <3>1. SUFFICES ASSUME x = w PROVE FALSE
      OBVIOUS
    <3>2. n = (k + 1) * w + 0
      <4>1. n = k * w + w
        BY <2>2, <2>3, <3>1
      <4>2. k * w + w = (k + 1) * w + 0
        OBVIOUS
      <4> QED BY <4>1, <4>2
    <3>3. ((k + 1) * w + 0) % w = 0
      <4>1. k + 1 \in Nat /\ 0 < w
        BY <2>3
      <4> QED BY <4>1, DivModIs
    <3> QED BY <1>2, <2>3, <3>2, <3>3
  <2>5. x \in 1..PairLength(s, wide, b) - 1 /\ x + 1 \in 1..2 * wide
    <3>1. PICK ls \in Nat : ls = Len(s)
      OBVIOUS
    <3>2. PairLength(s, wide, b) = IF w < ls - b THEN w ELSE ls - b
      BY <2>3, <3>1 DEF PairLength
    <3>3. x <= w /\ 1 <= x /\ b + x < ls
      <4>1. x \in 1..(IF w < ls - b THEN w ELSE ls - b)
        BY <2>2, <3>2
      <4>2. b + x < ls
        BY <2>0, <2>2, <3>1
      <4> QED BY <4>1, <4>2
    <3>4. x \in 1..(IF w < ls - b THEN w ELSE ls - b) - 1 /\ x + 1 \in 1..w
      BY <2>4, <3>3
    <3> QED BY <2>3, <3>2, <3>4
  <2>6. PairOf(wide, n + 1) = k /\ PlaceIn(wide, n + 1) = x + 1
    <3>1. InPair(wide, b, x + 1, n + 1)
      BY <2>2, <2>5 DEF InPair
    <3>2. PICK t, u : t = n + 1 /\ u = x + 1 /\ InPair(wide, b, u, t) /\ Starts(s, wide, k, b)
      BY <2>2, <3>1
    <3>3. PairOf(wide, t) = k /\ PlaceIn(wide, t) = u
      BY <3>2, PlaceIs
    <3> QED BY <3>2, <3>3
  <2>7. PairInOrder(s, wide, key, k, b)
    BY <2>2, PairSorts
  <2>8. key[PairMerge(s, wide, key, k)[x]] <= key[PairMerge(s, wide, key, k)[x + 1]]
    BY <2>5, <2>7 DEF PairInOrder
  <2> QED BY <1>1, <2>0, <2>2, <2>6, <2>8 DEF IsPass
<1>3. Len(r) = Len(s)
  BY <1>1 DEF IsPass
<1> QED BY <1>1, <1>2, <1>3 DEF RunsInOrder

-----------------------------------------------------------------------------
(* The sort is a sort.                                                     *)

\* the wide of the runs doubles from pass to pass
Doubles(sz) == sz[0] = 1 /\ \A n \in Nat : sz[n] \in Nat /\ sz[n + 1] = 2 * sz[n]

\* The recursive definition of insize has a solution: insize is it.
LEMMA InsizeDoubles == Doubles(insize)
<1> DEFINE g == [x \in Nat \X Nat |-> 2 * x[2]]
<1>1. g \in [Nat \X Nat -> Nat] /\ \A n \in Nat, a \in Nat : g[<<n, a>>] = 2 * a
  OBVIOUS
<1> HIDE DEF g
<1>2. PICK f : AllSteps(Nat, 1, g, f)
  BY <1>1, Recursion
<1>3. ASSUME NEW n \in Nat, n # 0  PROVE f[n] = 2 * f[n - 1]
  <2>1. n - 1 \in Nat /\ (n - 1) + 1 = n
    BY <1>3
  <2>2. f[n - 1] \in Nat /\ f[(n - 1) + 1] = g[<<(n - 1) + 1, f[n - 1]>>]
    BY <1>2, <2>1 DEF AllSteps
  <2> QED BY <1>1, <2>1, <2>2
<1>4. f = [n \in Nat |-> IF n = 0 THEN 1 ELSE 2 * f[n - 1]]
  BY <1>2, <1>3 DEF AllSteps
<1>5. insize = [n \in Nat |-> IF n = 0 THEN 1 ELSE 2 * insize[n - 1]]
  BY <1>4 DEF insize
<1>6. insize[0] = 1
  BY <1>5
<1>7. ASSUME NEW n \in Nat PROVE insize[n + 1] = 2 * insize[n]
  <2>1. n + 1 \in Nat /\ n + 1 # 0 /\ (n + 1) - 1 = n
    OBVIOUS
  <2> QED BY <1>5, <2>1
<1> DEFINE S == {n \in Nat : insize[n] \in Nat}
<1>8. 0 \in S /\ S \in SUBSET Nat
  BY <1>6
<1>9. ASSUME NEW n \in S PROVE n + 1 \in S
  BY <1>7
<1> HIDE DEF S
<1>10. S = Nat
  BY <1>8, <1>9, Induction
<1>11. \A n \in Nat : insize[n] \in Nat
  BY <1>10 DEF S
<1> QED BY <1>6, <1>7, <1>11 DEF Doubles

\* What doubles grows beyond every number.
LEMMA InsizeGrows ==
  ASSUME NEW n \in Nat
  PROVE  insize[n] \in Nat /\ insize[n] > n
<1>1. insize[0] = 1 /\ \A m \in Nat : insize[m] \in Nat /\ insize[m + 1] = 2 * insize[m]
  BY InsizeDoubles DEF Doubles
<1> DEFINE S == {m \in Nat : insize[m] > m}
<1>2. 0 \in S /\ S \in SUBSET Nat
  BY <1>1
<1>3. ASSUME NEW m \in S PROVE m + 1 \in S
  <2>1. PICK a \in Nat : a = insize[m] /\ m \in Nat /\ a > m
    BY <1>1
  <2>2. insize[m + 1] = 2 * a
    BY <1>1, <2>1
  <2>3. 2 * a > m + 1
    BY <2>1
  <2> QED BY <2>1, <2>2, <2>3
<1> HIDE DEF S
<1>4. S = Nat
  BY <1>2, <1>3, Induction
<1> QED BY <1>1, <1>4 DEF S

\* sorted is what the passes make of s
MadeByPasses(s, key, sorted) ==
  sorted[0] = s /\ \A n \in Nat : sorted[n + 1] = MergeRuns(sorted[n], insize[n], key)

\* The recursive definition of Passes has a solution: Passes is it.
LEMMA PassesAre ==
  ASSUME NEW N, NEW s \in Seq(N), NEW key
  PROVE  MadeByPasses(s, key, Passes(s, key))
<1> DEFINE g == [x \in Nat \X Seq(N) |-> IF x[1] = 0 THEN x[2] ELSE MergeRuns(x[2], insize[x[1] - 1], key)]
<1>1. ASSUME NEW n \in Nat, NEW a \in Seq(N)  PROVE MergeRuns(a, insize[n], key) \in Seq(N)
  <2>1. PICK w \in Nat : w = insize[n] /\ w # 0
    <3>1. insize[n] \in Nat /\ insize[n] > n
      BY InsizeGrows
    <3> QED BY <3>1
  <2> QED BY <2>1, PassIs
<1>2. ASSUME NEW x \in Nat \X Seq(N), x[1] # 0  PROVE MergeRuns(x[2], insize[x[1] - 1], key) \in Seq(N)
  <2>1. PICK n \in Nat, a \in Seq(N) : n = x[1] - 1 /\ a = x[2]
    <3>1. x[1] \in Nat /\ x[2] \in Seq(N)
      OBVIOUS
    <3>2. x[1] - 1 \in Nat
      BY <1>2, <3>1
    <3> QED BY <3>1, <3>2
  <2> QED BY <1>1, <2>1
<1>3. g \in [Nat \X Seq(N) -> Seq(N)]
  BY <1>2
<1>4. \A n \in Nat, a \in Seq(N) : g[<<n, a>>] = IF n = 0 THEN a ELSE MergeRuns(a, insize[n - 1], key)
  OBVIOUS
<1> HIDE DEF g
<1>5. PICK f : AllSteps(Seq(N), s, g, f)
  BY <1>3, Recursion
<1>6. ASSUME NEW n \in Nat, n # 0  PROVE f[n] = MergeRuns(f[n - 1], insize[n - 1], key)
  <2>1. n - 1 \in Nat /\ (n - 1) + 1 = n
    BY <1>6
  <2>2. f[n - 1] \in Seq(N) /\ f[(n - 1) + 1] = g[<<(n - 1) + 1, f[n - 1]>>]
    BY <1>5, <2>1 DEF AllSteps
  <2> QED BY <1>4, <1>6, <2>1, <2>2
<1>7. f = [n \in Nat |-> IF n = 0 THEN s ELSE MergeRuns(f[n - 1], insize[n - 1], key)]
  BY <1>5, <1>6 DEF AllSteps
<1> DEFINE sorted == Passes(s, key)
<1>8. sorted = [n \in Nat |-> IF n = 0 THEN s ELSE MergeRuns(sorted[n - 1], insize[n - 1], key)]
  BY <1>7 DEF Passes
<1> HIDE DEF sorted
<1>9. sorted[0] = s
  BY <1>8
<1>10. ASSUME NEW n \in Nat PROVE sorted[n + 1] = MergeRuns(sorted[n], insize[n], key)
  <2>1. n + 1 \in Nat /\ n + 1 # 0 /\ (n + 1) - 1 = n
    OBVIOUS
  <2> QED BY <1>8, <2>1
<1> QED BY <1>9, <1>10 DEF MadeByPasses, sorted

\* To change the order twice is to change the order.
LEMMA ShufflesTwice ==
  ASSUME NEW r, NEW s, NEW t, Shuffles(t, r), Shuffles(r, s)
  PROVE  Shuffles(t, s)
<1>1. PICK f \in Injection(1..Len(s), 1..Len(s)) : \A n \in 1..Len(s) : r[n] = s[f[n]]
  BY DEF Shuffles
<1>2. PICK g \in Injection(1..Len(s), 1..Len(s)) : \A n \in 1..Len(s) : t[n] = r[g[n]]
  BY DEF Shuffles
<1>3. Len(t) = Len(s)
  BY DEF Shuffles
<1>4. PICK P : P = 1..Len(s)
  OBVIOUS
<1>5. PICK h : h = [n \in P |-> f[g[n]]]
  OBVIOUS
<1>6. f \in [P -> P] /\ g \in [P -> P] /\ (\A n, m \in P : f[n] = f[m] => n = m) /\ (\A n, m \in P : g[n] = g[m] => n = m)
  BY <1>4 DEF Injection, IsInjective
<1>7. h \in [P -> P] /\ \A n, m \in P : h[n] = h[m] => n = m
  BY <1>5, <1>6
<1>8. h \in Injection(P, P)
  BY <1>7 DEF Injection, IsInjective
<1>9. \A n \in P : t[n] = s[h[n]]
  BY <1>1, <1>2, <1>4, <1>5, <1>6
<1> QED BY <1>3, <1>4, <1>8, <1>9 DEF Shuffles

\* No change of order is one.
LEMMA ShufflesItself == ASSUME NEW s PROVE Shuffles(s, s)
<1>1. PICK f : f = [n \in 1..Len(s) |-> n]
  OBVIOUS
<1>2. f \in Injection(1..Len(s), 1..Len(s)) /\ \A n \in 1..Len(s) : s[n] = s[f[n]]
  BY <1>1 DEF Injection, IsInjective
<1> QED BY <1>2 DEF Shuffles

\* After n passes the runs of insize[n] items are in order.
LEMMA PassesSort ==
  ASSUME NEW N, NEW s \in Seq(N), NEW key, KeyOf(key, N), NEW n \in Nat
  PROVE  /\ Passes(s, key)[n] \in Seq(N)
         /\ Shuffles(Passes(s, key)[n], s)
         /\ RunsInOrder(Passes(s, key)[n], insize[n], key)
<1>1. PICK sorted : sorted = Passes(s, key) /\ sorted[0] = s
                    /\ \A m \in Nat : sorted[m + 1] = MergeRuns(sorted[m], insize[m], key)
  BY PassesAre DEF MadeByPasses
<1> DEFINE S == {m \in Nat : /\ sorted[m] \in Seq(N)
                             /\ Shuffles(sorted[m], s)
                             /\ RunsInOrder(sorted[m], insize[m], key)}
<1>2. 0 \in S
  <2>1. insize[0] = 1
    BY InsizeDoubles DEF Doubles
  <2>2. \A i \in Int : i % 1 = 0
    OBVIOUS
  <2>3. RunsInOrder(s, insize[0], key)
    BY <2>1, <2>2 DEF RunsInOrder
  <2> QED BY <1>1, <2>3, ShufflesItself
<1>3. ASSUME NEW m \in S PROVE m + 1 \in S
  <2>1. PICK w \in Nat : w = insize[m] /\ w # 0 /\ insize[m + 1] = 2 * w
    <3>1. insize[m] \in Nat /\ insize[m] > m /\ insize[m + 1] = 2 * insize[m] /\ m \in Nat
      BY InsizeDoubles, InsizeGrows DEF Doubles
    <3> QED BY <3>1
  <2>2. PICK r \in Seq(N) : r = sorted[m] /\ Shuffles(r, s) /\ RunsInOrder(r, w, key)
    BY <2>1
  <2>3. sorted[m + 1] = MergeRuns(r, w, key)
    BY <1>1, <2>1, <2>2
  <2>4. MergeRuns(r, w, key) \in Seq(N)
    BY <2>1, PassIs
  <2>5. Shuffles(MergeRuns(r, w, key), s)
    BY <2>1, <2>2, PassShuffles, ShufflesTwice
  <2>6. RunsInOrder(MergeRuns(r, w, key), 2 * w, key)
    BY <2>1, <2>2, PassSorts
  <2> QED BY <2>1, <2>3, <2>4, <2>5, <2>6
<1>4. S \in SUBSET Nat
  OBVIOUS
<1> HIDE DEF S
<1>5. S = Nat
  BY <1>2, <1>3, <1>4, Induction
<1> QED BY <1>1, <1>5 DEF S

\* core_list_mergesort sorts, whatever the keys: the same items in order.
THEOREM MergesortSorts ==
  ASSUME NEW N, NEW s \in Seq(N), Len(s) # 0, NEW key, KeyOf(key, N)
  PROVE  /\ core_list_mergesort(s, key) \in Seq(N)
         /\ Shuffles(core_list_mergesort(s, key), s)
         /\ InOrder(core_list_mergesort(s, key), key)
<1> DEFINE Enough(n) == insize[n] >= Len(s) /\ \A m \in 1..n - 1 : insize[m] < Len(s)
<1>1. \E n \in 1..Len(s) : Enough(n)
  <2>1. PICK I : I = {n \in 1..Len(s) : insize[n] >= Len(s)}
    OBVIOUS
  <2>2. Len(s) \in Nat /\ Len(s) \in 1..Len(s)
    OBVIOUS
  <2>3. Len(s) \in I
    <3>1. insize[Len(s)] \in Nat /\ insize[Len(s)] > Len(s)
      BY <2>2, InsizeGrows
    <3> QED BY <2>1, <2>2, <3>1
  <2>4. I \subseteq Nat /\ I # {}
    BY <2>1, <2>3
  <2>5. PICK n \in I : \A m \in I : n <= m
    BY <2>4, LeastNatural
  <2>6. ASSUME NEW m \in 1..n - 1  PROVE insize[m] < Len(s)
    <3>1. n \in 1..Len(s) /\ m \in 1..Len(s) /\ ~(n <= m) /\ m \in Nat
      BY <2>1
    <3>2. m \notin I
      BY <2>5, <3>1
    <3>3. insize[m] \in Nat
      BY <3>1, InsizeGrows
    <3> QED BY <2>1, <2>2, <3>1, <3>2, <3>3
  <2> QED BY <2>1, <2>5, <2>6
<1>2. PICK last \in 1..Len(s) : core_list_mergesort(s, key) = Passes(s, key)[last] /\ insize[last] >= Len(s)
  <2>1. core_list_mergesort(s, key) = Passes(s, key)[CHOOSE n \in 1..Len(s) : Enough(n)]
    BY DEF core_list_mergesort
  <2> HIDE DEF Enough
  <2>2. PICK last : last = CHOOSE n \in 1..Len(s) : Enough(n)
    OBVIOUS
  <2>3. last \in 1..Len(s) /\ Enough(last)
    BY <1>1, <2>2
  <2> QED BY <2>1, <2>2, <2>3 DEF Enough
<1>3. PICK r \in Seq(N) : r = core_list_mergesort(s, key) /\ Shuffles(r, s) /\ RunsInOrder(r, insize[last], key)
  <2>1. last \in Nat
    OBVIOUS
  <2> QED BY <1>2, <2>1, PassesSort
<1>4. PICK w \in Nat : w = insize[last] /\ w >= Len(s)
  <2>1. last \in Nat
    OBVIOUS
  <2>2. insize[last] \in Nat
    BY <2>1, InsizeGrows
  <2> QED BY <1>2, <2>2
<1>5. ASSUME NEW n \in 1..Len(r) - 1  PROVE key[r[n]] <= key[r[n + 1]]
  <2>1. Len(r) = Len(s)
    BY <1>3 DEF Shuffles
  <2>2. n \in Nat /\ n < w /\ n # 0
    BY <1>4, <2>1
  <2>3. (0 * w + n) % w = n /\ 0 * w + n = n
    <3>1. 0 \in Nat /\ w \in Nat /\ n \in Nat
      BY <2>2
    <3>2. (0 * w + n) % w = n
      BY <2>2, <3>1, DivModIs, Zenon
    <3>3. 0 * w + n = n
      OBVIOUS
    <3> QED BY <3>2, <3>3
  <2>4. n % w # 0
    BY <2>2, <2>3
  <2> QED BY <1>3, <1>4, <2>4 DEF RunsInOrder
<1> QED BY <1>3, <1>5 DEF InOrder

-----------------------------------------------------------------------------
(* Arrangements of the nodes.                                              *)

\* s has every one of N once.
Arranges(s, N) ==
  /\ s \in Seq(N) /\ Len(s) = Cardinality(N)
  /\ \A n, m \in 1..Len(s) : s[n] = s[m] => n = m
  /\ \A x \in N : \E n \in 1..Len(s) : s[n] = x

\* An arrangement in another order is one.
LEMMA ShuffleArranges ==
  ASSUME NEW N, NEW s, NEW r \in Seq(N), Arranges(s, N), Shuffles(r, s)
  PROVE  Arranges(r, N)
<1>1. PICK P, f : P = 1..Len(s) /\ f \in Injection(P, P) /\ Len(r) = Len(s) /\ \A n \in P : r[n] = s[f[n]]
  BY DEF Shuffles
<1>2. f \in [P -> P] /\ \A n, m \in P : f[n] = f[m] => n = m
  BY <1>1 DEF Injection, IsInjective
<1>3. \A y \in P : \E n \in P : f[n] = y
  <2>1. IsFiniteSet(P)
    <3>1. Len(s) \in Int /\ 1 \in Int
      BY DEF Arranges
    <3> QED BY <1>1, <3>1, FS_Interval
  <2>2. f \in Surjection(P, P)
    BY <1>1, <2>1, FS_Injection
  <2> QED BY <2>2 DEF Surjection
<1>4. ASSUME NEW n \in P, NEW m \in P, r[n] = r[m]  PROVE n = m
  <2>1. s[f[n]] = s[f[m]] /\ f[n] \in P /\ f[m] \in P
    BY <1>1, <1>2, <1>4
  <2>2. f[n] = f[m]
    BY <1>1, <2>1 DEF Arranges
  <2> QED BY <1>2, <2>2
<1>5. ASSUME NEW x \in N  PROVE \E n \in P : r[n] = x
  <2>1. PICK y \in P : s[y] = x
    BY <1>1 DEF Arranges
  <2>2. PICK n \in P : f[n] = y
    BY <1>3
  <2> QED BY <1>1, <2>1, <2>2
<1>6. Len(r) = Cardinality(N)
  BY <1>1 DEF Arranges
<1> QED BY <1>1, <1>4, <1>5, <1>6 DEF Arranges

\* What is in order from item to item is in order.
LEMMA InOrderFar ==
  ASSUME NEW N, NEW s \in Seq(N), NEW key, KeyOf(key, N), InOrder(s, key),
         NEW n \in 1..Len(s), NEW m \in 1..Len(s), n <= m
  PROVE  key[s[n]] <= key[s[m]]
<1> DEFINE S == {d \in Nat : n + d <= Len(s) => key[s[n]] <= key[s[n + d]]}
<1>0. \A i \in 1..Len(s) : key[s[i]] \in Int
  BY DEF KeyOf
<1>1. 0 \in S /\ S \in SUBSET Nat
  <2>1. key[s[n]] \in Int /\ n + 0 = n
    BY <1>0
  <2> QED BY <2>1
<1>2. ASSUME NEW d \in S  PROVE d + 1 \in S
  <2>1. SUFFICES ASSUME n + (d + 1) <= Len(s)  PROVE key[s[n]] <= key[s[n + (d + 1)]]
    OBVIOUS
  <2>2. PICK i \in 1..Len(s) - 1 : i = n + d /\ i + 1 = n + (d + 1)
    <3>1. n + d \in 1..Len(s) - 1
      BY <2>1
    <3> QED BY <3>1
  <2>3. key[s[n]] <= key[s[i]]
    BY <2>2
  <2>4. key[s[i]] <= key[s[i + 1]]
    BY DEF InOrder
  <2>5. PICK a \in Int, b \in Int, c \in Int : a = key[s[n]] /\ b = key[s[i]] /\ c = key[s[i + 1]]
    <3>1. i \in 1..Len(s) /\ i + 1 \in 1..Len(s)
      OBVIOUS
    <3> QED BY <1>0, <3>1
  <2> QED BY <2>2, <2>3, <2>4, <2>5
<1> HIDE DEF S
<1>3. S = Nat
  BY <1>1, <1>2, Induction
<1>4. PICK d \in Nat : n + d = m
  <2>1. m - n \in Nat /\ n + (m - n) = m
    OBVIOUS
  <2> QED BY <2>1
<1>5. d \in S
  BY <1>3
<1>6. n + d <= Len(s) => key[s[n]] <= key[s[n + d]]
  BY <1>5 DEF S
<1>7. m <= Len(s)
  OBVIOUS
<1> QED BY <1>4, <1>6, <1>7

\* Of two arrangements in order none has the lower key at a place.
LEMMA NotBelow ==
  ASSUME NEW N, NEW s, NEW t, NEW key, KeyOf(key, N), Arranges(s, N), Arranges(t, N), InOrder(s, key), InOrder(t, key),
         NEW n \in 1..Len(s)
  PROVE  ~(key[s[n]] < key[t[n]])
<1> SUFFICES ASSUME key[s[n]] < key[t[n]]  PROVE FALSE
  OBVIOUS
<1>1. PICK l \in Nat : l = Len(s) /\ l = Len(t)
  <2>1. Len(s) \in Nat /\ Len(t) = Len(s)
    BY DEF Arranges
  <2> QED BY <2>1
<1>2. ASSUME NEW i \in 1..n  PROVE \E j \in 1..n - 1 : t[j] = s[i]
  <2>1. i \in 1..l /\ n \in 1..l /\ i <= n /\ n \in 1..Len(t)
    BY <1>1
  <2>2. s \in Seq(N) /\ t \in Seq(N) /\ s[i] \in N
    BY <1>1, <2>1 DEF Arranges
  <2>3. PICK j \in 1..Len(t) : t[j] = s[i]
    BY <2>2 DEF Arranges
  <2>4. key[s[i]] <= key[s[n]]
    BY <1>1, <2>1, <2>2, InOrderFar
  <2>5. n <= j => key[t[n]] <= key[t[j]]
    BY <2>1, <2>2, InOrderFar
  <2>6. PICK a \in Int, b \in Int, c \in Int : a = key[s[i]] /\ b = key[s[n]] /\ c = key[t[n]]
    <3>1. n \in 1..Len(s) /\ n \in 1..Len(t)
      BY <2>1
    <3>2. s[n] \in N /\ t[n] \in N
      BY <2>2, <3>1
    <3> QED BY <2>2, <3>2 DEF KeyOf
  <2>7. ~(n <= j)
    BY <2>3, <2>4, <2>5, <2>6
  <2>8. j \in 1..n - 1
    BY <1>1, <2>1, <2>7
  <2> QED BY <2>3, <2>8
<1>3. PICK f : f = [i \in 1..n |-> CHOOSE j \in 1..n - 1 : t[j] = s[i]]
  OBVIOUS
<1>4. \A i \in 1..n : f[i] \in 1..n - 1 /\ t[f[i]] = s[i]
  BY <1>2, <1>3
<1>5. f \in [1..n -> 1..n - 1]
  BY <1>3, <1>4
<1>6. IsFiniteSet(1..n) /\ IsFiniteSet(1..n - 1) /\ Cardinality(1..n - 1) < Cardinality(1..n)
  <2>1. n \in Int /\ n - 1 \in Int /\ 1 \in Int /\ ~(1 > n)
    BY <1>1
  <2>2. IsFiniteSet(1..n) /\ Cardinality(1..n) = IF 1 > n THEN 0 ELSE n - 1 + 1
    BY <2>1, FS_Interval
  <2>3. IsFiniteSet(1..n - 1) /\ Cardinality(1..n - 1) = IF 1 > n - 1 THEN 0 ELSE (n - 1) - 1 + 1
    BY <2>1, FS_Interval
  <2> QED BY <2>1, <2>2, <2>3
<1>7. PICK x \in 1..n, y \in 1..n : x # y /\ f[x] = f[y]
  BY <1>5, <1>6, FS_PigeonHole
<1>8. s[x] = s[y] /\ x \in 1..Len(s) /\ y \in 1..Len(s)
  BY <1>1, <1>4, <1>7
<1> QED BY <1>7, <1>8 DEF Arranges

\* Two arrangements in order have the same keys.
LEMMA SameKeys ==
  ASSUME NEW N, NEW s, NEW t, NEW key, KeyOf(key, N), Arranges(s, N), Arranges(t, N), InOrder(s, key), InOrder(t, key),
         NEW n \in 1..Len(s)
  PROVE  key[s[n]] = key[t[n]]
<1>1. n \in 1..Len(t) /\ s[n] \in N /\ t[n] \in N
  <2>1. Len(s) = Len(t) /\ s \in Seq(N) /\ t \in Seq(N)
    BY DEF Arranges
  <2> QED BY <2>1
<1>2. ~(key[s[n]] < key[t[n]])
  BY NotBelow
<1>3. ~(key[t[n]] < key[s[n]])
  BY <1>1, NotBelow
<1>4. PICK a \in Int, b \in Int : a = key[s[n]] /\ b = key[t[n]]
  BY <1>1 DEF KeyOf
<1> QED BY <1>2, <1>3, <1>4

\* The sort of an arrangement is one.
LEMMA SortArranges ==
  ASSUME NEW N, NEW s, Arranges(s, N), Len(s) # 0, NEW key, KeyOf(key, N)
  PROVE  Arranges(core_list_mergesort(s, key), N) /\ InOrder(core_list_mergesort(s, key), key)
<1>1. s \in Seq(N)
  BY DEF Arranges
<1>2. PICK r \in Seq(N) : r = core_list_mergesort(s, key) /\ Shuffles(r, s) /\ InOrder(r, key)
  BY <1>1, MergesortSorts
<1> QED BY <1>2, ShuffleArranges

\* So is the reverse.
LEMMA ReverseArranges ==
  ASSUME NEW N, NEW s, Arranges(s, N)
  PROVE  Arranges(Reverse(s), N)
<1>1. PICK l \in Nat : l = Len(s) /\ s \in Seq(N)
  BY DEF Arranges
<1>2. PICK f : f = [n \in 1..l |-> (l - n) + 1]
  OBVIOUS
<1>3. \A n \in 1..l : f[n] \in 1..l /\ f[n] = (l - n) + 1
  BY <1>2
<1>4. f \in Injection(1..l, 1..l)
  <2>1. f \in [1..l -> 1..l]
    BY <1>2, <1>3
  <2>2. \A n, m \in 1..l : f[n] = f[m] => n = m
    BY <1>3
  <2> QED BY <2>1, <2>2 DEF Injection, IsInjective
<1>5. PICK r : r = Reverse(s) /\ r = [n \in 1..l |-> s[(l - n) + 1]]
  BY <1>1 DEF Reverse
<1>6. \A n \in 1..l : r[n] = s[f[n]] /\ r[n] \in N
  BY <1>1, <1>3, <1>5
<1>7. r \in Seq(N) /\ Len(r) = l
  <2>1. r \in [1..l -> N]
    BY <1>5, <1>6
  <2> QED BY <1>5, <2>1
<1>8. Shuffles(r, s)
  BY <1>1, <1>4, <1>6, <1>7 DEF Shuffles
<1> QED BY <1>5, <1>7, <1>8, ShuffleArranges

\* r is u and v behind it
Joins(r, u, v, k, h, N) ==
  r \in Seq(N) /\ Len(r) = k + h /\ (\A i \in 1..k : r[i] = u[i]) /\ (\A i \in k + 1..k + h : r[i] = v[i - k])

LEMMA ConcatJoins ==
  ASSUME NEW N, NEW u \in Seq(N), NEW v \in Seq(N), NEW k \in Nat, k = Len(u), NEW h \in Nat, h = Len(v)
  PROVE  Joins(u \o v, u, v, k, h, N)
<1>1. u \o v \in Seq(N) /\ Len(u \o v) = k + h
  BY ConcatProperties
<1>2. \A i \in 1..k + h : (u \o v)[i] = IF i <= k THEN u[i] ELSE v[i - k]
  BY ConcatProperties
<1>3. \A i \in 1..k : (u \o v)[i] = u[i]
  BY <1>2
<1>4. \A i \in k + 1..k + h : (u \o v)[i] = v[i - k]
  BY <1>2
<1> QED BY <1>1, <1>3, <1>4 DEF Joins

\* Two items and two sequences one behind the other.
LEMMA SpliceIs ==
  ASSUME NEW N, NEW a \in N, NEW b \in N, NEW u \in Seq(N), NEW v \in Seq(N),
         NEW k \in Nat, k = Len(u), NEW h \in Nat, h = Len(v)
  PROVE  /\ <<a, b>> \o u \o v \in Seq(N)
         /\ Len(<<a, b>> \o u \o v) = 2 + k + h
         /\ (<<a, b>> \o u \o v)[1] = a /\ (<<a, b>> \o u \o v)[2] = b
         /\ \A n \in 3..2 + k : (<<a, b>> \o u \o v)[n] = u[n - 2]
         /\ \A n \in 3 + k..2 + k + h : (<<a, b>> \o u \o v)[n] = v[n - 2 - k]
<1>1. PICK t \in Seq(N) : t = <<a, b>>
  <2>1. <<a, b>> \in Seq(N)
    OBVIOUS
  <2> QED BY <2>1
<1>2. Len(t) = 2 /\ t[1] = a /\ t[2] = b
  BY <1>1
<1>3. PICK w : w = t \o u /\ Joins(w, t, u, 2, k, N)
  <2>1. Joins(t \o u, t, u, 2, k, N)
    BY <1>2, ConcatJoins
  <2> QED BY <2>1
<1>4. PICK r : r = w \o v /\ Joins(r, w, v, 2 + k, h, N)
  <2>1. w \in Seq(N) /\ Len(w) = 2 + k /\ 2 + k \in Nat
    BY <1>3 DEF Joins
  <2>2. Joins(w \o v, w, v, 2 + k, h, N)
    BY <2>1, ConcatJoins
  <2> QED BY <2>2
<1>5. r[1] = a /\ r[2] = b
  BY <1>2, <1>3, <1>4 DEF Joins
<1>6. ASSUME NEW n \in 3..2 + k  PROVE r[n] = u[n - 2]
  <2>1. n \in 1..2 + k /\ n \in 2 + 1..2 + k
    OBVIOUS
  <2> QED BY <1>3, <1>4, <2>1 DEF Joins
<1>7. ASSUME NEW n \in 3 + k..2 + k + h  PROVE r[n] = v[n - 2 - k]
  <2>1. n \in (2 + k) + 1..(2 + k) + h /\ n - (2 + k) = n - 2 - k
    OBVIOUS
  <2>2. r[n] = v[n - (2 + k)]
    BY <1>4, <2>1 DEF Joins
  <2> QED BY <2>1, <2>2
<1>8. r = <<a, b>> \o u \o v /\ r \in Seq(N) /\ Len(r) = 2 + k + h
  BY <1>1, <1>3, <1>4 DEF Joins
<1> QED BY <1>5, <1>6, <1>7, <1>8

\* An item moved behind the first is one more order of the same items.
LEMMA MoveArranges ==
  ASSUME NEW N, NEW s, Arranges(s, N), NEW node \in N
  PROVE  Arranges(MoveAfter(s, node), N)
<1>1. PICK l \in Nat : l = Len(s) /\ s \in Seq(N)
  BY DEF Arranges
<1>2. PICK at \in 1..l : at = CHOOSE n \in DOMAIN s : s[n] = node
  <2>1. DOMAIN s = 1..l
    BY <1>1
  <2>2. \E n \in DOMAIN s : s[n] = node
    BY <2>1, <1>1 DEF Arranges
  <2> QED BY <2>1, <2>2
<1>3. MoveAfter(s, node) = IF at = l \/ at = 1 THEN s
                           ELSE <<s[1], s[at + 1]>> \o SubSeq(s, 2, at) \o SubSeq(s, at + 2, l)
  BY <1>1, <1>2 DEF MoveAfter
<1>4. SUFFICES ASSUME at # l, at # 1
               PROVE  Arranges(<<s[1], s[at + 1]>> \o SubSeq(s, 2, at) \o SubSeq(s, at + 2, l), N)
  BY <1>3
<1>5. at \in 2..l - 1 /\ 1 \in 1..l /\ at + 1 \in 1..l
  BY <1>2, <1>4
<1>6. PICK u \in Seq(N) : u = SubSeq(s, 2, at) /\ Len(u) = at - 1 /\ \A i \in 1..at - 1 : u[i] = s[2 + i - 1]
  <2>1. \A i \in 2..at : s[i] \in N
    BY <1>1, <1>5
  <2>2. 2 \in Int /\ at \in Int /\ 2 <= at /\ at - 2 + 1 = at - 1
    BY <1>5
  <2>3. /\ SubSeq(s, 2, at) \in Seq(N)
        /\ Len(SubSeq(s, 2, at)) = IF 2 <= at THEN at - 2 + 1 ELSE 0
        /\ \A i \in 1..at - 2 + 1 : SubSeq(s, 2, at)[i] = s[2 + i - 1]
    BY <2>1, <2>2, SubSeqProperties
  <2> QED BY <2>2, <2>3
<1>7. PICK v \in Seq(N) : /\ v = SubSeq(s, at + 2, l) /\ Len(v) = l - at - 1
                          /\ \A i \in 1..l - at - 1 : v[i] = s[at + 2 + i - 1]
  <2>1. \A i \in at + 2..l : s[i] \in N
    BY <1>1, <1>5
  <2>2. at + 2 \in Int /\ l \in Int /\ l - (at + 2) + 1 = l - at - 1 /\ (at + 2 <= l \/ l - at - 1 = 0)
    BY <1>5
  <2>3. /\ SubSeq(s, at + 2, l) \in Seq(N)
        /\ Len(SubSeq(s, at + 2, l)) = IF at + 2 <= l THEN l - (at + 2) + 1 ELSE 0
        /\ \A i \in 1..l - (at + 2) + 1 : SubSeq(s, at + 2, l)[i] = s[at + 2 + i - 1]
    BY <2>1, <2>2, SubSeqProperties
  <2> QED BY <2>2, <2>3
<1>8. PICK k \in Nat, h \in Nat : k = at - 1 /\ h = l - at - 1 /\ k = Len(u) /\ h = Len(v)
  BY <1>5, <1>6, <1>7
<1>9. PICK r \in Seq(N) : /\ r = <<s[1], s[at + 1]>> \o u \o v
                          /\ Len(r) = 2 + k + h /\ r[1] = s[1] /\ r[2] = s[at + 1]
                          /\ \A n \in 3..2 + k : r[n] = u[n - 2]
                          /\ \A n \in 3 + k..2 + k + h : r[n] = v[n - 2 - k]
  <2>1. s[1] \in N /\ s[at + 1] \in N
    BY <1>1, <1>5
  <2>2. PICK a \in N, b \in N : a = s[1] /\ b = s[at + 1]
    BY <2>1
  <2>4. k = Len(u) /\ h = Len(v)
    BY <1>8
  <2>3. /\ <<a, b>> \o u \o v \in Seq(N) /\ Len(<<a, b>> \o u \o v) = 2 + k + h
        /\ (<<a, b>> \o u \o v)[1] = a /\ (<<a, b>> \o u \o v)[2] = b
        /\ \A n \in 3..2 + k : (<<a, b>> \o u \o v)[n] = u[n - 2]
        /\ \A n \in 3 + k..2 + k + h : (<<a, b>> \o u \o v)[n] = v[n - 2 - k]
    BY <2>4, SpliceIs
  <2>5. PICK r : r = <<a, b>> \o u \o v
    OBVIOUS
  <2>6. r = <<s[1], s[at + 1]>> \o u \o v
    BY <2>2, <2>5
  <2>7. r \in Seq(N) /\ Len(r) = 2 + k + h /\ r[1] = s[1] /\ r[2] = s[at + 1]
    BY <2>2, <2>3, <2>5
  <2>8. \A n \in 3..2 + k : r[n] = u[n - 2]
    BY <2>3, <2>5
  <2>9. \A n \in 3 + k..2 + k + h : r[n] = v[n - 2 - k]
    BY <2>3, <2>5
  <2> QED BY <2>6, <2>7, <2>8, <2>9
<1>10. PICK f : f = [n \in 1..l |-> IF n = 1 THEN 1 ELSE IF n = 2 THEN at + 1 ELSE IF n <= at + 1 THEN n - 1 ELSE n]
  OBVIOUS
<1>11. f \in Injection(1..l, 1..l)
  <2>1. f \in [1..l -> 1..l]
    BY <1>5, <1>10
  <2>2. \A n, m \in 1..l : f[n] = f[m] => n = m
    BY <1>5, <1>10
  <2> QED BY <2>1, <2>2 DEF Injection, IsInjective
<1>12. ASSUME NEW n \in 1..l  PROVE r[n] = s[f[n]]
  <2>1. CASE n \in {1, 2}
    BY <1>5, <1>9, <1>10, <2>1
  <2>2. CASE n \in 3..at + 1
    <3>1. n \in 3..2 + k /\ n - 2 \in 1..at - 1 /\ 2 + (n - 2) - 1 = n - 1
      BY <1>5, <1>8, <2>2
    <3>2. r[n] = s[n - 1]
      BY <1>6, <1>9, <3>1
    <3>3. f[n] = n - 1
      BY <1>10, <2>2
    <3> QED BY <3>2, <3>3
  <2>3. CASE n \in at + 2..l
    <3>1. n \in 3 + k..2 + k + h /\ n - 2 - k \in 1..l - at - 1 /\ at + 2 + (n - 2 - k) - 1 = n
      BY <1>5, <1>8, <2>3
    <3>2. r[n] = s[n]
      BY <1>7, <1>9, <3>1
    <3>3. f[n] = n
      BY <1>5, <1>10, <2>3
    <3> QED BY <3>2, <3>3
  <2> QED BY <1>5, <2>1, <2>2, <2>3
<1>13. Len(r) = l
  <2>1. 2 + k + h = l
    BY <1>5, <1>8
  <2> QED BY <1>9, <2>1
<1>14. Shuffles(r, s)
  BY <1>1, <1>11, <1>12, <1>13 DEF Shuffles
<1> QED BY <1>6, <1>7, <1>9, <1>14, ShuffleArranges

-----------------------------------------------------------------------------
(* The calls.                                                              *)

Nodes(b) == 0..Items(b[1]) + 1
Made(b) == InitialInfo(b[1], b[2])

InfoOf(N, i) == i \in [N -> NodeInfo]

\* the nodes have their data, but for the low byte
HaveData(N, made, i) ==
  InfoOf(N, i) /\ \A x \in N : i[x].idx = made[x].idx /\ i[x].hi = made[x].hi

Swapped(i, a, c) == [i EXCEPT ![a] = i[c], ![c] = i[a]]

\* s with its third item gone is l, and the infos of its second and third changed places
Undoes(N, made, l, i, s) ==
  /\ Arranges(s, N) /\ l \in Seq(N) /\ Len(s) = Len(l) + 1
  /\ l[1] = s[1] /\ l[2] = s[2] /\ \A n \in 3..Len(l) : l[n] = s[n + 1]
  /\ InfoOf(N, i) /\ HaveData(N, made, Swapped(i, s[3], s[2]))

\* The invariant: between the calls the data is that made and the list in
\* order of idx; within a call the list has every node and the nodes their
\* data, but for the item removed, which undo can put back.
ListInv ==
  /\ block \in Blocks
  /\ phase = "undo" => \E s : Undoes(Nodes(block), Made(block), list, info, s)
  /\ phase # "undo" => Arranges(list, Nodes(block)) /\ HaveData(Nodes(block), Made(block), info)
  /\ phase = "returned" => info = Made(block) /\ InOrder(list, Idx(Made(block)))

\* The nodes of a block are its items, the header and the tail.
LEMMA NodesAre ==
  ASSUME NEW b \in Blocks
  PROVE  /\ Items(b[1]) \in Nat /\ Items(b[1]) >= 1
         /\ Cardinality(Nodes(b)) = Items(b[1]) + 2
         /\ Made(b) \in [Nodes(b) -> NodeInfo] /\ Header \in Nodes(b)
<1>1. PICK k \in Nat : k = Items(b[1]) /\ k >= 1
  <2>1. b[1] \in Nat /\ b[1] >= 4
    BY ListAssumption
  <2>2. b[1] - 3 \in Nat /\ b[1] - 3 >= 1
    BY <2>1
  <2> QED BY <2>2 DEF Items
<1>2. Cardinality(0..k + 1) = k + 2
  <2>1. 0 \in Int /\ k + 1 \in Int /\ ~(0 > k + 1) /\ (k + 1) - 0 + 1 = k + 2
    OBVIOUS
  <2>2. Cardinality(0..k + 1) = IF 0 > k + 1 THEN 0 ELSE (k + 1) - 0 + 1
    BY <2>1, FS_Interval
  <2> QED BY <2>1, <2>2
<1>3. Made(b) \in [Nodes(b) -> NodeInfo]
  BY WordAssumption DEF Made, Nodes
<1>4. 0 \in 0..k + 1
  OBVIOUS
<1> QED BY <1>1, <1>2, <1>3, <1>4 DEF Nodes, Header

\* The low byte of every item is its high byte when it is made.
LEMMA MadeBytes ==
  ASSUME NEW b \in Blocks, NEW x \in Nodes(b)
  PROVE  Made(b)[x].lo = Made(b)[x].hi
<1>1. PICK k \in Nat : k = Items(b[1])
  BY NodesAre
<1>2. x \in 0..k + 1
  BY <1>1 DEF Nodes
<1> QED BY <1>1, <1>2 DEF Made, InitialInfo

\* Idx is a key of the nodes.
LEMMA IdxIsKey ==
  ASSUME NEW N, NEW i \in [N -> NodeInfo]
  PROVE  KeyOf(Idx(i), N) /\ \A x \in N : Idx(i)[x] = i[x].idx
<1>1. ASSUME NEW x \in N  PROVE Idx(i)[x] = i[x].idx /\ i[x].idx \in Int
  <2>1. DOMAIN i = N /\ i[x] \in NodeInfo
    OBVIOUS
  <2>2. i[x].idx \in HalfWord
    BY <2>1 DEF NodeInfo
  <2>4. HalfWord \subseteq Int
    BY DEF HalfWord
  <2>3. Idx(i)[x] = i[x].idx
    BY <2>1 DEF Idx
  <2> QED BY <2>2, <2>3, <2>4
<1> QED BY <1>1 DEF KeyOf

\* core_list_init makes a list of all nodes, in order.
LEMMA InitialArranges ==
  ASSUME NEW b \in Blocks
  PROVE  /\ Arranges(InitialList(b[1], Made(b)), Nodes(b))
         /\ InOrder(InitialList(b[1], Made(b)), Idx(Made(b)))
<1>1. PICK k \in Nat : /\ k = Items(b[1]) /\ k >= 1 /\ Cardinality(Nodes(b)) = k + 2
                       /\ Made(b) \in [Nodes(b) -> NodeInfo]
  BY NodesAre
<1>2. PICK N : N = Nodes(b) /\ N = 0..k + 1
  BY <1>1 DEF Nodes
<1>3. PICK t : t = [n \in 1..k |-> k + 2 - n]
  OBVIOUS
<1>4. t \in Seq(N) /\ Len(t) = k
  <2>1. t \in [1..k -> N]
    BY <1>2, <1>3
  <2> QED BY <1>3, <2>1
<1>5. PICK u \in Seq(N) : u = <<Header>> /\ Len(u) = 1 /\ u[1] = 0
  <2>1. Header = 0 /\ 0 \in N
    BY <1>1, <1>2 DEF Header
  <2>2. <<Header>> \in Seq(N) /\ Len(<<Header>>) = 1 /\ <<Header>>[1] = 0
    BY <2>1
  <2> QED BY <2>2
<1>6. PICK v \in Seq(N) : v = <<Tail0>> /\ Len(v) = 1 /\ v[1] = 1
  <2>1. Tail0 = 1 /\ 1 \in N
    BY <1>1, <1>2 DEF Tail0
  <2>2. <<Tail0>> \in Seq(N) /\ Len(<<Tail0>>) = 1 /\ <<Tail0>>[1] = 1
    BY <2>1
  <2> QED BY <2>2
<1>7. PICK w : w = u \o t /\ Joins(w, u, t, 1, k, N)
  <2>1. Joins(u \o t, u, t, 1, k, N)
    BY <1>1, <1>4, <1>5, ConcatJoins
  <2> QED BY <2>1
<1>8. PICK s : s = w \o v /\ Joins(s, w, v, 1 + k, 1, N) /\ s \in Seq(N) /\ Len(s) = k + 2
  <2>1. w \in Seq(N) /\ Len(w) = 1 + k /\ 1 + k \in Nat
    BY <1>7 DEF Joins
  <2>2. Joins(w \o v, w, v, 1 + k, 1, N)
    BY <1>6, <2>1, ConcatJoins
  <2>3. w \o v \in Seq(N) /\ Len(w \o v) = k + 2
    BY <2>2 DEF Joins
  <2> QED BY <2>2, <2>3
<1>9. s[1] = 0 /\ s[k + 2] = 1
  <2>1. 1 \in 1..1 + k /\ k + 2 \in (1 + k) + 1..(1 + k) + 1 /\ k + 2 - (1 + k) = 1
    OBVIOUS
  <2>2. s[1] = w[1] /\ s[k + 2] = v[k + 2 - (1 + k)]
    BY <1>8, <2>1 DEF Joins
  <2>3. w[1] = u[1]
    BY <1>7 DEF Joins
  <2> QED BY <1>5, <1>6, <2>1, <2>2, <2>3
<1>10. ASSUME NEW n \in 2..k + 1  PROVE s[n] = k + 3 - n
  <2>1. n \in 1..1 + k /\ n \in 1 + 1..1 + k /\ n - 1 \in 1..k
    OBVIOUS
  <2>2. s[n] = t[n - 1]
    BY <1>7, <1>8, <2>1 DEF Joins
  <2> QED BY <1>3, <2>1, <2>2
<1>11. Arranges(s, N)
  <2>1. Len(s) = k + 2 /\ Cardinality(N) = k + 2
    BY <1>1, <1>2, <1>8
  <2>2. \A n, m \in 1..k + 2 : s[n] = s[m] => n = m
    <3>1. \A n \in 1..k + 2 : \/ n = 1 /\ s[n] = 0
                              \/ n = k + 2 /\ s[n] = 1
                              \/ n \in 2..k + 1 /\ s[n] = k + 3 - n
      BY <1>9, <1>10
    <3> QED BY <3>1
  <2>3. ASSUME NEW x \in N  PROVE \E n \in 1..k + 2 : s[n] = x
    <3>1. CASE x = 0
      BY <1>9, <3>1
    <3>2. CASE x = 1
      BY <1>9, <3>2
    <3>3. CASE x # 0 /\ x # 1
      <4>1. x \in 2..k + 1
        BY <1>2, <3>3
      <4>3. k + 3 - x \in 2..k + 1 /\ k + 3 - (k + 3 - x) = x
        BY <4>1
      <4>2. s[k + 3 - x] = x
        BY <1>10, <4>3
      <4> QED BY <4>2, <4>3
    <3> QED BY <1>2, <3>1, <3>2, <3>3
  <2>4. 1..Len(s) = 1..k + 2 /\ s \in Seq(N)
    BY <1>8
  <2> QED BY <2>1, <2>2, <2>3, <2>4 DEF Arranges
<1>12. InitialList(b[1], Made(b)) = core_list_mergesort(s, Idx(Made(b)))
  BY <1>1, <1>3, <1>5, <1>6, <1>7, <1>8 DEF InitialList
<1>13. KeyOf(Idx(Made(b)), N)
  BY <1>1, <1>2, IdxIsKey
<1>14. Len(s) # 0
  BY <1>8
<1> QED BY <1>2, <1>11, <1>12, <1>13, <1>14, SortArranges

LEMMA IdxTellsNodes ==
  ASSUME IdxTellsItems, NEW b \in Blocks, NEW n \in Nodes(b), NEW m \in Nodes(b)
  PROVE  /\ n # Header => Made(b)[n].idx > Made(b)[Header].idx
         /\ Made(b)[n].idx = Made(b)[m].idx => Made(b)[n] = Made(b)[m]
<1>1. DOMAIN Made(b) = Nodes(b)
  BY NodesAre
<1>2. IdxTells(Made(b))
  BY DEF IdxTellsItems, Made
<1>3. PICK made : made = Made(b)
  OBVIOUS
<1>4. n \in DOMAIN made /\ m \in DOMAIN made /\ IdxTells(made)
  BY <1>1, <1>2, <1>3
<1>5. /\ n # Header => made[n].idx > made[Header].idx
      /\ made[n].idx = made[m].idx => made[n] = made[m]
  BY <1>4 DEF IdxTells
<1> QED BY <1>3, <1>5

\* The next call starts with the whole list: the header is its first.
LEMMA HeaderIsFirst ==
  ASSUME IdxTellsItems, NEW b \in Blocks, NEW s, Arranges(s, Nodes(b)), InOrder(s, Idx(Made(b)))
  PROVE  SubSeq(s, CHOOSE n \in DOMAIN s : s[n] = Header, Len(s)) = s
<1>1. PICK l \in Nat : l = Len(s) /\ s \in Seq(Nodes(b)) /\ DOMAIN s = 1..l
  BY DEF Arranges
<1>2. Made(b) \in [Nodes(b) -> NodeInfo] /\ Header \in Nodes(b)
  BY NodesAre
<1>3. KeyOf(Idx(Made(b)), Nodes(b)) /\ \A x \in Nodes(b) : Idx(Made(b))[x] = Made(b)[x].idx
  BY <1>2, IdxIsKey
<1>4. PICK h \in 1..l : s[h] = Header
  BY <1>1, <1>2 DEF Arranges
<1>5. 1 \in 1..l /\ 1 <= h /\ s[1] \in Nodes(b)
  BY <1>1, <1>4
<1>6. Idx(Made(b))[s[1]] <= Idx(Made(b))[s[h]]
  BY <1>1, <1>3, <1>4, <1>5, InOrderFar
<1>7. s[1] = Header
  <2>1. s[1] # Header => Made(b)[s[1]].idx > Made(b)[Header].idx
    BY <1>2, <1>5, IdxTellsNodes
  <2>2. PICK i \in Int, j \in Int : i = Idx(Made(b))[s[1]] /\ j = Idx(Made(b))[Header]
    BY <1>2, <1>3, <1>5 DEF KeyOf
  <2> QED BY <1>2, <1>3, <1>4, <1>5, <1>6, <2>1, <2>2
<1>8. (CHOOSE n \in DOMAIN s : s[n] = Header) = 1
  <2>1. \A n \in DOMAIN s : s[n] = Header => n = 1
    BY <1>1, <1>5, <1>7 DEF Arranges
  <2> QED BY <1>1, <1>5, <1>7, <2>1
<1> QED BY <1>1, <1>8, SubSeqFull

LEMMA SwappedTwice ==
  ASSUME NEW N, NEW i, InfoOf(N, i), NEW a \in N, NEW c \in N
  PROVE  InfoOf(N, Swapped(i, a, c)) /\ Swapped(Swapped(i, a, c), c, a) = i
<1>0. i \in [N -> NodeInfo]
  BY DEF InfoOf
<1>1. /\ Swapped(i, a, c) \in [N -> NodeInfo]
      /\ \A x \in N : Swapped(i, a, c)[x] = IF x = c THEN i[a] ELSE IF x = a THEN i[c] ELSE i[x]
  BY <1>0 DEF Swapped
<1>2. PICK j \in [N -> NodeInfo] :
        j = Swapped(i, a, c) /\ \A x \in N : j[x] = IF x = c THEN i[a] ELSE IF x = a THEN i[c] ELSE i[x]
  BY <1>1
<1>3. /\ Swapped(j, c, a) \in [N -> NodeInfo]
      /\ \A x \in N : Swapped(j, c, a)[x] = IF x = a THEN j[c] ELSE IF x = c THEN j[a] ELSE j[x]
  BY DEF Swapped
<1>4. \A x \in N : Swapped(j, c, a)[x] = i[x]
  BY <1>2, <1>3
<1>5. Swapped(j, c, a) = i
  BY <1>0, <1>3, <1>4
<1> QED BY <1>1, <1>2, <1>5 DEF InfoOf

\* core_list_remove leaves what undo needs.
LEMMA RemoveUndoes ==
  ASSUME NEW N, NEW made, NEW s, Arranges(s, N), NEW i, HaveData(N, made, i), Len(s) >= 3
  PROVE  Undoes(N, made, SubSeq(s, 1, 2) \o SubSeq(s, 4, Len(s)), Swapped(i, s[2], s[3]), s)
<1>1. PICK k \in Nat : k = Len(s) - 3 /\ Len(s) = 3 + k /\ s \in Seq(N)
  <2>1. Len(s) \in Nat /\ s \in Seq(N)
    BY DEF Arranges
  <2>2. Len(s) - 3 \in Nat /\ Len(s) = 3 + (Len(s) - 3)
    BY <2>1
  <2> QED BY <2>1, <2>2, Zenon
<1>2. PICK u \in Seq(N) : u = SubSeq(s, 1, 2) /\ Len(u) = 2 /\ \A n \in 1..2 : u[n] = s[1 + n - 1]
  <2>1. \A n \in 1..2 : s[n] \in N
    BY <1>1
  <2>2. /\ SubSeq(s, 1, 2) \in Seq(N)
        /\ Len(SubSeq(s, 1, 2)) = IF 1 <= 2 THEN 2 - 1 + 1 ELSE 0
        /\ \A n \in 1..2 - 1 + 1 : SubSeq(s, 1, 2)[n] = s[1 + n - 1]
    BY <2>1, SubSeqProperties
  <2>3. 2 - 1 + 1 = 2 /\ 1 <= 2
    OBVIOUS
  <2> QED BY <2>2, <2>3
<1>3. PICK v \in Seq(N) : v = SubSeq(s, 4, Len(s)) /\ Len(v) = k /\ \A n \in 1..k : v[n] = s[4 + n - 1]
  <2>1. \A n \in 4..3 + k : s[n] \in N
    BY <1>1
  <2>2. /\ SubSeq(s, 4, 3 + k) \in Seq(N)
        /\ Len(SubSeq(s, 4, 3 + k)) = IF 4 <= 3 + k THEN 3 + k - 4 + 1 ELSE 0
        /\ \A n \in 1..3 + k - 4 + 1 : SubSeq(s, 4, 3 + k)[n] = s[4 + n - 1]
    BY <2>1, SubSeqProperties
  <2>3. 3 + k - 4 + 1 = k /\ (4 <= 3 + k \/ k = 0)
    OBVIOUS
  <2> QED BY <1>1, <2>2, <2>3
<1>4. PICK l : l = u \o v /\ Joins(l, u, v, 2, k, N)
  <2>1. Joins(u \o v, u, v, 2, k, N)
    BY <1>2, <1>3, ConcatJoins
  <2> QED BY <2>1
<1>5. l \in Seq(N) /\ Len(l) = 2 + k /\ l[1] = s[1] /\ l[2] = s[2]
  BY <1>2, <1>4 DEF Joins
<1>6. ASSUME NEW n \in 3..2 + k  PROVE l[n] = s[n + 1]
  <2>1. n \in 2 + 1..2 + k /\ n - 2 \in 1..k /\ 4 + (n - 2) - 1 = n + 1
    OBVIOUS
  <2>2. l[n] = v[n - 2]
    BY <1>4, <2>1 DEF Joins
  <2> QED BY <1>3, <2>1, <2>2
<1>7. s[2] \in N /\ s[3] \in N
  BY <1>1
<1>8. InfoOf(N, Swapped(i, s[2], s[3])) /\ Swapped(Swapped(i, s[2], s[3]), s[3], s[2]) = i
  <2>1. InfoOf(N, i)
    BY DEF HaveData
  <2>2. PICK a \in N, c \in N : a = s[2] /\ c = s[3]
    BY <1>7
  <2>3. InfoOf(N, Swapped(i, a, c)) /\ Swapped(Swapped(i, a, c), c, a) = i
    BY <2>1, SwappedTwice
  <2> QED BY <2>2, <2>3
<1>9. Len(s) = Len(l) + 1
  BY <1>1, <1>5
<1>10. \A n \in 3..Len(l) : l[n] = s[n + 1]
  BY <1>5, <1>6
<1>11. l = SubSeq(s, 1, 2) \o SubSeq(s, 4, Len(s))
  BY <1>2, <1>3, <1>4
<1>12. Undoes(N, made, l, Swapped(i, s[2], s[3]), s)
  <2>1. HaveData(N, made, Swapped(Swapped(i, s[2], s[3]), s[3], s[2]))
    BY <1>8
  <2> QED BY <1>5, <1>8, <1>9, <1>10, <2>1 DEF Undoes
<1> QED BY <1>11, <1>12, Zenon

\* The node not in the list is the one removed.
LEMMA RemovedIs ==
  ASSUME NEW N, NEW made, NEW l, NEW i, NEW s, Undoes(N, made, l, i, s), Len(s) >= 3
  PROVE  (CHOOSE x \in N : x \notin ToSet(l)) = s[3]
<1>1. PICK k \in Nat : /\ k = Len(l) /\ k >= 2 /\ Len(s) = k + 1 /\ DOMAIN l = 1..k
                       /\ s \in Seq(N)
  BY DEF Undoes, Arranges
<1>2. /\ l[1] = s[1] /\ l[2] = s[2] /\ \A n \in 3..k : l[n] = s[n + 1]
      /\ \A n, m \in 1..k + 1 : s[n] = s[m] => n = m
      /\ \A x \in N : \E n \in 1..k + 1 : s[n] = x
  BY <1>1 DEF Undoes, Arranges
<1>3. s[3] \in N
  BY <1>1
<1>4. s[3] \notin ToSet(l)
  <2>1. SUFFICES ASSUME NEW n \in 1..k, l[n] = s[3]  PROVE FALSE
    BY <1>1 DEF ToSet
  <2>2. CASE n \in 1..2
    <3>1. s[n] = s[3] /\ n \in 1..k + 1 /\ 3 \in 1..k + 1 /\ n # 3
      BY <1>1, <1>2, <2>1, <2>2
    <3> QED BY <1>2, <3>1
  <2>3. CASE n \in 3..k
    <3>1. s[n + 1] = s[3] /\ n + 1 \in 1..k + 1 /\ 3 \in 1..k + 1 /\ n + 1 # 3
      BY <1>1, <1>2, <2>1, <2>3
    <3> QED BY <1>2, <3>1
  <2> QED BY <2>2, <2>3
<1>5. ASSUME NEW x \in N, x # s[3]  PROVE x \in ToSet(l)
  <2>1. PICK n \in 1..k + 1 : s[n] = x /\ n # 3
    BY <1>2, <1>5
  <2>2. CASE n \in 1..2
    <3>1. n \in 1..k /\ l[n] = x
      BY <1>1, <1>2, <2>1, <2>2
    <3> QED BY <1>1, <3>1 DEF ToSet
  <2>3. CASE n \in 4..k + 1
    <3>1. n - 1 \in 3..k /\ n - 1 \in 1..k /\ (n - 1) + 1 = n
      BY <2>3
    <3>2. l[n - 1] = x
      BY <1>2, <2>1, <3>1
    <3> QED BY <1>1, <3>1, <3>2 DEF ToSet
  <2> QED BY <2>1, <2>2, <2>3
<1>6. \A x \in N : x \notin ToSet(l) <=> x = s[3]
  BY <1>4, <1>5
<1> QED BY <1>3, <1>6

\* core_list_undo_remove makes the list as it was before.
LEMMA UndoPutsBack ==
  ASSUME NEW N, NEW made, NEW l, NEW i, NEW s, Undoes(N, made, l, i, s), Len(s) >= 3
  PROVE  <<l[1], l[2], s[3]>> \o SubSeq(l, 3, Len(l)) = s
<1>1. PICK k \in Nat : k = Len(s) - 3 /\ Len(s) = 3 + k /\ Len(l) = 2 + k /\ s \in Seq(N) /\ l \in Seq(N)
  <2>1. Len(l) \in Nat /\ l \in Seq(N) /\ Len(s) = Len(l) + 1 /\ s \in Seq(N)
    BY DEF Undoes, Arranges
  <2>2. PICK k \in Nat : k = Len(l) - 2 /\ Len(l) = 2 + k
    <3>1. Len(l) - 2 \in Nat /\ Len(l) = 2 + (Len(l) - 2)
      BY <2>1
    <3> QED BY <3>1, Zenon
  <2>3. k = Len(s) - 3 /\ Len(s) = 3 + k
    BY <2>1, <2>2
  <2> QED BY <2>1, <2>2, <2>3, Zenon
<1>2. l[1] = s[1] /\ l[2] = s[2] /\ \A n \in 3..2 + k : l[n] = s[n + 1]
  BY <1>1 DEF Undoes
<1>3. PICK t \in Seq(N) : t = <<l[1], l[2], s[3]>> /\ Len(t) = 3 /\ t[1] = s[1] /\ t[2] = s[2] /\ t[3] = s[3]
  <2>1. l[1] \in N /\ l[2] \in N /\ s[3] \in N
    BY <1>1
  <2>2. PICK a \in N, b \in N, c \in N : a = l[1] /\ b = l[2] /\ c = s[3]
    BY <2>1
  <2>3. <<a, b, c>> \in Seq(N) /\ Len(<<a, b, c>>) = 3
    OBVIOUS
  <2>4. <<a, b, c>>[1] = a /\ <<a, b, c>>[2] = b /\ <<a, b, c>>[3] = c
    OBVIOUS
  <2> QED BY <1>2, <2>2, <2>3, <2>4
<1>4. PICK v \in Seq(N) : v = SubSeq(l, 3, Len(l)) /\ Len(v) = k /\ \A n \in 1..k : v[n] = l[3 + n - 1]
  <2>1. \A n \in 3..2 + k : l[n] \in N
    BY <1>1
  <2>2. /\ SubSeq(l, 3, 2 + k) \in Seq(N)
        /\ Len(SubSeq(l, 3, 2 + k)) = IF 3 <= 2 + k THEN 2 + k - 3 + 1 ELSE 0
        /\ \A n \in 1..2 + k - 3 + 1 : SubSeq(l, 3, 2 + k)[n] = l[3 + n - 1]
    BY <2>1, SubSeqProperties
  <2>3. 2 + k - 3 + 1 = k /\ (3 <= 2 + k \/ k = 0)
    OBVIOUS
  <2> QED BY <1>1, <2>2, <2>3
<1>5. PICK r : r = t \o v /\ Joins(r, t, v, 3, k, N)
  <2>1. Joins(t \o v, t, v, 3, k, N)
    BY <1>3, <1>4, ConcatJoins
  <2> QED BY <2>1
<1>6. r \in Seq(N) /\ Len(r) = Len(s)
  BY <1>1, <1>5 DEF Joins
<1>7. ASSUME NEW n \in 1..Len(r)  PROVE r[n] = s[n]
  <2>1. n \in 1..3 + k
    BY <1>1, <1>6
  <2>2. CASE n \in 1..3
    <3>1. r[n] = t[n]
      BY <1>5, <2>2 DEF Joins
    <3> QED BY <1>3, <2>2, <3>1
  <2>3. CASE n \in 4..3 + k
    <3>1. n \in 3 + 1..3 + k /\ n - 3 \in 1..k /\ 3 + (n - 3) - 1 = n - 1 /\ n - 1 \in 3..2 + k /\ (n - 1) + 1 = n
      BY <2>3
    <3>2. r[n] = v[n - 3]
      BY <1>5, <3>1 DEF Joins
    <3>3. v[n - 3] = l[n - 1]
      BY <1>4, <3>1
    <3>4. l[n - 1] = s[n]
      BY <1>2, <3>1
    <3> QED BY <3>2, <3>3, <3>4
  <2> QED BY <2>1, <2>2, <2>3
<1>8. r = s
  BY <1>1, <1>6, <1>7, SeqEqual
<1> QED BY <1>3, <1>4, <1>5, <1>8

\* Nodes that have what they were made with but for the low byte are as made
\* when the low byte is the high one.
LEMMA BytesBack ==
  ASSUME NEW b \in Blocks, NEW i, HaveData(Nodes(b), Made(b), i)
  PROVE  [x \in DOMAIN i |-> [i[x] EXCEPT !.lo = i[x].hi]] = Made(b)
<1>1. PICK N, made : N = Nodes(b) /\ made = Made(b) /\ made \in [N -> NodeInfo]
  BY NodesAre
<1>2. i \in [N -> NodeInfo]
  BY <1>1 DEF HaveData, InfoOf
<1>3. ASSUME NEW x \in N  PROVE [i[x] EXCEPT !.lo = i[x].hi] = made[x]
  <2>1. PICK r \in NodeInfo, t \in NodeInfo : r = i[x] /\ t = made[x]
    BY <1>1, <1>2
  <2>2. r.idx = t.idx /\ r.hi = t.hi
    BY <1>1, <2>1 DEF HaveData
  <2>3. t.lo = t.hi
    BY <1>1, <2>1, MadeBytes
  <2>4. [r EXCEPT !.lo = r.hi] = t
    BY <2>2, <2>3 DEF NodeInfo
  <2> QED BY <2>1, <2>4
<1>4. DOMAIN i = N /\ DOMAIN made = N
  BY <1>1, <1>2
<1>5. made = [x \in N |-> made[x]]
  BY <1>1
<1>6. [x \in DOMAIN i |-> [i[x] EXCEPT !.lo = i[x].hi]] = [x \in N |-> made[x]]
  BY <1>3, <1>4
<1> QED BY <1>1, <1>5, <1>6

\* What a node has does not change with its low byte.
LEMMA BytesChange ==
  ASSUME NEW N, NEW made, NEW i, HaveData(N, made, i), NEW value, \A x \in N : value[x] \in 0..127
  PROVE  HaveData(N, made, [x \in DOMAIN i |-> [i[x] EXCEPT !.lo = 128 + value[x]]])
<1>1. i \in [N -> NodeInfo] /\ DOMAIN i = N
  BY DEF HaveData, InfoOf
<1>2. PICK j : j = [x \in DOMAIN i |-> [i[x] EXCEPT !.lo = 128 + value[x]]]
  OBVIOUS
<1>3. ASSUME NEW x \in N  PROVE j[x] \in NodeInfo /\ j[x].idx = made[x].idx /\ j[x].hi = made[x].hi
  <2>1. PICK r \in NodeInfo : r = i[x]
    BY <1>1
  <2>2. PICK v \in Byte : v = 128 + value[x]
    <3>1. 128 + value[x] \in Byte
      BY DEF Byte
    <3> QED BY <3>1
  <2>3. j[x] = [r EXCEPT !.lo = v]
    BY <1>1, <1>2, <2>1, <2>2
  <2>4. [r EXCEPT !.lo = v] \in NodeInfo /\ [r EXCEPT !.lo = v].idx = r.idx /\ [r EXCEPT !.lo = v].hi = r.hi
    BY DEF NodeInfo
  <2>5. r.idx = made[x].idx /\ r.hi = made[x].hi
    BY <2>1 DEF HaveData
  <2> QED BY <2>3, <2>4, <2>5
<1>4. j \in [N -> NodeInfo]
  <2>1. DOMAIN j = N /\ j = [x \in DOMAIN j |-> j[x]]
    BY <1>1, <1>2
  <2> QED BY <1>3, <2>1
<1>5. HaveData(N, made, j)
  BY <1>3, <1>4 DEF HaveData, InfoOf
<1> QED BY <1>2, <1>5

\* Every arrangement of a block's nodes has three nodes or more.
LEMMA LongEnough ==
  ASSUME NEW b \in Blocks, NEW s, Arranges(s, Nodes(b))
  PROVE  Len(s) >= 3 /\ s \in Seq(Nodes(b)) /\ Len(s) # 0
<1>1. PICK k \in Nat : k = Items(b[1]) /\ k >= 1 /\ Cardinality(Nodes(b)) = k + 2
  BY NodesAre
<1>2. Len(s) = k + 2 /\ s \in Seq(Nodes(b))
  BY <1>1 DEF Arranges
<1>3. k + 2 >= 3 /\ k + 2 # 0
  BY <1>1
<1> QED BY <1>2, <1>3

LEMMA ListInvInit == ListInit => ListInv
<1> SUFFICES ASSUME ListInit  PROVE ListInv
  OBVIOUS
<1>1. PICK b \in Blocks : b = block
  BY DEF ListInit
<1>2. info = Made(b) /\ list = InitialList(b[1], Made(b)) /\ phase = "returned"
  BY <1>1 DEF ListInit, Made
<1>3. Arranges(list, Nodes(b)) /\ InOrder(list, Idx(Made(b)))
  BY <1>2, InitialArranges
<1>4. HaveData(Nodes(b), Made(b), info)
  BY <1>2, NodesAre DEF HaveData, InfoOf
<1> QED BY <1>1, <1>2, <1>3, <1>4 DEF ListInv

\* Finding turns the list round and moves items; every node stays.
LEMMA FindKeeps ==
  ASSUME ListInv, Find
  PROVE  ListInv'
<1>1. PICK b \in Blocks : b = block
  BY DEF ListInv
<1>2. phase = "find" /\ block' = block /\ info' = info /\ phase' = phase
  BY DEF Find
<1>3. Arranges(list, Nodes(b)) /\ HaveData(Nodes(b), Made(b), info)
  BY <1>1, <1>2 DEF ListInv
<1>4. Arranges(Reverse(list), Nodes(b))
  BY <1>3, ReverseArranges
<1>5. Arranges(list', Nodes(b))
  <2>1. CASE this_find = {}
    BY <1>4, <2>1 DEF Find
  <2>2. CASE this_find # {}
    <3>1. PICK node : node = CHOOSE x \in this_find : TRUE
      OBVIOUS
    <3>2. node \in this_find
      BY <2>2, <3>1
    <3>3. node \in Nodes(b)
      <4>1. list \in Seq(Nodes(b))
        BY <1>1, <1>3, LongEnough
      <4> QED BY <3>2, <4>1 DEF this_find
    <3>4. list' = MoveAfter(Reverse(list), node)
      BY <2>2, <3>1 DEF Find
    <3> QED BY <1>4, <3>3, <3>4, MoveArranges
  <2> QED BY <2>1, <2>2
<1> QED BY <1>1, <1>2, <1>3, <1>5 DEF ListInv

LEMMA SortByDataKeeps ==
  ASSUME ListInv, SortByData
  PROVE  ListInv'
<1>1. PICK b \in Blocks : b = block
  BY DEF ListInv
<1>2. phase = "sort" /\ block' = block /\ phase' = "remove"
  BY DEF SortByData
<1>3. Arranges(list, Nodes(b)) /\ HaveData(Nodes(b), Made(b), info)
  BY <1>1, <1>2 DEF ListInv
<1>4. PICK value \in Calculated :
        /\ info' = [node \in DOMAIN info |-> [info[node] EXCEPT !.lo = 128 + value[node]]]
        /\ list' = core_list_mergesort(list, value)
  BY DEF SortByData
<1>5. info \in [Nodes(b) -> NodeInfo] /\ DOMAIN info = Nodes(b)
  BY <1>3 DEF HaveData, InfoOf
<1>6. ASSUME NEW x \in Nodes(b)  PROVE value[x] \in 0..127
  <2>1. PICK retval \in [Runs -> BenchValues] :
          value = [node \in DOMAIN info |-> IF node \in DOMAIN retval THEN retval[node] ELSE info[node].lo % 128]
    BY <1>4 DEF Calculated
  <2>2. value[x] = IF x \in DOMAIN retval THEN retval[x] ELSE info[x].lo % 128
    BY <1>5, <2>1
  <2>3. x \in DOMAIN retval => retval[x] \in 0..127
    BY <2>1, ListAssumption
  <2>4. info[x].lo % 128 \in 0..127
    <3>1. info[x].lo \in Byte
      BY <1>5 DEF NodeInfo
    <3>2. PICK lo \in Nat : lo = info[x].lo
      BY <3>1 DEF Byte
    <3>3. lo % 128 \in 0..128 - 1
      OBVIOUS
    <3> QED BY <3>2, <3>3
  <2> QED BY <2>2, <2>3, <2>4
<1>7. KeyOf(value, Nodes(b))
  BY <1>6 DEF KeyOf
<1>8. Arranges(list', Nodes(b))
  BY <1>1, <1>3, <1>4, <1>7, LongEnough, SortArranges
<1>9. HaveData(Nodes(b), Made(b), info')
  BY <1>3, <1>4, <1>6, BytesChange
<1> QED BY <1>1, <1>2, <1>8, <1>9 DEF ListInv

LEMMA RemoveItemKeeps ==
  ASSUME ListInv, RemoveItem
  PROVE  ListInv'
<1>1. PICK b \in Blocks : b = block
  BY DEF ListInv
<1>2. phase = "remove" /\ block' = block /\ phase' = "undo"
  BY DEF RemoveItem
<1>3. Arranges(list, Nodes(b)) /\ HaveData(Nodes(b), Made(b), info) /\ Len(list) >= 3
  BY <1>1, <1>2, LongEnough DEF ListInv
<1>4. info' = Swapped(info, list[2], list[3]) /\ list' = SubSeq(list, 1, 2) \o SubSeq(list, 4, Len(list))
  BY DEF RemoveItem, Exchange, Swapped
<1>5. Undoes(Nodes(b), Made(b), list', info', list)
  BY <1>3, <1>4, RemoveUndoes
<1> QED BY <1>1, <1>2, <1>5 DEF ListInv

LEMMA UndoRemoveKeeps ==
  ASSUME ListInv, UndoRemove
  PROVE  ListInv'
<1>1. PICK b \in Blocks : b = block
  BY DEF ListInv
<1>2. phase = "undo" /\ block' = block /\ phase' = "order"
  BY DEF UndoRemove
<1>3. PICK s : Undoes(Nodes(b), Made(b), list, info, s)
  BY <1>1, <1>2 DEF ListInv
<1>4. Arranges(s, Nodes(b)) /\ list[2] = s[2]
  BY <1>3 DEF Undoes
<1>5. Len(s) >= 3
  BY <1>1, <1>4, LongEnough
<1>6. DOMAIN info = Nodes(b)
  BY <1>3 DEF Undoes, InfoOf
<1>7. (CHOOSE node \in DOMAIN info : node \notin ToSet(list)) = s[3]
  BY <1>3, <1>5, <1>6, RemovedIs
<1>8. info' = Swapped(info, s[3], s[2])
  BY <1>4, <1>7 DEF UndoRemove, Exchange, Swapped
<1>9. list' = <<list[1], list[2], s[3]>> \o SubSeq(list, 3, Len(list))
  BY <1>7 DEF UndoRemove
<1>10. list' = s
  BY <1>3, <1>5, <1>9, UndoPutsBack
<1>11. HaveData(Nodes(b), Made(b), info')
  BY <1>3, <1>8 DEF Undoes
<1> QED BY <1>1, <1>2, <1>4, <1>10, <1>11 DEF ListInv

LEMMA SortByIdxKeeps ==
  ASSUME ListInv, SortByIdx
  PROVE  ListInv'
<1>1. PICK b \in Blocks : b = block
  BY DEF ListInv
<1>2. phase = "order" /\ block' = block /\ phase' = "returned"
  BY DEF SortByIdx
<1>3. Arranges(list, Nodes(b)) /\ HaveData(Nodes(b), Made(b), info)
  BY <1>1, <1>2 DEF ListInv
<1>4. info' = Made(b)
  BY <1>3, BytesBack DEF SortByIdx
<1>5. Idx(info) = Idx(Made(b))
  <2>1. info \in [Nodes(b) -> NodeInfo] /\ DOMAIN info = Nodes(b) /\ DOMAIN Made(b) = Nodes(b)
    BY <1>3, NodesAre DEF HaveData, InfoOf
  <2>2. \A x \in Nodes(b) : info[x].idx = Made(b)[x].idx
    BY <1>3 DEF HaveData
  <2> QED BY <2>1, <2>2 DEF Idx
<1>6. list' = core_list_mergesort(list, Idx(Made(b)))
  BY <1>5 DEF SortByIdx
<1>7. Made(b) \in [Nodes(b) -> NodeInfo]
  BY NodesAre
<1>8. KeyOf(Idx(Made(b)), Nodes(b))
  BY <1>7, IdxIsKey
<1>9. Arranges(list', Nodes(b)) /\ InOrder(list', Idx(Made(b)))
  BY <1>1, <1>3, <1>6, <1>8, LongEnough, SortArranges
<1>10. HaveData(Nodes(b), Made(b), info')
  BY <1>4, <1>7 DEF HaveData, InfoOf
<1> QED BY <1>1, <1>2, <1>4, <1>9, <1>10 DEF ListInv

\* Every step of core_bench_list keeps the invariant.
LEMMA ListInvNext ==
  ASSUME IdxTellsItems, ListInv, [ListNext]_listVars
  PROVE  ListInv'
<1>1. CASE Begin
  <2>1. PICK b \in Blocks : b = block
    BY DEF ListInv
  <2>2. phase = "returned" /\ block' = block /\ info' = info /\ phase' = "find" /\ list' = FromHeader
    BY <1>1 DEF Begin
  <2>3. Arranges(list, Nodes(b)) /\ HaveData(Nodes(b), Made(b), info) /\ InOrder(list, Idx(Made(b)))
    BY <2>1, <2>2 DEF ListInv
  <2>4. FromHeader = list
    BY <2>3, HeaderIsFirst DEF FromHeader
  <2> QED BY <2>1, <2>2, <2>3, <2>4 DEF ListInv
<1>2. CASE Find
  BY <1>2, FindKeeps
<1>3. CASE FindsDone
  <2>1. phase = "find" /\ block' = block /\ info' = info /\ list' = list /\ phase' \in {"sort", "remove"}
    BY <1>3 DEF FindsDone
  <2> QED BY <2>1 DEF ListInv
<1>4. CASE SortByData
  BY <1>4, SortByDataKeeps
<1>5. CASE RemoveItem
  BY <1>5, RemoveItemKeeps
<1>6. CASE UndoRemove
  BY <1>6, UndoRemoveKeeps
<1>7. CASE SortByIdx
  BY <1>7, SortByIdxKeeps
<1>8. CASE UNCHANGED listVars
  BY <1>8 DEF listVars, ListInv
<1> QED BY <1>1, <1>2, <1>3, <1>4, <1>5, <1>6, <1>7, <1>8 DEF ListNext

LEMMA ListInvRestores ==
  ASSUME IdxTellsItems, ListInv
  PROVE  ListRestored
<1> SUFFICES ASSUME phase = "returned"
             PROVE  [n \in DOMAIN FromHeader |-> info[FromHeader[n]]]
                    = [n \in DOMAIN InitialList(block[1], Made(block)) |->
                         Made(block)[InitialList(block[1], Made(block))[n]]]
  BY DEF ListRestored, Made
<1>1. PICK b \in Blocks : b = block
  BY DEF ListInv
<1>2. PICK N, made, before : N = Nodes(b) /\ made = Made(b) /\ before = InitialList(b[1], Made(b))
  OBVIOUS
<1>3. Arranges(list, N) /\ InOrder(list, Idx(made)) /\ info = made
  BY <1>1, <1>2 DEF ListInv
<1>4. FromHeader = list
  BY <1>2, <1>3, HeaderIsFirst DEF FromHeader
<1>5. Arranges(before, N) /\ InOrder(before, Idx(made))
  BY <1>2, InitialArranges
<1>6. made \in [N -> NodeInfo]
  BY <1>2, NodesAre
<1>7. KeyOf(Idx(made), N) /\ \A x \in N : Idx(made)[x] = made[x].idx
  BY <1>6, IdxIsKey
<1>8. DOMAIN list = DOMAIN before /\ DOMAIN list = 1..Len(list) /\ DOMAIN before = 1..Len(before)
  BY <1>3, <1>5 DEF Arranges
<1>9. ASSUME NEW n \in DOMAIN list  PROVE made[list[n]] = made[before[n]]
  <2>1. n \in 1..Len(list)
    BY <1>8, <1>9
  <2>2. Idx(made)[list[n]] = Idx(made)[before[n]]
    BY <1>3, <1>5, <1>7, <2>1, SameKeys
  <2>3. list[n] \in N /\ before[n] \in N
    <3>1. n \in 1..Len(before)
      BY <1>8, <2>1
    <3> QED BY <1>3, <1>5, <2>1, <3>1 DEF Arranges
  <2>4. made[list[n]].idx = made[before[n]].idx
    BY <1>7, <2>2, <2>3
  <2> QED BY <1>2, <2>3, <2>4, IdxTellsNodes
<1>10. [n \in DOMAIN list |-> made[list[n]]] = [n \in DOMAIN before |-> made[before[n]]]
  BY <1>8, <1>9
<1> QED BY <1>1, <1>2, <1>3, <1>4, <1>10

\* Every call of core_bench_list leaves the list that core_list_init made, for
\* lists of any size and seeds that give every item an idx above the header's
\* and equal idx only to equal items.
THEOREM ListIsRestored ==
  ASSUME IdxTellsItems
  PROVE  ListSpec => []ListRestored
<1>1. ListInv /\ [ListNext]_listVars => ListInv'
  BY ListInvNext
<1>2. ListInv => ListRestored
  BY ListInvRestores
<1> QED BY <1>1, <1>2, ListInvInit, PTL DEF ListSpec

=============================================================================
