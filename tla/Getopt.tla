------------------------------- MODULE Getopt -------------------------------
(***************************************************************************)
(* th_getopt_long of th_getopt.c, called until it returns -1: what it      *)
(* keeps between calls in globals, the options it takes apart, and the     *)
(* permutation of argv that brings the non-options to its end.  A text is  *)
(* the sequence of its characters; argv holds the numbers the texts had on *)
(* the command line, argv[0] left out.  longopts is not NULL; messages and  *)
(* optopt are left out.                                                    *)
(***************************************************************************)
EXTENDS Integers, Sequences, SequencesExt, FiniteSetsExt

CONSTANTS
  Vectors,     \* the command lines, sequences of texts without the program's name
  Optstrings,  \* [prefix, colon]: "-", "+" or "" and whether a colon follows
  Letters,     \* the letters of optstring: "none", "required", "optional" argument, or "W;"
  LongOptions  \* the sequence longopts of [name, has_arg, flag, val]

ASSUME OptionsAssumption ==
  \A v \in Vectors : v \in Seq(ToSet(v)) /\ \A t \in ToSet(v) : t \in Seq(ToSet(t))

VARIABLES
  text,          \* the command line
  optstring,
  argv,
  th_optind,
  nextchar,      \* the rest of the element being scanned; <<>> for NULL and for its end
  first_nonopt, last_nonopt,
  initialized,   \* __getopt_initialized
  returned,      \* what the calls have returned: [c, why, optarg, longind]
  done           \* the last call returned -1

optionVars == <<text, optstring, argv, th_optind, nextchar, first_nonopt, last_nonopt, initialized, returned, done>>

argc == Len(argv) + 1
None == {}       \* th_optarg = NULL, as a set of texts

Ordering == CASE optstring.prefix = "-" -> "RETURN_IN_ORDER"
              [] optstring.prefix = "+" -> "REQUIRE_ORDER"
              [] OTHER -> "PERMUTE"

\* NONOPTION_P
NONOPTION_P(t) == Len(t) < 2 \/ t[1] # "-"

\* The first call skips the prefix of optstring; later calls still see it as a letter.
Prefix == IF initialized THEN {optstring.prefix} \ {""} ELSE {}
Takes(c) == IF c \notin Prefix THEN Letters[c] ELSE IF optstring.colon THEN "required" ELSE "none"
Missing == IF optstring.colon /\ Prefix = {} THEN ":" ELSE "?"

-----------------------------------------------------------------------------
(* Permutation.                                                            *)

SwapSegments(v, i, j, len) ==
  [k \in DOMAIN v |-> IF k \in i..i + len - 1 THEN v[k - i + j]
                      ELSE IF k \in j..j + len - 1 THEN v[k - j + i] ELSE v[k]]

\* Mutant: the shorter segment is swapped once and the rest left.
ExchangeOnce(v, bottom, middle, top) ==
  IF top - middle > middle - bottom THEN SwapSegments(v, bottom, top - (middle - bottom), middle - bottom)
  ELSE SwapSegments(v, bottom, middle, top - middle)

\* A turn of the loop: the shorter of the segments bottom..middle-1 and middle..top-1 goes to its place.
SwapShorter(middle, r) ==
  LET low == middle - r.bottom
      high == r.top - middle
  IN IF low <= 0 \/ high <= 0 THEN r
     ELSE IF high > low
          THEN [bottom |-> r.bottom, top |-> r.top - low, v |-> SwapSegments(r.v, r.bottom, r.top - low, low)]
          ELSE [bottom |-> r.bottom + high, top |-> r.top, v |-> SwapSegments(r.v, r.bottom, middle, high)]

\* Every turn but those after the last brings bottom and top closer.
exchange(v, bottom, middle, top) ==
  LET turns[n \in Nat] == IF n = 0 THEN [bottom |-> bottom, top |-> top, v |-> v] ELSE SwapShorter(middle, turns[n - 1])
  IN turns[top - bottom].v

At(v, i) == text[v[i]]

\* The options processed since the last non-options change places with these.
Exchanged(s) ==
  IF s.first # s.last /\ s.last # s.optind
  THEN [s EXCEPT !.argv = exchange(s.argv, s.first, s.last, s.optind),
                 !.first = s.first + s.optind - s.last, !.last = s.optind]
  ELSE s

NextOption(v, i) == CHOOSE j \in i..argc : /\ \A k \in i..j - 1 : NONOPTION_P(At(v, k))
                                           /\ j = argc \/ ~NONOPTION_P(At(v, j))

\* Non-options are passed over to the next element that is none.
Skipped(s) ==
  LET e == Exchanged(s)
      f == IF s.first # s.last \/ s.last = s.optind THEN e.first ELSE s.optind
      next == NextOption(e.argv, s.optind)
  IN IF Ordering = "PERMUTE" THEN [e EXCEPT !.first = f, !.optind = next, !.last = next] ELSE s

\* "--" ends the options: it goes to them, and what follows is non-options.
Ended(s) ==
  IF s.optind # argc /\ At(s.argv, s.optind) = <<"-", "-">>
  THEN LET after == [s EXCEPT !.optind = s.optind + 1]
           e == Exchanged(after)
       IN [e EXCEPT !.first = IF s.first = s.last THEN after.optind ELSE e.first, !.last = argc, !.optind = argc]
  ELSE s

\* The next element, first_nonopt and last_nonopt no further than th_optind.
Advanced ==
  Ended(Skipped([argv |-> argv, optind |-> th_optind, first |-> Min({first_nonopt, th_optind}),
                 last |-> Min({last_nonopt, th_optind}), nextchar |-> <<>>, W |-> FALSE]))

\* the middle of an element of several letters
Within == [argv |-> argv, optind |-> th_optind, first |-> first_nonopt, last |-> last_nonopt,
           nextchar |-> nextchar, W |-> FALSE]

-----------------------------------------------------------------------------
(* One option.  s is the state of the scan; an outcome is the state after  *)
(* it and what the call returns.                                           *)

Outcome(s, c, why, optarg, longind) == [s |-> s, ret |-> [c |-> c, why |-> why, optarg |-> optarg, longind |-> longind]]

\* ++th_optind
Past(s) == [s EXCEPT !.optind = @ + 1]

Rest(t, i) == SubSeq(t, i, Len(t))
NameEnd(t) == CHOOSE i \in 1..Len(t) + 1 : (i = Len(t) + 1 \/ t[i] = "=") /\ \A j \in 1..i - 1 : t[j] # "="

Matches(name) == {i \in DOMAIN LongOptions : IsPrefix(name, LongOptions[i].name)}
ExactMatches(name) == {i \in Matches(name) : LongOptions[i].name = name}
Found(name) == IF ExactMatches(name) # {} THEN Min(ExactMatches(name)) ELSE Min(Matches(name))

\* abbreviations of options that differ in nothing but their names are not ambiguous, except after -W
Same(i, j) == [LongOptions[i] EXCEPT !.name = <<>>] = [LongOptions[j] EXCEPT !.name = <<>>]
Ambiguous(name, W) ==
  ExactMatches(name) = {} /\ \E i, j \in Matches(name) : i # j /\ (W \/ ~Same(i, j))

\* The option with the long name at the start of t; s.optind is past the element it ends.
TakeLong(s, t) ==
  LET e == NameEnd(t)
      option == LongOptions[Found(SubSeq(t, 1, e - 1))]
      c == IF option.flag THEN "0" ELSE option.val
      kept == IF s.W THEN {t} ELSE None
      Answer(after, arg) == Outcome(after, c, "option", arg, {Found(SubSeq(t, 1, e - 1))})
  IN IF e <= Len(t)
     THEN IF option.has_arg # "none" THEN Answer(s, {Rest(t, e + 1)})
          ELSE Outcome(s, "?", "allows no argument", kept, {})
     ELSE IF option.has_arg # "required" THEN Answer(s, kept)
     ELSE IF s.optind < argc THEN Answer(Past(s), {At(s.argv, s.optind)})
     ELSE Outcome(s, Missing, "requires an argument", kept, {})

LongOption(s, t) ==
  LET name == SubSeq(t, 1, NameEnd(t) - 1)
      past == [Past(s) EXCEPT !.nextchar = <<>>]
  IN IF Ambiguous(name, FALSE) THEN Outcome(past, "?", "ambiguous", None, {})
     ELSE IF Matches(name) # {} THEN TakeLong(past, t)
     ELSE Outcome(past, "?", "unrecognized", None, {})

\* -W foo is --foo; an ambiguous one passes over the element after it.
WOption(s, t) ==
  LET name == SubSeq(t, 1, NameEnd(t) - 1)
  IN IF Ambiguous(name, TRUE) THEN Outcome(Past(s), "?", "ambiguous -W", {t}, {})
     ELSE IF Matches(name) # {} THEN TakeLong([s EXCEPT !.W = TRUE], t)
     ELSE Outcome(s, "W", "option", {t}, {})

Argument(s, c, arg) == IF Takes(c) = "W;" THEN WOption(s, arg) ELSE Outcome(s, c, "option", {arg}, {})

\* A letter whose argument is the rest of the element or the element after it.
WithArgument(s, c) ==
  IF s.nextchar # <<>> THEN Argument([Past(s) EXCEPT !.nextchar = <<>>], c, s.nextchar)
  ELSE IF s.optind = argc THEN Outcome(s, Missing, "requires an argument", None, {})
  ELSE Argument(Past(s), c, At(s.argv, s.optind))

ShortOption(s) ==
  LET c == Head(s.nextchar)
      rest == Tail(s.nextchar)
      past == [IF rest = <<>> THEN Past(s) ELSE s EXCEPT !.nextchar = rest]
  IN IF c \notin DOMAIN Letters \cup Prefix THEN Outcome(past, "?", "illegal", None, {})
     ELSE IF Takes(c) = "none" \/ (Takes(c) = "optional" /\ rest = <<>>)
     THEN Outcome(past, c, "option", None, {})
     ELSE WithArgument(past, c)

-----------------------------------------------------------------------------

OptionsInit ==
  /\ text \in Vectors
  /\ optstring \in Optstrings
  /\ argv = [i \in DOMAIN text |-> i]
  /\ th_optind = 1 /\ first_nonopt = 1 /\ last_nonopt = 1
  /\ nextchar = <<>> /\ initialized = FALSE /\ returned = <<>> /\ done = FALSE

Store(o) ==
  /\ argv' = o.s.argv /\ th_optind' = o.s.optind /\ nextchar' = o.s.nextchar
  /\ first_nonopt' = o.s.first /\ last_nonopt' = o.s.last
  /\ initialized' = TRUE
  /\ returned' = Append(returned, o.ret)
  /\ UNCHANGED <<text, optstring>>

EndOfOptions ==
  /\ nextchar = <<>>
  /\ \/ /\ Advanced.optind = argc
        /\ LET s == Advanced
           IN Store(Outcome([s EXCEPT !.optind = IF s.first # s.last THEN s.first ELSE argc], "-1", "end", None, {}))
     \/ /\ Advanced.optind # argc /\ NONOPTION_P(At(Advanced.argv, Advanced.optind)) /\ Ordering = "REQUIRE_ORDER"
        /\ Store(Outcome(Advanced, "-1", "end", None, {}))
  /\ done' = TRUE

NonOption ==
  /\ nextchar = <<>> /\ Advanced.optind # argc /\ NONOPTION_P(At(Advanced.argv, Advanced.optind))
  /\ Ordering = "RETURN_IN_ORDER"
  /\ LET s == Advanced IN Store(Outcome(Past(s), "1", "non-option", {At(s.argv, s.optind)}, {}))
  /\ UNCHANGED done

Option ==
  LET s == IF nextchar # <<>> THEN Within ELSE Advanced
  IN /\ s.optind # argc /\ ~NONOPTION_P(At(s.argv, s.optind))
     /\ LET t == At(s.argv, s.optind)
        IN Store(IF t[2] = "-" THEN LongOption(s, Rest(t, 3))
                 ELSE ShortOption([s EXCEPT !.nextchar = IF nextchar = <<>> THEN Tail(t) ELSE nextchar]))
     /\ UNCHANGED done

\* An ambiguous -W at the end of the command line leaves th_optind behind argc;
\* what another call would do, reading outside argv, is not modelled.
th_getopt_long == ~done /\ th_optind <= argc /\ (EndOfOptions \/ NonOption \/ Option)

OptionsSpec == OptionsInit /\ [][th_getopt_long]_optionVars /\ WF_optionVars(th_getopt_long)

-----------------------------------------------------------------------------
(* Properties.                                                             *)

Increasing(v) == \A i, j \in DOMAIN v : i < j => v[i] < v[j]

\* When the options end, argv holds the elements of the command line, first the
\* options and their arguments and then, from th_optind on, the non-options,
\* each part in the order of the command line, whatever the exchanges before:
\* what is left are non-options or follows a "--" (or, in "+" order, the first
\* non-option), and a non-option among the options was the argument of the one
\* before it, or the name of the option after -W, or was returned.
GetoptPermutes ==
  LET scanned == SubSeq(argv, 1, th_optind - 1)
      left == SubSeq(argv, th_optind, Len(argv))
      Given(i) == \/ \E k \in DOMAIN returned : text[i] \in returned[k].optarg
                  \/ i > 1 /\ Len(text[i - 1]) > 1 /\ Last(text[i - 1]) \in {c \in DOMAIN Letters : Letters[c] = "W;"}
      Terminated(i) == \E j \in ToSet(scanned) : j < i /\ text[j] = <<"-", "-">>
  IN done /\ (\A k \in DOMAIN returned : returned[k].why # "ambiguous -W") =>
       /\ ToSet(argv) = DOMAIN text /\ Increasing(scanned) /\ Increasing(left)
       /\ \A i \in ToSet(left) : \/ NONOPTION_P(text[i])
                                 \/ Terminated(i)
                                 \/ Ordering = "REQUIRE_ORDER" /\ NONOPTION_P(text[Head(left)])
       /\ \A i \in ToSet(scanned) : NONOPTION_P(text[i]) => Given(i)

=============================================================================
