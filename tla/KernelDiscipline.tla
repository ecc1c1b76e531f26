--------------------------- MODULE KernelDiscipline ---------------------------
(***************************************************************************)
(* What the functions of a kernel have to do, each on its own, for the     *)
(* kernel's memory to be in order whatever the interleaving of the         *)
(* contexts: a property of the kernel's text, which KernelLife_proofs      *)
(* starts from.  Nothing in it depends on the number of contexts or of     *)
(* iterations, so that evaluating it settles it.                           *)
(***************************************************************************)
EXTENDS KernelLife

Pairs == Fields \X Hows

MainFunctions    == {"define", "clean"}
ContextFunctions == {"init", "bench", "verify", "fini"}

News(op, f)  == op.do = "new" /\ op.f = f
Frees(op, f) == op.do = "free" /\ op.f = f

\* What a function holds before its operation p, when it is entered holding
\* start: <<field, how it was allocated>>.
Held(ops, start, p) ==
  {b \in Pairs :
     \/ b \in start /\ \A r \in 1..(p - 1) : ~Frees(ops[r], b[1])
     \/ \E q \in 1..(p - 1) : /\ News(ops[q], b[1]) /\ ops[q].how = b[2]
                              /\ \A r \in (q + 1)..(p - 1) : ~Frees(ops[r], b[1])}

AtEnd(ops, start) == Held(ops, start, Len(ops) + 1)

\* What a function is entered with: the caller of bmark_clean has what
\* define_params left, a context what its functions left one after the other.
Kept(k)      == AtEnd(Program[k].define, {})
AfterInit(k) == AtEnd(Program[k].init, {})
AfterRun(k)  == AtEnd(Program[k].bench, AfterInit(k))

Start(k, fn) == CASE fn \in {"define", "init"} -> {}
                  [] fn = "clean" -> Kept(k)
                  [] fn = "bench" -> AfterInit(k)
                  [] OTHER        -> AfterRun(k)

HeldAt(k, fn, p) == Held(Program[k][fn], Start(k, fn), p)

\* The fields a function allocates before its operation p, and those that
\* are allocated before it is called.
NewBefore(ops, p) == {f \in Fields : \E q \in 1..(p - 1) : News(ops[q], f)}

Allocated(k, fn) == NewBefore(Program[k][fn], Len(Program[k][fn]) + 1)

Earlier(k, fn) == CASE fn \in {"define", "init"} -> {}
                    [] fn = "clean"  -> Allocated(k, "define")
                    [] fn = "bench"  -> Allocated(k, "init")
                    [] fn = "verify" -> Allocated(k, "init") \cup Allocated(k, "bench")
                    [] OTHER -> Allocated(k, "init") \cup Allocated(k, "bench") \cup Allocated(k, "verify")

\* The fields whose pointer is no longer what it was: null in params, and
\* what params has in the copy of a context.
Touched(k, fn, p) == Earlier(k, fn) \cup NewBefore(Program[k][fn], p)

OwnFields(held) == {f \in Fields : \E how \in Hows : <<f, how>> \in held}

\* A pointer that nobody has ever set.
NeverSet(k, fn, p, f) ==
  /\ f \in Fields \ Touched(k, fn, p)
  /\ fn \in ContextFunctions => f \notin Allocated(k, "define")

\* One operation: a field that is held is not allocated again; what is
\* released is held, or a null pointer; only what is held is written; what is
\* read is held, or belongs to params and is still what the copy took over.
Respects(k, fn, p) ==
  LET op   == Program[k][fn][p]
      held == HeldAt(k, fn, p)
  IN  /\ op.do \in {"new", "free", "read", "write", "readParams", "copyParams"}
      /\ op.do = "new"   => <<op.f, op.how>> \in Pairs /\ op.f \notin OwnFields(held)
      /\ op.do = "free"  => <<op.f, op.how>> \in held \/ NeverSet(k, fn, p, op.f)
      /\ op.do = "write" => op.f \in OwnFields(held)
      /\ op.do = "read"  => \/ op.f \in OwnFields(held)
                            \/ /\ fn \in ContextFunctions
                               /\ op.f \in OwnFields(Kept(k)) \ Touched(k, fn, p)
      /\ op.do = "readParams" => fn \in ContextFunctions /\ op.f \in OwnFields(Kept(k))
      /\ op.do = "copyParams" => fn = "init" /\ p = 2

\* A function that is left with something to release.
Leftovers(ops, start) == {b \in AtEnd(ops, start) : b[2] # "static"}

\* A kernel: bmark_init allocates the structure and copies params first, the
\* verification leaves what it finds, bmark_fini releases all there is and
\* bmark_clean all that is not static.
Disciplined(k) ==
  /\ k \in DOMAIN Program
  /\ Len(Program[k].init) >= 2
  /\ News(Program[k].init[1], "self")
  /\ Program[k].init[2].do = "copyParams"
  /\ \A fn \in MainFunctions \cup ContextFunctions :
       /\ Len(Program[k][fn]) \in Nat
       /\ \A p \in 1..Len(Program[k][fn]) : Respects(k, fn, p)
  /\ AtEnd(Program[k].verify, AfterRun(k)) = AfterRun(k)
  /\ AtEnd(Program[k].fini, AfterRun(k)) = {}
  /\ Leftovers(Program[k].clean, Kept(k)) = {}

\* What keeps a kernel from being disciplined: its operations that do not
\* respect the rules, and the fields whose blocks nobody releases.
Offences(k) ==
  UNION {{<<fn, Program[k][fn][p].do, Program[k][fn][p].f>> :
            p \in {q \in 1..Len(Program[k][fn]) : ~Respects(k, fn, q)}} :
           fn \in MainFunctions \cup ContextFunctions}

Unreleased(k) == OwnFields(Leftovers(Program[k].fini, AfterRun(k)) \cup Leftovers(Program[k].clean, Kept(k)))

=============================================================================
