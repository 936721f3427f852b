--------------------------- MODULE PythonScoping ---------------------------
(***************************************************************************)
(* What names mean in Python: which variable each name of a program stands *)
(* for, when its functions and classes are entered any number of times.    *)
(***************************************************************************)
EXTENDS NestedScopes

CONSTANTS Values,
          Programs,     \* a set of programs
          MaxFrames     \* a bound on how many scopes are entered

Unbound == "unbound"
Nothing == "nothing"    \* no name was read yet

VARIABLES program,
          frames,       \* the scopes entered: their variables, and at, the
                        \* frame of each scope around them
          out           \* what the last read gave: a value, or Unbound
vars == <<program, frames, out>>

Frame(s, at, args) ==
  [scope |-> s, at |-> at, vars |-> [x \in Names |-> IF x \in DOMAIN args THEN args[x] ELSE Unbound]]
FrameOf(f, x) == frames[f].at[VariableScope(program, frames[f].scope, x)]
\* A class body looks for its own names in the module next.
Lookup(f, x) ==
  LET here == frames[FrameOf(f, x)].vars[x]
  IN  IF here = Unbound /\ FrameOf(f, x) = f THEN frames[Module].vars[x] ELSE here
NameValue(f, x) ==
  IF program[frames[f].scope].kind = "class" THEN Lookup(f, x) ELSE frames[FrameOf(f, x)].vars[x]

Init ==
  /\ program \in Programs /\ Accepted(program)
  /\ frames = <<Frame(Module, [s \in {Module} |-> 1], <<>>)>>
  /\ out = Nothing

\* A function or class of the scope of f is entered from anywhere.
Enter(f, c, args) ==
  /\ Len(frames) < MaxFrames
  /\ frames' = Append(frames, Frame(c, Extend(frames[f].at, [s \in {c} |-> Len(frames) + 1]), args))
  /\ UNCHANGED <<program, out>>

Read(f, x) ==
  /\ out' = NameValue(f, x)
  /\ UNCHANGED <<program, frames>>

Write(f, x, v) ==
  /\ frames' = [frames EXCEPT ![FrameOf(f, x)].vars[x] = v]
  /\ UNCHANGED <<program, out>>

Next ==
  \E f \in DOMAIN frames :
    LET s == frames[f].scope IN
    \/ \E c \in DOMAIN program : Child(program, s, c)
                                 /\ \E args \in [program[c].params -> Values] : Enter(f, c, args)
    \/ \E x \in program[s].loads : Read(f, x)
    \/ \E x \in program[s].stores, v \in Values : Write(f, x, v)
    \/ \E x \in program[s].dels : Write(f, x, Unbound)

Spec == Init /\ [][Next]_vars
=============================================================================
