------------------------ MODULE ModuleRuntime_proofs ------------------------
(***************************************************************************)
(* Proofs about ModuleRuntime.  The inductive invariant says, for each     *)
(* thread, where on its context stack each of its calls has pushed: that   *)
(* is what makes a return, which only knows how much its call pushed,      *)
(* uncover the context of the call below.                                  *)
(***************************************************************************)
EXTENDS ModuleRuntime, SequenceTheorems, TLAPS

\* The one context of a module.
Home(m) == [home |-> m, cache |-> 1]

\* FunctionIds tell modules apart: each module object has its own session.
SessionsOK ==
  /\ nextSession > 0
  /\ \A m \in Modules : session[m] < nextSession /\ (session[m] = 0 <=> state[m] = "absent")
  /\ \A m, n \in Modules : session[m] = session[n] /\ session[m] # 0 => m = n

\* A function has the identity and the context of the module of its code.
ObjectsOK ==
  \A o \in Objs : Exists(o) =>
    /\ object[o].code \in Modules /\ session[object[o].code] # 0
    /\ object[o].id = session[object[o].code]
    /\ object[o].context = Home(object[o].code)

\* A function that is being called exists, and a context borrowed for it is
\* the one of its module.
FramesOK ==
  \A t \in Threads : \A i \in 1..Depth(t) :
    LET o == frames[t][i].callee IN
    Exists(o) /\ frames[t][i].making \in {NoContext, Home(object[o].code)}

\* The module init function of a running exec_module has no other call.
InitsOK ==
  \A t, u \in Threads : \A i \in 1..Depth(t), j \in 1..Depth(u) :
    frames[t][i].exec /\ frames[u][j].callee = frames[t][i].callee => t = u /\ i = j

\* Calls f of functions among obj account for the context stack s.
End(f, i) == f[i].base + f[i].pushed
Follows(obj, f, s) ==
  /\ Len(f) = 0 => s = <<>>
  /\ Len(f) > 0 => f[1].base = 0 /\ End(f, Len(f)) = Len(s)
  /\ \A i \in 1..Len(f) :
       /\ End(f, i) <= Len(s)
       /\ i < Len(f) => End(f, i) = f[i + 1].base
       /\ \A k \in f[i].base + 1 .. End(f, i) : s[k] = Home(obj[f[i].callee].code)
  /\ \A i, j \in 1..Len(f) : i < j => End(f, i) <= f[j].base
  /\ \A k \in 1..Len(s) : s[k] = Home(s[k].home)

StacksOK == \A t \in Threads : Follows(object, frames[t], stack[t])

IInv ==
  /\ TypeOK /\ SessionsOK /\ ObjectsOK /\ FramesOK /\ InitsOK /\ StacksOK
  /\ DumpedOnce /\ FirstCallMakes

-----------------------------------------------------------------------------
\* What the lemmas below need to know of a sequence of calls.
Counts(f) == Len(f) \in Nat /\ \A i \in 1..Len(f) : f[i].base \in Nat /\ f[i].pushed \in Nat

\* One more call, h[Len(f) + 1], and on the stack what it pushes.
LEMMA PushFollows ==
  ASSUME NEW obj, NEW f, NEW s, Counts(f), Len(s) \in Nat, Follows(obj, f, s),
         NEW h, Counts(h), Len(h) = Len(f) + 1, \A i \in 1..Len(f) : h[i] = f[i],
         h[Len(f) + 1].base = Len(s),
         NEW s2, Len(s2) = Len(s) + h[Len(f) + 1].pushed,
         \A k \in 1..Len(s) : s2[k] = s[k],
         \A k \in Len(s) + 1 .. Len(s2) : s2[k] = Home(obj[h[Len(f) + 1].callee].code)
  PROVE  Follows(obj, h, s2)
<1> DEFINE n == Len(h)
<1>1. n \in Nat \ {0} /\ Len(f) = n - 1 /\ \A i \in 1..n : h[i].base \in Nat /\ h[i].pushed \in Nat
  BY DEF Counts
<1>2. End(h, n) = Len(s2) /\ h[n].base = Len(s) /\ Len(s2) \in Nat /\ Len(s) <= Len(s2)
  BY <1>1 DEF End
<1>3. h[1].base = 0
  <2>1. CASE n = 1
    BY <1>1, <2>1, EmptySeq DEF Follows
  <2>2. CASE n > 1
    BY <1>1, <2>2 DEF Follows
  <2>3. QED
    BY <1>1, <2>1, <2>2
<1>4. ASSUME NEW i \in 1..n - 1
      PROVE  h[i] = f[i] /\ End(h, i) = End(f, i) /\ End(h, i) <= Len(s) /\ i \in 1..n
  BY <1>1 DEF Follows, End
<1>5. ASSUME NEW i \in 1..n
      PROVE  /\ End(h, i) <= Len(s2)
             /\ i < n => End(h, i) = h[i + 1].base
             /\ \A k \in h[i].base + 1 .. End(h, i) : s2[k] = Home(obj[h[i].callee].code)
  <2>1. CASE i = n
    BY <1>1, <1>2, <2>1
  <2>2. CASE i # n
    <3>1. i \in 1..n - 1
      BY <1>1, <2>2
    <3>2. End(h, i) <= Len(s2)
      BY <1>1, <1>2, <1>4, <3>1 DEF End
    <3>3. End(h, i) = h[i + 1].base
      <4>1. CASE i = n - 1
        BY <1>1, <1>2, <1>4, <3>1, <4>1 DEF Follows
      <4>2. CASE i # n - 1
        <5>1. i + 1 \in 1..n - 1 /\ i < n - 1
          BY <1>1, <3>1, <4>2
        <5>2. i \in 1..Len(f) /\ i < Len(f) /\ h[i + 1] = f[i + 1]
          BY <1>1, <1>4, <3>1, <5>1
        <5>3. End(f, i) = f[i + 1].base
          BY <5>2 DEF Follows
        <5>4. QED
          BY <1>4, <3>1, <5>2, <5>3
      <4>3. QED
        BY <4>1, <4>2
    <3>4. ASSUME NEW k \in h[i].base + 1 .. End(h, i)
          PROVE  s2[k] = Home(obj[h[i].callee].code)
      <4>1. k \in 1..Len(s)
        BY <1>1, <1>4, <3>1 DEF End
      <4>2. QED
        BY <1>1, <1>4, <3>1, <4>1 DEF Follows
    <3>5. QED
      BY <3>2, <3>3, <3>4
  <2>3. QED
    BY <2>1, <2>2
<1>6. ASSUME NEW i \in 1..n, NEW j \in 1..n, i < j
      PROVE  End(h, i) <= h[j].base
  <2>1. i \in 1..n - 1
    BY <1>1, <1>6
  <2>2. CASE j = n
    BY <1>2, <1>4, <2>1, <2>2
  <2>3. CASE j # n
    <3>1. j \in 1..n - 1
      BY <1>1, <2>3
    <3>2. QED
      BY <1>1, <1>4, <1>6, <2>1, <3>1 DEF Follows
  <2>4. QED
    BY <2>2, <2>3
<1>7. ASSUME NEW k \in 1..Len(s2)
      PROVE  s2[k] = Home(s2[k].home)
  <2>1. CASE k \in 1..Len(s)
    BY <2>1 DEF Follows
  <2>2. CASE k \notin 1..Len(s)
    <3>1. k \in Len(s) + 1 .. Len(s2)
      BY <1>2, <2>2
    <3>2. QED
      BY <3>1 DEF Home
  <2>3. QED
    BY <2>1, <2>2
<1>8. QED
  BY <1>1, <1>2, <1>3, <1>5, <1>6, <1>7 DEF Follows

\* One call less, and off the stack what it had pushed.
LEMMA PopFollows ==
  ASSUME NEW obj, NEW f, NEW s, Counts(f), Len(s) \in Nat, Follows(obj, f, s),
         NEW h, Len(h) = Len(f) - 1, \A i \in 1..Len(h) : h[i] = f[i],
         Len(f) > 0,
         NEW s2, Len(s2) = Len(s) - f[Len(f)].pushed, Len(s2) = 0 => s2 = <<>>,
         \A k \in 1..Len(s2) : s2[k] = s[k]
  PROVE  Follows(obj, h, s2)
<1> DEFINE n == Len(f)
<1>1. n \in Nat \ {0} /\ Len(h) = n - 1 /\ \A i \in 1..n : f[i].base \in Nat /\ f[i].pushed \in Nat
  BY DEF Counts
<1>2. Len(s2) = f[n].base
  BY <1>1 DEF Follows, End
<1>3. n = 1 => s2 = <<>>
  BY <1>1, <1>2 DEF Follows
<1>4. ASSUME NEW i \in 1..n - 1
      PROVE  /\ i \in 1..n /\ h[i] = f[i] /\ End(h, i) = End(f, i) /\ End(h, i) <= Len(s2)
             /\ End(h, i) = f[i + 1].base
  <2>1. i \in 1..n /\ n \in 1..n /\ i < n /\ i \in 1..Len(h)
    BY <1>1
  <2>2. End(f, i) <= f[n].base /\ End(f, i) = f[i + 1].base
    BY <2>1 DEF Follows
  <2>3. h[i] = f[i]
    BY <2>1
  <2>4. End(h, i) = End(f, i)
    BY <2>3 DEF End
  <2>5. QED
    BY <1>2, <2>1, <2>2, <2>3, <2>4
<1>5. n > 1 => h[1].base = 0 /\ End(h, n - 1) = Len(s2)
  <2>1. n > 1 => 1 \in 1..n - 1 /\ n - 1 \in 1..n - 1 /\ (n - 1) + 1 = n
    BY <1>1
  <2>2. QED
    BY <1>2, <1>4, <2>1 DEF Follows
<1>6. ASSUME NEW i \in 1..n - 1
      PROVE  /\ End(h, i) <= Len(s2)
             /\ i < n - 1 => End(h, i) = h[i + 1].base
             /\ \A k \in h[i].base + 1 .. End(h, i) : s2[k] = Home(obj[h[i].callee].code)
  <2>1. i < n - 1 => i + 1 \in 1..n - 1
    BY <1>1
  <2>2. ASSUME NEW k \in h[i].base + 1 .. End(h, i)
        PROVE  s2[k] = Home(obj[h[i].callee].code)
    <3>1. i \in 1..n /\ n \in 1..n /\ h[i] = f[i]
      BY <1>1, <1>4
    <3>2. f[i].base \in Nat /\ f[i].pushed \in Nat /\ f[n].base \in Nat
      BY <1>1, <3>1
    <3>3. End(f, i) <= Len(s2) /\ End(h, i) = End(f, i)
      BY <1>4
    <3>4. End(f, i) \in Nat /\ Len(s2) \in Nat
      BY <1>2, <3>2 DEF End
    <3>5. k \in 1..Len(s2)
      BY <3>1, <3>2, <3>3, <3>4
    <3>6. k \in f[i].base + 1 .. End(f, i)
      BY <3>1, <3>3
    <3>7. QED
      BY <3>1, <3>5, <3>6 DEF Follows
  <2>3. QED
    BY <1>4, <2>1, <2>2
<1>7. ASSUME NEW i \in 1..n - 1, NEW j \in 1..n - 1, i < j
      PROVE  End(h, i) <= h[j].base
  BY <1>4, <1>7 DEF Follows
<1>8. ASSUME NEW k \in 1..Len(s2)
      PROVE  s2[k] = Home(s2[k].home)
  <2>1. f[n].pushed \in Nat
    BY <1>1
  <2>2. k \in 1..Len(s)
    BY <2>1
  <2>3. QED
    BY <2>2 DEF Follows
<1>9. QED
  BY <1>1, <1>3, <1>5, <1>6, <1>7, <1>8 DEF Follows

\* The same calls on the same stack, whatever else changes about them.
LEMMA SameFollows ==
  ASSUME NEW obj, NEW obj2, NEW f, NEW f2, NEW s,
         Follows(obj, f, s), Len(f2) = Len(f), Len(f) \in Nat,
         \A i \in 1..Len(f) :
           /\ f2[i].base = f[i].base /\ f2[i].pushed = f[i].pushed
           /\ obj2[f2[i].callee].code = obj[f[i].callee].code
  PROVE  Follows(obj2, f2, s)
<1>1. \A i \in 1..Len(f) : End(f2, i) = End(f, i)
  BY DEF End
<1>2. \A i \in 1..Len(f) : i < Len(f) => i + 1 \in 1..Len(f)
  OBVIOUS
<1>3. Len(f) > 0 => 1 \in 1..Len(f) /\ Len(f) \in 1..Len(f)
  OBVIOUS
<1>4. ASSUME NEW i \in 1..Len(f)
      PROVE  /\ End(f2, i) <= Len(s)
             /\ i < Len(f) => End(f2, i) = f2[i + 1].base
             /\ \A k \in f2[i].base + 1 .. End(f2, i) : s[k] = Home(obj2[f2[i].callee].code)
  <2>1. /\ End(f, i) <= Len(s) /\ (i < Len(f) => End(f, i) = f[i + 1].base)
        /\ \A k \in f[i].base + 1 .. End(f, i) : s[k] = Home(obj[f[i].callee].code)
    BY DEF Follows
  <2>2. End(f2, i) = End(f, i) /\ (i < Len(f) => f2[i + 1].base = f[i + 1].base)
        /\ f2[i].base = f[i].base /\ obj2[f2[i].callee].code = obj[f[i].callee].code
    BY <1>1, <1>2
  <2>3. QED
    BY <2>1, <2>2
<1>5. Len(f) > 0 => f2[1].base = 0 /\ End(f2, Len(f)) = Len(s)
  BY <1>1, <1>3 DEF Follows
<1>6. \A i, j \in 1..Len(f) : i < j => End(f2, i) <= f2[j].base
  BY <1>1 DEF Follows
<1>7. /\ Len(f) = 0 => s = <<>>
      /\ \A k \in 1..Len(s) : s[k] = Home(s[k].home)
  BY DEF Follows
<1>8. QED
  BY <1>4, <1>5, <1>6, <1>7 DEF Follows

-----------------------------------------------------------------------------
\* Every call is a Frame.
LEMMA FrameTypes ==
  ASSUME NEW f \in Seq(Frame)
  PROVE  Counts(f) /\ \A i \in 1..Len(f) : f[i] \in Frame
<1>1. Len(f) \in Nat
  BY LenProperties
<1>2. \A i \in 1..Len(f) : f[i] \in Frame
  BY ElementOfSeq
<1>3. QED
  BY <1>1, <1>2 DEF Counts, Frame

\* A thread's calls and contexts, under the invariant.
LEMMA ThreadTypes ==
  ASSUME TypeOK, NEW t \in Threads
  PROVE  /\ frames[t] \in Seq(Frame) /\ stack[t] \in Seq(Context)
         /\ Depth(t) \in Nat /\ Depth(t) = Len(frames[t]) /\ Len(stack[t]) \in Nat
         /\ Counts(frames[t]) /\ \A i \in 1..Depth(t) : frames[t][i] \in Frame
<1>1. frames[t] \in Seq(Frame) /\ stack[t] \in Seq(Context)
  BY DEF TypeOK
<1>2. Len(frames[t]) \in Nat /\ Len(stack[t]) \in Nat
  BY <1>1, LenProperties
<1>3. QED
  BY <1>1, <1>2, FrameTypes DEF Depth

\* A call F on top of the calls f.
LEMMA AppendFollows ==
  ASSUME NEW obj, NEW f \in Seq(Frame), NEW s, Len(s) \in Nat, Follows(obj, f, s),
         NEW F \in Frame, F.base = Len(s),
         NEW s2, Len(s2) = Len(s) + F.pushed,
         \A k \in 1..Len(s) : s2[k] = s[k],
         \A k \in Len(s) + 1 .. Len(s2) : s2[k] = Home(obj[F.callee].code)
  PROVE  Follows(obj, Append(f, F), s2)
<1> DEFINE h == Append(f, F)
<1>1. /\ h \in Seq(Frame) /\ Len(h) = Len(f) + 1 /\ h[Len(f) + 1] = F
      /\ \A i \in 1..Len(f) : h[i] = f[i]
  BY AppendProperties
<1>2. Counts(f) /\ Counts(h)
  BY <1>1, FrameTypes
<1> HIDE DEF h
<1>3. Follows(obj, h, s2)
  BY <1>1, <1>2, PushFollows
<1>4. QED
  BY <1>3 DEF h

\* Thread t begins a call F, which pushes the context of its module.
LEMMA Calling ==
  ASSUME TypeOK, FramesOK, InitsOK, StacksOK,
         NEW t \in Threads, NEW F \in Frame,
         F.base = Len(stack[t]), F.making = NoContext,
         frames' = [frames EXCEPT ![t] = Append(@, F)],
         NEW s2 \in Seq(Context), stack' = [stack EXCEPT ![t] = s2],
         Len(s2) = Len(stack[t]) + F.pushed,
         \A k \in 1..Len(stack[t]) : s2[k] = stack[t][k],
         \A k \in Len(stack[t]) + 1 .. Len(s2) : s2[k] = Home(object'[F.callee].code),
         \A o \in Objs : Exists(o) => object'[o].code = object[o].code,
         object'[F.callee].code # None,
         \A u \in Threads : \A i \in 1..Depth(u) :
           frames[u][i].callee = F.callee => ~F.exec /\ ~frames[u][i].exec
  PROVE  /\ frames' \in [Threads -> Seq(Frame)] /\ stack' \in [Threads -> Seq(Context)]
         /\ FramesOK' /\ InitsOK' /\ StacksOK'
<1> DEFINE n == Depth(t) + 1
<1>1. \A u \in Threads : frames[u] \in Seq(Frame) /\ Depth(u) \in Nat
  BY ThreadTypes
<1>2. frames'[t] = Append(frames[t], F) /\ stack'[t] = s2
  BY DEF TypeOK
<1>3. \A u \in Threads : u # t => frames'[u] = frames[u] /\ stack'[u] = stack[u]
  BY DEF TypeOK
<1>4. /\ frames'[t] \in Seq(Frame) /\ Depth(t)' = n /\ frames'[t][n] = F
      /\ \A i \in 1..Depth(t) : frames'[t][i] = frames[t][i]
  BY <1>1, <1>2, AppendProperties DEF Depth
<1>5. frames' \in [Threads -> Seq(Frame)] /\ stack' \in [Threads -> Seq(Context)]
  BY <1>4 DEF TypeOK
<1>6. \A u \in Threads : \A i \in 1..Depth(u)' :
        (u = t /\ i = n) \/ (i \in 1..Depth(u) /\ frames'[u][i] = frames[u][i])
  BY <1>1, <1>3, <1>4 DEF Depth
<1>7. FramesOK'
  <2>1. ASSUME NEW u \in Threads, NEW i \in 1..Depth(u)'
        PROVE  /\ object'[frames'[u][i].callee].code # None
               /\ frames'[u][i].making \in
                    {NoContext, Home(object'[frames'[u][i].callee].code)}
    <3>1. CASE u = t /\ i = n
      BY <1>4, <3>1
    <3>2. CASE i \in 1..Depth(u) /\ frames'[u][i] = frames[u][i]
      <4>1. frames[u][i].callee \in Objs
        BY <3>2, ThreadTypes DEF Frame
      <4>2. QED
        BY <3>2, <4>1 DEF FramesOK, Exists
    <3>3. QED
      BY <1>6, <3>1, <3>2
  <2>2. QED
    BY <2>1 DEF FramesOK, Exists
<1>8. InitsOK'
  <2>1. ASSUME NEW u \in Threads, NEW v \in Threads,
               NEW i \in 1..Depth(u)', NEW j \in 1..Depth(v)',
               frames'[u][i].exec, frames'[v][j].callee = frames'[u][i].callee
        PROVE  u = v /\ i = j
    <3>1. (u = t /\ i = n) \/ (i \in 1..Depth(u) /\ frames'[u][i] = frames[u][i])
      BY <1>6
    <3>2. (v = t /\ j = n) \/ (j \in 1..Depth(v) /\ frames'[v][j] = frames[v][j])
      BY <1>6
    <3>3. ASSUME u = t, i = n, j \in 1..Depth(v), frames'[v][j] = frames[v][j]
          PROVE  FALSE
      <4>1. frames'[u][i] = F /\ frames[v][j].callee = F.callee
        BY <1>4, <2>1, <3>3
      <4>2. F.exec
        BY <2>1, <4>1, Zenon
      <4>3. QED
        BY <3>3, <4>1, <4>2, Zenon
    <3>4. ASSUME v = t, j = n, i \in 1..Depth(u), frames'[u][i] = frames[u][i]
          PROVE  FALSE
      <4>1. frames[u][i].exec /\ frames[u][i].callee = F.callee
        BY <1>4, <2>1, <3>4, Zenon
      <4>2. QED
        BY <3>4, <4>1, Zenon
    <3>5. ASSUME i \in 1..Depth(u), frames'[u][i] = frames[u][i],
                 j \in 1..Depth(v), frames'[v][j] = frames[v][j]
          PROVE  u = v /\ i = j
      <4>1. frames[u][i].exec /\ frames[v][j].callee = frames[u][i].callee
        BY <2>1, <3>5
      <4>2. QED
        BY <3>5, <4>1 DEF InitsOK
    <3>6. QED
      BY <3>1, <3>2, <3>3, <3>4, <3>5
  <2>2. QED
    BY <2>1 DEF InitsOK, Depth
<1>9. ASSUME NEW u \in Threads
      PROVE  Follows(object', frames'[u], stack'[u])
  <2>1. Follows(object, frames[u], stack[u])
    BY DEF StacksOK
  <2>2. \A i \in 1..Len(frames[u]) :
          object'[frames[u][i].callee].code = object[frames[u][i].callee].code
    BY ThreadTypes DEF FramesOK, Frame, Depth
  <2>3. Len(frames[u]) \in Nat /\ Len(stack[u]) \in Nat /\ Counts(frames[u])
    BY ThreadTypes
  <2>4. Follows(object', frames[u], stack[u])
    BY <2>1, <2>2, <2>3, SameFollows
  <2>5. CASE u = t
    <3>1. frames[t] \in Seq(Frame)
      BY ThreadTypes
    <3> DEFINE obj == object'
               f == frames[t]
               s == stack[t]
    <3>2. /\ f \in Seq(Frame) /\ Len(s) \in Nat /\ Follows(obj, f, s) /\ F.base = Len(s)
          /\ Len(s2) = Len(s) + F.pushed /\ \A k \in 1..Len(s) : s2[k] = s[k]
          /\ \A k \in Len(s) + 1 .. Len(s2) : s2[k] = Home(obj[F.callee].code)
      BY <2>3, <2>4, <2>5, <3>1
    <3> HIDE DEF obj, f, s
    <3>3. Follows(obj, Append(f, F), s2)
      BY <3>2, AppendFollows, ZenonT(40)
    <3>4. QED
      BY <1>2, <2>5, <3>3 DEF obj, f, s
  <2>6. QED
    BY <1>3, <2>4, <2>5
<1>10. QED
  BY <1>5, <1>7, <1>8, <1>9 DEF StacksOK

\* No call begins or ends; functions change, but not the code of a callee.
LEMMA NoCall ==
  ASSUME TypeOK, FramesOK, InitsOK, StacksOK, UNCHANGED <<frames, stack>>,
         \A u \in Threads : \A i \in 1..Depth(u) :
           object'[frames[u][i].callee].code = object[frames[u][i].callee].code
  PROVE  /\ frames' \in [Threads -> Seq(Frame)] /\ stack' \in [Threads -> Seq(Context)]
         /\ FramesOK' /\ InitsOK' /\ StacksOK'
<1>1. frames' \in [Threads -> Seq(Frame)] /\ stack' \in [Threads -> Seq(Context)]
  BY DEF TypeOK
<1>2. FramesOK'
  BY DEF FramesOK, Exists, Depth
<1>3. InitsOK'
  BY DEF InitsOK, Depth
<1>4. ASSUME NEW u \in Threads
      PROVE  Follows(object', frames'[u], stack'[u])
  <2>1. Follows(object, frames[u], stack[u]) /\ Len(frames[u]) \in Nat
    BY ThreadTypes DEF StacksOK
  <2>2. \A i \in 1..Len(frames[u]) :
          object'[frames[u][i].callee].code = object[frames[u][i].callee].code
    BY DEF Depth
  <2>3. Follows(object', frames[u], stack[u])
    BY <2>1, <2>2, SameFollows
  <2>4. QED
    BY <2>3
<1>5. QED
  BY <1>1, <1>2, <1>3, <1>4 DEF StacksOK

\* Thread t begins or ends making a nested function: c is what it has borrowed.
LEMMA Making ==
  ASSUME TypeOK, FramesOK, InitsOK, StacksOK,
         NEW t \in Threads, Depth(t) > 0,
         NEW c \in Context \cup {NoContext},
         c = NoContext \/ c = Home(object[Top(t).callee].code),
         frames' = [frames EXCEPT ![t][Depth(t)].making = c], UNCHANGED stack,
         \A u \in Threads : \A i \in 1..Depth(u) :
           object'[frames[u][i].callee].code = object[frames[u][i].callee].code
  PROVE  /\ frames' \in [Threads -> Seq(Frame)] /\ stack' \in [Threads -> Seq(Context)]
         /\ FramesOK' /\ InitsOK' /\ StacksOK'
<1> DEFINE h == [frames[t] EXCEPT ![Depth(t)].making = c]
<1>1. frames[t] \in Seq(Frame) /\ Depth(t) = Len(frames[t]) /\ Depth(t) \in Nat
  BY ThreadTypes
<1>a. h = [frames[t] EXCEPT ![Depth(t)].making = c]
  OBVIOUS
<1>b. frames' = [frames EXCEPT ![t] = h]
  OBVIOUS
<1> HIDE DEF h
<1>2. /\ h \in Seq(Frame) /\ Len(h) = Depth(t)
      /\ \A i \in 1..Depth(t) :
           /\ h[i].callee = frames[t][i].callee /\ h[i].base = frames[t][i].base
           /\ h[i].pushed = frames[t][i].pushed /\ h[i].exec = frames[t][i].exec
           /\ h[i].making = IF i = Depth(t) THEN c ELSE frames[t][i].making
  <2> DEFINE f == frames[t]
             n == Depth(t)
  <2>1. f \in Seq(Frame) /\ n = Len(f) /\ n > 0 /\ h = [f EXCEPT ![n].making = c]
    BY <1>1, <1>a
  <2> HIDE DEF f, n
  <2>2. /\ h \in Seq(Frame) /\ Len(h) = n
        /\ \A i \in 1..n :
             /\ h[i].callee = f[i].callee /\ h[i].base = f[i].base
             /\ h[i].pushed = f[i].pushed /\ h[i].exec = f[i].exec
             /\ h[i].making = IF i = n THEN c ELSE f[i].making
    <3> DEFINE F == [f[n] EXCEPT !.making = c]
    <3>1. n \in 1..n
      BY <2>1, LenProperties
    <3>2. f[n] \in Frame
      BY <2>1, <3>1, ElementOfSeq
    <3>3. /\ F \in Frame /\ F.callee = f[n].callee /\ F.base = f[n].base
          /\ F.pushed = f[n].pushed /\ F.exec = f[n].exec /\ F.making = c
      BY <3>2 DEF Frame
    <3>4. h = [f EXCEPT ![n] = F]
      BY <2>1
    <3> HIDE DEF F
    <3>5. h \in Seq(Frame) /\ Len(h) = n /\ \A i \in 1..n : h[i] = IF i = n THEN F ELSE f[i]
      BY <2>1, <3>1, <3>3, <3>4, ExceptSeq
    <3>6. ASSUME NEW i \in 1..n
          PROVE  /\ h[i].callee = f[i].callee /\ h[i].base = f[i].base
                 /\ h[i].pushed = f[i].pushed /\ h[i].exec = f[i].exec
                 /\ h[i].making = IF i = n THEN c ELSE f[i].making
      <4>1. CASE i = n
        <5>1. h[i] = F
          BY <3>5, <4>1
        <5>2. QED
          BY <3>3, <4>1, <5>1
      <4>2. CASE i # n
        <5>1. h[i] = f[i]
          BY <3>5, <4>2
        <5>2. QED
          BY <4>2, <5>1
      <4>3. QED
        BY <4>1, <4>2
    <3>7. QED
      BY <3>5, <3>6
  <2>3. QED
    BY <2>2 DEF f, n
<1>4. frames' \in [Threads -> Seq(Frame)] /\ stack' \in [Threads -> Seq(Context)]
  BY <1>2, <1>b DEF TypeOK
<1>5. frames'[t] = h /\ \A u \in Threads : u # t => frames'[u] = frames[u]
  BY <1>b DEF TypeOK
<1>6. ASSUME NEW u \in Threads
      PROVE  /\ Len(frames'[u]) = Len(frames[u])
             /\ \A i \in 1..Depth(u) :
                  /\ frames'[u][i].callee = frames[u][i].callee
                  /\ frames'[u][i].base = frames[u][i].base
                  /\ frames'[u][i].pushed = frames[u][i].pushed
                  /\ frames'[u][i].exec = frames[u][i].exec
                  /\ frames'[u][i].making = IF u = t /\ i = Depth(t)
                                            THEN c ELSE frames[u][i].making
  <2>1. CASE u = t
    BY <1>1, <1>2, <1>5, <2>1
  <2>2. CASE u # t
    BY <1>5, <2>2
  <2>3. QED
    BY <2>1, <2>2
<1>7. \A u \in Threads : Depth(u)' = Depth(u)
  BY <1>6 DEF Depth
<1>8. FramesOK'
  <2>1. ASSUME NEW u \in Threads, NEW i \in 1..Depth(u)
        PROVE  /\ object'[frames'[u][i].callee].code # None
               /\ frames'[u][i].making \in
                    {NoContext, Home(object'[frames'[u][i].callee].code)}
    <3>1. /\ frames'[u][i].callee = frames[u][i].callee
          /\ object'[frames'[u][i].callee].code = object[frames[u][i].callee].code
      BY <1>6
    <3>2. CASE u = t /\ i = Depth(t)
      BY <1>6, <3>1, <3>2 DEF FramesOK, Exists, Top
    <3>3. CASE ~(u = t /\ i = Depth(t))
      <4>1. frames'[u][i].making = frames[u][i].making
        BY <1>6, <3>3
      <4>2. /\ object[frames[u][i].callee].code # None
            /\ frames[u][i].making \in {NoContext, Home(object[frames[u][i].callee].code)}
        BY DEF FramesOK, Exists
      <4> QED
        BY <3>1, <4>1, <4>2
    <3>4. QED
      BY <3>2, <3>3
  <2>2. QED
    BY <1>7, <2>1 DEF FramesOK, Exists
<1>9. InitsOK'
  <2>1. ASSUME NEW u \in Threads, NEW v \in Threads,
               NEW i \in 1..Depth(u), NEW j \in 1..Depth(v),
               frames'[u][i].exec, frames'[v][j].callee = frames'[u][i].callee
        PROVE  u = v /\ i = j
    <3>1. /\ frames'[u][i].exec = frames[u][i].exec
          /\ frames'[u][i].callee = frames[u][i].callee
          /\ frames'[v][j].callee = frames[v][j].callee
      BY <1>6
    <3>2. frames[u][i].exec /\ frames[v][j].callee = frames[u][i].callee
      BY <2>1, <3>1, Zenon
    <3>3. QED
      BY <3>2 DEF InitsOK
  <2>2. QED
    BY <1>7, <2>1 DEF InitsOK
<1>10. ASSUME NEW u \in Threads
       PROVE  Follows(object', frames'[u], stack'[u])
  <2>1. Follows(object, frames[u], stack[u]) /\ Len(frames[u]) \in Nat
    BY ThreadTypes DEF StacksOK
  <2>2. \A i \in 1..Len(frames[u]) :
          /\ frames'[u][i].base = frames[u][i].base
          /\ frames'[u][i].pushed = frames[u][i].pushed
          /\ object'[frames'[u][i].callee].code = object[frames[u][i].callee].code
    BY <1>6 DEF Depth
  <2>3. Len(frames'[u]) = Len(frames[u])
    BY <1>6
  <2> DEFINE f2 == frames'[u]
             obj2 == object'
  <2>4. /\ Len(f2) = Len(frames[u])
        /\ \A i \in 1..Len(frames[u]) :
             /\ f2[i].base = frames[u][i].base /\ f2[i].pushed = frames[u][i].pushed
             /\ obj2[f2[i].callee].code = object[frames[u][i].callee].code
    BY <2>2, <2>3
  <2> HIDE DEF f2, obj2
  <2>5. Follows(obj2, f2, stack[u])
    BY <2>1, <2>4, SameFollows
  <2>6. QED
    BY <2>5 DEF f2, obj2
<1>11. QED
  BY <1>4, <1>8, <1>9, <1>10 DEF StacksOK

-----------------------------------------------------------------------------
\* Initially there is no module object, no function and no call.
LEMMA InitIInv == Init => IInv
<1> SUFFICES ASSUME Init PROVE IInv
  OBVIOUS
<1>1. TypeOK
  BY RuntimeConstants DEF Init, TypeOK, Function, NoFunction
<1>2. \A t \in Threads : frames[t] = <<>> /\ stack[t] = <<>> /\ Depth(t) = 0
  BY DEF Init, Depth
<1>3. \A o \in Objs : ~Exists(o)
  BY DEF Init, Exists, NoFunction
<1>4. SessionsOK /\ ObjectsOK /\ DumpedOnce /\ FirstCallMakes
  BY <1>3 DEF Init, SessionsOK, ObjectsOK, DumpedOnce, FirstCallMakes
<1>5. FramesOK /\ InitsOK
  BY <1>2 DEF FramesOK, InitsOK
<1>6. \A t \in Threads : Len(frames[t]) = 0 /\ frames[t] = <<>> /\ stack[t] = <<>>
  BY <1>2 DEF Depth
<1>7. StacksOK
  BY <1>6 DEF StacksOK, Follows
<1>8. QED
  BY <1>1, <1>4, <1>5, <1>7 DEF IInv

\* A module object is created: its session is new, and it has no function yet.
LEMMA CreateModuleIInv ==
  ASSUME IInv, NEW m \in Modules, CreateModule(m)
  PROVE  IInv'
<1> USE DEF IInv, CreateModule
<1>1. TypeOK'
  BY DEF TypeOK
<1>2. session[m] = 0 /\ nextSession \in Nat /\ session \in [Modules -> Nat]
  BY DEF SessionsOK, TypeOK
<1>3. SessionsOK'
  BY <1>2 DEF SessionsOK, TypeOK
<1>4. ObjectsOK'
  BY <1>2 DEF ObjectsOK, Exists
<1>5. DumpedOnce' /\ FirstCallMakes'
  BY DEF DumpedOnce, FirstCallMakes, TypeOK
<1>6. FramesOK' /\ InitsOK' /\ StacksOK'
  BY NoCall
<1>7. QED
  BY <1>1, <1>3, <1>4, <1>5, <1>6

\* A run of a module that fails leaves its cache, which is the one it had.
LEMMA ExecModuleFailsIInv ==
  ASSUME IInv, NEW m \in Modules, ExecModuleFails(m)
  PROVE  IInv'
<1> USE DEF IInv, ExecModuleFails
<1>1. TypeOK'
  BY DEF TypeOK, CachesFor
<1>2. SessionsOK' /\ ObjectsOK' /\ DumpedOnce' /\ FirstCallMakes'
  BY DEF SessionsOK, ObjectsOK, Exists, DumpedOnce, FirstCallMakes
<1>3. FramesOK' /\ InitsOK' /\ StacksOK'
  BY NoCall
<1>4. QED
  BY <1>1, <1>2, <1>3

\* A module object is cleared or freed: its counters are dumped unless they were.
LEMMA ReleaseIInv ==
  ASSUME IInv, NEW m \in Modules, NEW after \in {"cleared", "freed"}, Release(m, after)
  PROVE  IInv'
<1> USE DEF IInv, Release, ClearState
<1>1. TypeOK'
  BY DEF TypeOK
<1>2. SessionsOK'
  BY DEF SessionsOK, TypeOK
<1>3. ObjectsOK' /\ FirstCallMakes'
  BY DEF ObjectsOK, Exists, FirstCallMakes
<1>4. DumpedOnce'
  BY DEF DumpedOnce, TypeOK
<1>5. FramesOK' /\ InitsOK' /\ StacksOK'
  BY NoCall
<1>6. QED
  BY <1>1, <1>2, <1>3, <1>4, <1>5

\* The context of a module is its home.
LEMMA RuntimeIsHome ==
  ASSUME TypeOK, NEW m \in Modules
  PROVE  Runtime(m) = Home(m) /\ Home(m) \in Context
BY DEF TypeOK, Runtime, CachesFor, Home, Context

\* exec_module calls a new function of its module, which pushes once or twice.
LEMMA ExecModuleIInv ==
  ASSUME IInv, NEW t \in Threads, NEW m \in Modules, NEW o \in Objs, ExecModule(t, m, o)
  PROVE  IInv'
<1> DEFINE n == IF eager THEN 1 ELSE 2
           F == NewFrame(o, Len(stack[t]), n, TRUE)
           s2 == IF eager THEN Append(stack[t], Runtime(m))
                 ELSE Append(Append(stack[t], Runtime(m)), Runtime(m))
<1> USE DEF IInv
<1>1. stack[t] \in Seq(Context) /\ Len(stack[t]) \in Nat
  BY ThreadTypes
<1>2. F \in Frame /\ F.base = Len(stack[t]) /\ F.pushed = n /\ F.making = NoContext
      /\ F.callee = o
  BY <1>1 DEF NewFrame, Frame
<1>3. Runtime(m) = Home(m) /\ Home(m) \in Context
  BY RuntimeIsHome
<1>4. /\ s2 \in Seq(Context) /\ Len(s2) = Len(stack[t]) + n
      /\ \A k \in 1..Len(stack[t]) : s2[k] = stack[t][k]
      /\ \A k \in Len(stack[t]) + 1 .. Len(s2) : s2[k] = Home(m)
  <2> DEFINE r == Append(stack[t], Runtime(m))
  <2>1. /\ r \in Seq(Context) /\ Len(r) = Len(stack[t]) + 1 /\ r[Len(stack[t]) + 1] = Home(m)
        /\ \A k \in 1..Len(stack[t]) : r[k] = stack[t][k]
    BY <1>1, <1>3, AppendProperties
  <2> DEFINE q == Append(r, Runtime(m))
  <2> HIDE DEF r
  <2>2. /\ q \in Seq(Context) /\ Len(q) = Len(r) + 1 /\ q[Len(r) + 1] = Home(m)
        /\ \A k \in 1..Len(r) : q[k] = r[k]
    BY <1>3, <2>1, AppendProperties
  <2>3. s2 = IF eager THEN r ELSE q
    BY DEF r
  <2> HIDE DEF q, s2
  <2>4. CASE eager
    BY <1>1, <2>1, <2>3, <2>4
  <2>5. CASE ~eager
    BY <1>1, <2>1, <2>2, <2>3, <2>5
  <2>6. QED
    BY <2>4, <2>5
<1>5. /\ frames' = [frames EXCEPT ![t] = Append(@, F)] /\ stack' = [stack EXCEPT ![t] = s2]
      /\ object' = [object EXCEPT ![o] =
           [code |-> m, id |-> session[m], context |-> Home(m), compiled |-> TRUE]]
      /\ ~Exists(o) /\ state[m] = "initialized" /\ caches' = CachesFor(m)
      /\ UNCHANGED <<eager, nextSession, session, state, dumps, refused>>
  BY <1>3 DEF ExecModule
<1> HIDE DEF F, s2, n
<1>6. /\ object' \in [Objs -> Function] /\ object'[o].code = m /\ m # None
      /\ \A p \in Objs : p # o => object'[p] = object[p]
  BY <1>3, <1>5, RuntimeConstants DEF TypeOK, Function
<1>7. \A u \in Threads : \A i \in 1..Depth(u) : frames[u][i].callee # F.callee
  BY <1>2, <1>5 DEF FramesOK
<1>8. \A p \in Objs : Exists(p) => object'[p].code = object[p].code
  BY <1>5, <1>6
<1>a. /\ Len(s2) = Len(stack[t]) + F.pushed
      /\ \A k \in Len(stack[t]) + 1 .. Len(s2) : s2[k] = Home(object'[F.callee].code)
      /\ object'[F.callee].code # None
      /\ \A u \in Threads : \A i \in 1..Depth(u) :
           frames[u][i].callee = F.callee => ~F.exec /\ ~frames[u][i].exec
  BY <1>2, <1>4, <1>6, <1>7
<1>9. /\ frames' \in [Threads -> Seq(Frame)] /\ stack' \in [Threads -> Seq(Context)]
      /\ FramesOK' /\ InitsOK' /\ StacksOK'
  BY <1>2, <1>4, <1>5, <1>8, <1>a, Calling
<1>10. TypeOK'
  BY <1>5, <1>6, <1>9 DEF TypeOK, CachesFor
<1>11. ObjectsOK'
  BY <1>5, <1>6 DEF ObjectsOK, Exists, SessionsOK, TypeOK
<1>12. SessionsOK' /\ DumpedOnce' /\ FirstCallMakes'
  BY <1>5 DEF SessionsOK, DumpedOnce, FirstCallMakes
<1>13. QED
  BY <1>9, <1>10, <1>11, <1>12

\* A first call pushes the function's own context.
LEMMA CallLazyIInv ==
  ASSUME IInv, NEW t \in Threads, NEW o \in Objs, CallLazy(t, o)
  PROVE  IInv'
<1> DEFINE c == object[o].context
           F == NewFrame(o, Len(stack[t]), 1, FALSE)
           s2 == Append(stack[t], c)
<1> USE DEF IInv
<1>1. stack[t] \in Seq(Context) /\ Len(stack[t]) \in Nat
  BY ThreadTypes
<1>2. /\ Exists(o) /\ ~IsInit(o) /\ object' = [object EXCEPT ![o].compiled = TRUE]
      /\ UNCHANGED <<eager, modules, refused>>
  BY DEF CallLazy, Callable
<1>3. /\ F \in Frame /\ F.base = Len(stack[t]) /\ F.pushed = 1 /\ F.making = NoContext
      /\ F.callee = o /\ ~F.exec
  BY <1>1 DEF NewFrame, Frame
<1>4. /\ object' \in [Objs -> Function]
      /\ \A p \in Objs : /\ object'[p].code = object[p].code /\ object'[p].id = object[p].id
                         /\ object'[p].context = object[p].context
  BY <1>2 DEF TypeOK, Function
<1>5. object[o].code \in Modules /\ c = Home(object[o].code)
  BY <1>2 DEF ObjectsOK
<1>6. c \in Context
  BY <1>5, RuntimeIsHome
<1>7. /\ s2 \in Seq(Context) /\ Len(s2) = Len(stack[t]) + 1 /\ s2[Len(stack[t]) + 1] = c
      /\ \A k \in 1..Len(stack[t]) : s2[k] = stack[t][k]
  BY <1>1, <1>6, AppendProperties
<1>8. frames' = [frames EXCEPT ![t] = Append(@, F)] /\ stack' = [stack EXCEPT ![t] = s2]
  BY DEF CallLazy
<1> HIDE DEF F, s2, c
<1>9. /\ Len(s2) = Len(stack[t]) + F.pushed
      /\ \A k \in Len(stack[t]) + 1 .. Len(s2) : s2[k] = Home(object'[F.callee].code)
      /\ object'[F.callee].code # None
      /\ \A p \in Objs : Exists(p) => object'[p].code = object[p].code
  BY <1>1, <1>2, <1>3, <1>4, <1>5, <1>7 DEF Exists
<1>10. \A u \in Threads : \A i \in 1..Depth(u) :
         frames[u][i].callee = F.callee => ~F.exec /\ ~frames[u][i].exec
  BY <1>2, <1>3 DEF IsInit
<1>11. /\ frames' \in [Threads -> Seq(Frame)] /\ stack' \in [Threads -> Seq(Context)]
       /\ FramesOK' /\ InitsOK' /\ StacksOK'
  BY <1>3, <1>7, <1>8, <1>9, <1>10, Calling
<1>12. TypeOK'
  BY <1>2, <1>4, <1>11 DEF TypeOK, modules
<1>13. SessionsOK' /\ ObjectsOK' /\ DumpedOnce' /\ FirstCallMakes'
  BY <1>2, <1>4 DEF SessionsOK, ObjectsOK, Exists, DumpedOnce, FirstCallMakes, modules
<1>14. QED
  BY <1>11, <1>12, <1>13

\* A later call pushes nothing.
LEMMA CallCompiledIInv ==
  ASSUME IInv, NEW t \in Threads, NEW o \in Objs, CallCompiled(t, o)
  PROVE  IInv'
<1> DEFINE F == NewFrame(o, Len(stack[t]), 0, FALSE)
           s2 == stack[t]
<1> USE DEF IInv
<1>1. s2 \in Seq(Context) /\ Len(s2) \in Nat
  BY ThreadTypes
<1>2. Exists(o) /\ ~IsInit(o) /\ UNCHANGED <<eager, modules, object, stack, refused>>
  BY DEF CallCompiled, Callable
<1>3. /\ F \in Frame /\ F.base = Len(s2) /\ F.pushed = 0 /\ F.making = NoContext
      /\ F.callee = o /\ ~F.exec
  BY <1>1 DEF NewFrame, Frame
<1>4. frames' = [frames EXCEPT ![t] = Append(@, F)] /\ stack' = [stack EXCEPT ![t] = s2]
  BY <1>2 DEF CallCompiled, TypeOK
<1> HIDE DEF F
<1>5. /\ Len(s2) = Len(stack[t]) + F.pushed /\ F.base = Len(stack[t])
      /\ \A k \in 1..Len(stack[t]) : s2[k] = stack[t][k]
  BY <1>1, <1>3
<1>6. /\ \A k \in Len(stack[t]) + 1 .. Len(s2) : s2[k] = Home(object'[F.callee].code)
      /\ object'[F.callee].code # None
      /\ \A p \in Objs : Exists(p) => object'[p].code = object[p].code
  <2>1. object' = object /\ F.callee = o
    BY <1>2, <1>3
  <2>2. Len(stack[t]) + 1 .. Len(s2) = {}
    BY <1>1
  <2>3. QED
    BY <1>2, <2>1, <2>2 DEF Exists
<1> HIDE DEF s2
<1>7. \A u \in Threads : \A i \in 1..Depth(u) :
        frames[u][i].callee = F.callee => ~F.exec /\ ~frames[u][i].exec
  BY <1>2, <1>3 DEF IsInit
<1>8. /\ frames' \in [Threads -> Seq(Frame)] /\ stack' \in [Threads -> Seq(Context)]
      /\ FramesOK' /\ InitsOK' /\ StacksOK'
  BY <1>1, <1>3, <1>4, <1>5, <1>6, <1>7, Calling
<1>9. TypeOK'
  BY <1>2, <1>8 DEF TypeOK, modules
<1>10. SessionsOK' /\ ObjectsOK' /\ DumpedOnce' /\ FirstCallMakes'
  BY <1>2 DEF SessionsOK, ObjectsOK, Exists, DumpedOnce, FirstCallMakes, modules
<1>11. QED
  BY <1>8, <1>9, <1>10

\* A call that is refused has compiled its function.
LEMMA CallLazyRefusedIInv ==
  ASSUME IInv, NEW t \in Threads, NEW o \in Objs, CallLazyRefused(t, o)
  PROVE  IInv'
<1> USE DEF IInv, CallLazyRefused
<1>1. /\ object' \in [Objs -> Function]
      /\ \A p \in Objs : /\ object'[p].code = object[p].code /\ object'[p].id = object[p].id
                         /\ object'[p].context = object[p].context
  BY DEF TypeOK, Function
<1>2. \A u \in Threads : \A i \in 1..Depth(u) : frames[u][i].callee \in Objs
  BY ThreadTypes DEF Frame
<1>3. /\ frames' \in [Threads -> Seq(Frame)] /\ stack' \in [Threads -> Seq(Context)]
      /\ FramesOK' /\ InitsOK' /\ StacksOK'
  BY <1>1, <1>2, NoCall
<1>4. TypeOK'
  BY <1>1, <1>3 DEF TypeOK, modules
<1>5. SessionsOK' /\ ObjectsOK' /\ DumpedOnce' /\ FirstCallMakes'
  BY <1>1 DEF SessionsOK, ObjectsOK, Exists, DumpedOnce, FirstCallMakes, modules
<1>6. QED
  BY <1>3, <1>4, <1>5

\* A function that is freed is nobody's callee.
LEMMA FreeFunctionIInv ==
  ASSUME IInv, NEW o \in Objs, FreeFunction(o)
  PROVE  IInv'
<1> USE DEF IInv, FreeFunction
<1>1. /\ object' \in [Objs -> Function] /\ object'[o].code = None
      /\ \A p \in Objs : p # o => object'[p] = object[p]
  BY RuntimeConstants DEF TypeOK, Function, NoFunction
<1>2. \A u \in Threads : \A i \in 1..Depth(u) :
        frames[u][i].callee \in Objs /\ frames[u][i].callee # o
  BY ThreadTypes DEF Frame, Callees
<1>3. /\ frames' \in [Threads -> Seq(Frame)] /\ stack' \in [Threads -> Seq(Context)]
      /\ FramesOK' /\ InitsOK' /\ StacksOK'
  BY <1>1, <1>2, NoCall
<1>4. TypeOK'
  BY <1>1, <1>3 DEF TypeOK, modules
<1>5. SessionsOK' /\ ObjectsOK' /\ DumpedOnce' /\ FirstCallMakes'
  BY <1>1 DEF SessionsOK, ObjectsOK, Exists, DumpedOnce, FirstCallMakes, modules
<1>6. QED
  BY <1>3, <1>4, <1>5

-----------------------------------------------------------------------------
\* The first l elements of a sequence.
LEMMA Prefix ==
  ASSUME NEW S, NEW s \in Seq(S), NEW l \in Nat, l <= Len(s)
  PROVE  /\ SubSeq(s, 1, l) \in Seq(S) /\ Len(SubSeq(s, 1, l)) = l
         /\ \A k \in 1..l : SubSeq(s, 1, l)[k] = s[k]
<1>1. \A k \in 1..l : s[k] \in S
  BY LenProperties, ElementOfSeq
<1>2. 1 \in Int /\ l \in Int
  OBVIOUS
<1>3. /\ SubSeq(s, 1, l) \in Seq(S) /\ Len(SubSeq(s, 1, l)) = IF 1 <= l THEN l - 1 + 1 ELSE 0
      /\ \A k \in 1 .. l - 1 + 1 : SubSeq(s, 1, l)[k] = s[1 + k - 1]
  BY <1>1, <1>2, SubSeqProperties
<1>4. l - 1 + 1 = l /\ \A k \in 1..l : 1 + k - 1 = k
  OBVIOUS
<1>5. QED
  BY <1>3, <1>4

\* A return pops what its call pushed; module init goes with its call.
LEMMA ReturnIInv ==
  ASSUME IInv, NEW t \in Threads, Return(t)
  PROVE  IInv'
<1> DEFINE n  == Depth(t)
           o  == Top(t).callee
           h  == SubSeq(frames[t], 1, Len(frames[t]) - 1)
           s2 == SubSeq(stack[t], 1, Len(stack[t]) - frames[t][Len(frames[t])].pushed)
<1> USE DEF IInv
<1>1. /\ frames[t] \in Seq(Frame) /\ stack[t] \in Seq(Context) /\ n = Len(frames[t])
      /\ n \in Nat \ {0} /\ n \in 1..n /\ Top(t) = frames[t][n] /\ o \in Objs
  <2>1. /\ frames[t] \in Seq(Frame) /\ stack[t] \in Seq(Context) /\ n = Len(frames[t])
        /\ n \in Nat /\ \A i \in 1..n : frames[t][i] \in Frame
    BY ThreadTypes
  <2>2. n > 0 /\ Top(t) = frames[t][n]
    BY DEF Return, Top
  <2> HIDE DEF n
  <2>3. n \in 1..n
    BY <2>1, <2>2
  <2>4. Top(t) \in Frame
    BY <2>1, <2>2, <2>3
  <2>5. QED
    BY <2>1, <2>2, <2>3, <2>4 DEF Frame
<1>2. Follows(object, frames[t], stack[t])
  BY DEF StacksOK
<1>3. /\ h \in Seq(Frame) /\ Len(h) = Len(frames[t]) - 1
      /\ \A i \in 1..Len(h) : h[i] = frames[t][i]
      /\ s2 \in Seq(Context) /\ Follows(object, h, s2)
  <2> DEFINE f == frames[t]
             s == stack[t]
             obj == object
             l == Len(s) - f[Len(f)].pushed
  <2>1. /\ f \in Seq(Frame) /\ s \in Seq(Context) /\ Follows(obj, f, s)
        /\ Len(f) \in Nat \ {0} /\ Len(f) \in 1..Len(f) /\ Len(s) \in Nat
    BY <1>1, <1>2, ThreadTypes
  <2>2. h = SubSeq(f, 1, Len(f) - 1) /\ s2 = SubSeq(s, 1, l)
    OBVIOUS
  <2> HIDE DEF f, s, obj, h, s2
  <2>3. Counts(f)
    BY <2>1, FrameTypes
  <2>4. f[Len(f)].pushed \in Nat /\ f[Len(f)].base \in Nat /\ l = f[Len(f)].base
    BY <2>1, <2>3 DEF Follows, End, Counts
  <2>5. Len(f) - 1 \in Nat /\ Len(f) - 1 <= Len(f) /\ l \in Nat /\ l <= Len(s)
    BY <2>1, <2>4
  <2>6. h \in Seq(Frame) /\ Len(h) = Len(f) - 1 /\ \A i \in 1..Len(h) : h[i] = f[i]
    BY <2>1, <2>2, <2>5, Prefix
  <2>7. s2 \in Seq(Context) /\ Len(s2) = l /\ \A k \in 1..Len(s2) : s2[k] = s[k]
    BY <2>1, <2>2, <2>5, Prefix
  <2>8. Len(s2) = 0 => s2 = <<>>
    BY <2>7, EmptySeq
  <2>9. Len(s2) = Len(s) - f[Len(f)].pushed /\ Len(f) > 0
    BY <2>1, <2>7
  <2>10. Follows(obj, h, s2)
    BY <2>1, <2>3, <2>6, <2>7, <2>8, <2>9, PopFollows
  <2>11. QED
    BY <2>6, <2>7, <2>10 DEF f, s, obj
<1>4. /\ frames' = [frames EXCEPT ![t] = h] /\ stack' = [stack EXCEPT ![t] = s2]
      /\ UNCHANGED <<eager, modules, refused>>
  BY <1>1 DEF Return, Pop
<1>5. object' = IF Top(t).exec THEN [object EXCEPT ![o] = NoFunction] ELSE object
  BY DEF Return
<1> HIDE DEF h, s2
<1>6. /\ frames' \in [Threads -> Seq(Frame)] /\ stack' \in [Threads -> Seq(Context)]
      /\ frames'[t] = h /\ stack'[t] = s2
      /\ \A u \in Threads : u # t => frames'[u] = frames[u] /\ stack'[u] = stack[u]
  BY <1>3, <1>4 DEF TypeOK
<1>7. /\ object' \in [Objs -> Function]
      /\ \A p \in Objs : object'[p] = object[p] \/ object'[p].code = None
      /\ \A p \in Objs : ~Top(t).exec \/ p # o => object'[p] = object[p]
  <2>1. NoFunction \in Function /\ NoFunction.code = None
    BY DEF Function, NoFunction
  <2>2. CASE Top(t).exec
    <3>1. object' = [object EXCEPT ![o] = NoFunction]
      BY <1>5, <2>2, Zenon
    <3>2. /\ object' \in [Objs -> Function] /\ object'[o] = NoFunction
          /\ \A p \in Objs : p # o => object'[p] = object[p]
      BY <1>1, <2>1, <3>1 DEF TypeOK
    <3>3. QED
      BY <2>1, <2>2, <3>2
  <2>3. CASE ~Top(t).exec
    <3>1. object' = object
      BY <1>5, <2>3, Zenon
    <3>2. QED
      BY <3>1 DEF TypeOK
  <2>4. QED
    BY <2>2, <2>3
<1>8. ASSUME NEW u \in Threads, NEW i \in 1..Depth(u)'
      PROVE  /\ i \in 1..Depth(u) /\ frames'[u][i] = frames[u][i] /\ (u = t => i # n)
  <2>1. CASE u = t
    <3>1. Depth(u)' = n - 1 /\ i \in 1..Len(h) /\ i \in 1..n - 1 /\ n \in Nat
      BY <1>1, <1>3, <1>6, <2>1 DEF Depth
    <3>2. h[i] = frames[t][i] /\ frames'[u] = h
      BY <1>3, <1>6, <2>1, <3>1
    <3>3. QED
      BY <2>1, <3>1, <3>2
  <2>2. CASE u # t
    BY <1>6, <2>2 DEF Depth
  <2>3. QED
    BY <2>1, <2>2
<1>9. ASSUME NEW u \in Threads, NEW i \in 1..Depth(u)'
      PROVE  /\ frames[u][i].callee \in Objs
             /\ object'[frames[u][i].callee] = object[frames[u][i].callee]
  <2>1. frames[u][i].callee \in Objs
    BY <1>8, ThreadTypes DEF Frame
  <2>2. CASE Top(t).exec /\ frames[u][i].callee = o
    <3>1. frames[t][n].exec /\ frames[u][i].callee = frames[t][n].callee
      BY <1>1, <2>2, Zenon
    <3>2. u = t /\ i = n
      BY <1>1, <1>8, <3>1 DEF InitsOK
    <3>3. QED
      BY <1>8, <3>2
  <2>3. CASE ~(Top(t).exec /\ frames[u][i].callee = o)
    BY <1>7, <2>1, <2>3
  <2>4. QED
    BY <2>1, <2>2, <2>3
<1>10. FramesOK'
  BY <1>8, <1>9 DEF FramesOK, Exists
<1>11. InitsOK'
  <2>1. ASSUME NEW u \in Threads, NEW v \in Threads,
               NEW i \in 1..Depth(u)', NEW j \in 1..Depth(v)',
               frames'[u][i].exec, frames'[v][j].callee = frames'[u][i].callee
        PROVE  u = v /\ i = j
    <3>1. /\ i \in 1..Depth(u) /\ frames'[u][i] = frames[u][i]
          /\ j \in 1..Depth(v) /\ frames'[v][j] = frames[v][j]
      BY <1>8
    <3>2. frames[u][i].exec /\ frames[v][j].callee = frames[u][i].callee
      BY <2>1, <3>1, Zenon
    <3>3. QED
      BY <3>1, <3>2 DEF InitsOK
  <2>2. QED
    BY <2>1 DEF InitsOK, Depth
<1>12. ASSUME NEW u \in Threads
       PROVE  Follows(object', frames'[u], stack'[u])
  <2> DEFINE f == frames'[u]
             s == stack'[u]
             obj == object'
  <2>1. Follows(object, f, s)
    BY <1>3, <1>6 DEF StacksOK
  <2>2. Len(f) \in Nat /\ \A i \in 1..Len(f) : obj[f[i].callee].code = object[f[i].callee].code
    <3>1. Len(f) \in Nat
      BY <1>6, LenProperties
    <3>2. QED
      BY <1>8, <1>9, <3>1 DEF Depth
  <2> HIDE DEF f, s, obj
  <2>3. Follows(obj, f, s)
    BY <2>1, <2>2, SameFollows
  <2>4. QED
    BY <2>3 DEF f, s, obj
<1>13. TypeOK'
  BY <1>4, <1>6, <1>7 DEF TypeOK, modules
<1>14. SessionsOK' /\ ObjectsOK' /\ DumpedOnce' /\ FirstCallMakes'
  BY <1>4, <1>7 DEF SessionsOK, ObjectsOK, Exists, DumpedOnce, FirstCallMakes, modules
<1>15. QED
  BY <1>10, <1>11, <1>12, <1>13, <1>14 DEF StacksOK

-----------------------------------------------------------------------------
\* The function on top of a thread's calls.
LEMMA TopOfCalls ==
  ASSUME IInv, NEW t \in Threads, Depth(t) > 0
  PROVE  /\ Depth(t) \in 1..Depth(t) /\ Top(t) = frames[t][Depth(t)] /\ Top(t) \in Frame
         /\ Exists(Top(t).callee) /\ object[Top(t).callee].code \in Modules
         /\ session[object[Top(t).callee].code] # 0
         /\ object[Top(t).callee].id = session[object[Top(t).callee].code]
         /\ object[Top(t).callee].context = Home(object[Top(t).callee].code)
<1> USE DEF IInv
<1>1. Depth(t) \in 1..Depth(t)
  BY ThreadTypes
<1>2. Top(t) = frames[t][Depth(t)]
  BY DEF Top
<1>3. Top(t) \in Frame
  BY <1>1, <1>2, ThreadTypes
<1>4. Exists(Top(t).callee) /\ Top(t).callee \in Objs
  BY <1>1, <1>2, <1>3 DEF FramesOK, Frame
<1>5. QED
  BY <1>1, <1>2, <1>3, <1>4 DEF ObjectsOK

\* A context that has the running function is the one of its module: no other
\* module has a function with its id.
LEMMA FoundIsHome ==
  ASSUME IInv, NEW t \in Threads, Depth(t) > 0, Found(t)
  PROVE  Current(t) = Home(object[Top(t).callee].code)
<1> DEFINE s == stack[t]
           m == object[Top(t).callee].code
<1>1. s \in Seq(Context) /\ s # <<>>
  BY ThreadTypes DEF IInv, Found
<1>2. Len(s) \in 1..Len(s) /\ Current(t) = s[Len(s)]
  BY <1>1, EmptySeq DEF Current
<1>3. Current(t) = Home(Current(t).home)
  BY <1>2 DEF IInv, StacksOK, Follows
<1>4. Current(t) \in Context
  BY <1>1, <1>2, ElementOfSeq
<1>5. Current(t).home \in Modules
  BY <1>4 DEF Context
<1>6. session[Current(t).home] = session[m] /\ session[m] # 0 /\ m \in Modules
  BY TopOfCalls DEF Found
<1>7. Current(t).home = m
  BY <1>5, <1>6 DEF IInv, SessionsOK
<1>8. QED
  BY <1>3, <1>7

\* A call that has pushed a context finds its own code.
LEMMA PushedIsFound ==
  ASSUME IInv, NEW t \in Threads, Depth(t) > 0, Top(t).pushed # 0
  PROVE  Found(t)
<1> DEFINE n == Depth(t)
           o == Top(t).callee
<1>1. /\ n \in 1..n /\ Top(t) = frames[t][n] /\ Top(t) \in Frame
      /\ object[o].id = session[object[o].code]
  BY TopOfCalls
<1>2. Len(stack[t]) \in Nat /\ n = Len(frames[t]) /\ n \in Nat
  BY ThreadTypes DEF IInv
<1>3. Top(t).base \in Nat /\ Top(t).pushed \in Nat \ {0}
  BY <1>1 DEF Frame
<1>4. Follows(object, frames[t], stack[t])
  BY DEF IInv, StacksOK
<1>5. Top(t).base + Top(t).pushed = Len(stack[t]) /\ End(frames[t], n) = Len(stack[t])
  BY <1>1, <1>2, <1>4 DEF Follows, End
<1>6. Len(stack[t]) > 0 /\ Len(stack[t]) \in Top(t).base + 1 .. Len(stack[t])
  BY <1>2, <1>3, <1>5
<1>7. Current(t) = Home(object[o].code)
  BY <1>1, <1>2, <1>4, <1>5, <1>6 DEF Follows, Current
<1>8. stack[t] # <<>>
  BY <1>6, EmptySeq
<1>9. QED
  BY <1>1, <1>7, <1>8 DEF Found, Home

\* make_bb_function borrows the context of the running function's module.
LEMMA MakeBeginIInv ==
  ASSUME IInv, NEW t \in Threads, MakeBegin(t)
  PROVE  IInv'
<1> DEFINE c == Current(t)
<1>1. Depth(t) > 0 /\ Found(t) /\ UNCHANGED <<eager, modules, object, stack, refused>>
  BY DEF MakeBegin
<1>2. c = Home(object[Top(t).callee].code) /\ object[Top(t).callee].code \in Modules
  BY <1>1, FoundIsHome, TopOfCalls
<1>3. c \in Context \cup {NoContext}
  BY <1>2, RuntimeIsHome DEF IInv
<1>4. frames' = [frames EXCEPT ![t][Depth(t)].making = c]
  BY DEF MakeBegin
<1> HIDE DEF c
<1>5. /\ frames' \in [Threads -> Seq(Frame)] /\ stack' \in [Threads -> Seq(Context)]
      /\ FramesOK' /\ InitsOK' /\ StacksOK'
  BY <1>1, <1>2, <1>3, <1>4, Making DEF IInv
<1>6. TypeOK'
  BY <1>1, <1>5 DEF IInv, TypeOK, modules
<1>7. SessionsOK' /\ ObjectsOK' /\ DumpedOnce' /\ FirstCallMakes'
  BY <1>1 DEF IInv, SessionsOK, ObjectsOK, Exists, DumpedOnce, FirstCallMakes, modules
<1>8. QED
  BY <1>5, <1>6, <1>7 DEF IInv

\* Only a call that has pushed nothing is refused.
LEMMA MakeRefusedIInv ==
  ASSUME IInv, NEW t \in Threads, MakeRefused(t)
  PROVE  IInv'
<1>1. /\ Depth(t) > 0 /\ ~Found(t) /\ refused' = refused \cup {Top(t).pushed}
      /\ UNCHANGED <<eager, modules, object, frames, stack>>
  BY DEF MakeRefused
<1>2. Top(t).pushed = 0
  BY <1>1, PushedIsFound
<1>3. /\ frames' \in [Threads -> Seq(Frame)] /\ stack' \in [Threads -> Seq(Context)]
      /\ FramesOK' /\ InitsOK' /\ StacksOK'
  BY <1>1, NoCall DEF IInv
<1>4. TypeOK'
  BY <1>1, <1>2, <1>3 DEF IInv, TypeOK, modules
<1>5. SessionsOK' /\ ObjectsOK' /\ DumpedOnce' /\ FirstCallMakes'
  BY <1>1, <1>2 DEF IInv, SessionsOK, ObjectsOK, Exists, DumpedOnce, FirstCallMakes, modules
<1>6. QED
  BY <1>3, <1>4, <1>5 DEF IInv

\* The new function has the borrowed context: the one of its maker's module.
LEMMA MakeEndIInv ==
  ASSUME IInv, NEW t \in Threads, NEW o \in Objs, MakeEnd(t, o)
  PROVE  IInv'
<1> DEFINE p == Top(t).callee
           new == [code |-> object[p].code, id |-> object[p].id,
                   context |-> Top(t).making, compiled |-> eager]
<1>1. /\ Depth(t) > 0 /\ Top(t).making # NoContext /\ ~Exists(o)
      /\ object' = [object EXCEPT ![o] = new]
      /\ frames' = [frames EXCEPT ![t][Depth(t)].making = NoContext]
      /\ UNCHANGED <<eager, modules, stack, refused>>
  BY DEF MakeEnd
<1>2. /\ object[p].code \in Modules /\ Exists(p) /\ p \in Objs
      /\ session[object[p].code] # 0 /\ object[p].id = session[object[p].code]
      /\ Top(t).making = Home(object[p].code)
  <2>1. /\ Depth(t) \in 1..Depth(t) /\ Top(t) = frames[t][Depth(t)] /\ Top(t) \in Frame
        /\ object[p].code \in Modules /\ Exists(p)
        /\ session[object[p].code] # 0 /\ object[p].id = session[object[p].code]
    BY <1>1, TopOfCalls
  <2>2. p \in Objs
    BY <2>1 DEF Frame
  <2>3. Top(t).making = Home(object[p].code)
    BY <1>1, <2>1 DEF IInv, FramesOK
  <2>4. QED
    BY <2>1, <2>2, <2>3
<1>3. new \in Function
  BY <1>2, RuntimeIsHome DEF IInv, TypeOK, Function
<1>4. object' \in [Objs -> Function] /\ object'[o] = new
      /\ \A q \in Objs : q # o => object'[q] = object[q]
  BY <1>1, <1>3 DEF IInv, TypeOK
<1>5. /\ new.code = object[p].code /\ new.id = session[new.code]
      /\ new.context = Home(new.code) /\ new.code \in Modules /\ session[new.code] # 0
  BY <1>2
<1> HIDE DEF new
<1>6. \A u \in Threads : \A i \in 1..Depth(u) :
        object'[frames[u][i].callee].code = object[frames[u][i].callee].code
  BY <1>1, <1>4, ThreadTypes DEF IInv, FramesOK, Frame
<1>7. /\ frames' \in [Threads -> Seq(Frame)] /\ stack' \in [Threads -> Seq(Context)]
      /\ FramesOK' /\ InitsOK' /\ StacksOK'
  BY <1>1, <1>6, Making DEF IInv
<1>8. TypeOK'
  BY <1>1, <1>4, <1>7 DEF IInv, TypeOK, modules
<1>9. ObjectsOK'
  BY <1>1, <1>4, <1>5 DEF IInv, ObjectsOK, Exists, modules
<1>10. SessionsOK' /\ DumpedOnce' /\ FirstCallMakes'
  BY <1>1 DEF IInv, SessionsOK, DumpedOnce, FirstCallMakes, modules
<1>11. QED
  BY <1>7, <1>8, <1>9, <1>10 DEF IInv

-----------------------------------------------------------------------------
\* Every step preserves the inductive invariant.
LEMMA NextIInv == IInv /\ [Next]_vars => IInv'
<1> SUFFICES ASSUME IInv, [Next]_vars PROVE IInv'
  OBVIOUS
<1>1. ASSUME NEW m \in Modules, ModuleClear(m) PROVE IInv'
  BY <1>1, ReleaseIInv DEF ModuleClear
<1>2. ASSUME NEW m \in Modules, ModuleFree(m) PROVE IInv'
  BY <1>2, ReleaseIInv DEF ModuleFree
<1>3. CASE UNCHANGED vars
  <2>1. /\ frames' \in [Threads -> Seq(Frame)] /\ stack' \in [Threads -> Seq(Context)]
        /\ FramesOK' /\ InitsOK' /\ StacksOK'
    BY <1>3, NoCall DEF IInv, vars
  <2>2. TypeOK'
    BY <1>3 DEF IInv, TypeOK, vars, modules
  <2>3. SessionsOK' /\ ObjectsOK' /\ DumpedOnce' /\ FirstCallMakes'
    BY <1>3 DEF IInv, SessionsOK, ObjectsOK, Exists, DumpedOnce, FirstCallMakes, vars, modules
  <2>4. QED
    BY <2>1, <2>2, <2>3 DEF IInv
<1>4. CASE Next
  BY <1>1, <1>2, <1>4, CreateModuleIInv, ExecModuleFailsIInv, ExecModuleIInv, CallLazyIInv,
     CallLazyRefusedIInv, CallCompiledIInv, ReturnIInv, FreeFunctionIInv, MakeBeginIInv,
     MakeRefusedIInv, MakeEndIInv, Zenon DEF Next
<1>5. QED
  BY <1>3, <1>4

\* The invariant the theorems below rest on, for any modules, threads, function
\* objects and depth of calls.
THEOREM Invariance == Spec => []IInv
<1>1. QED
  BY InitIInv, NextIInv, PTL DEF Spec

\* Every variable keeps its type.
THEOREM TypeCorrect == Spec => []TypeOK
<1>1. IInv => TypeOK
  BY DEF IInv
<1>2. QED
  BY <1>1, Invariance, PTL

\* What each call has pushed on its thread's context stack lies where the call
\* began, and is of the module whose code the call runs: the guards of
\* push_active_module_runtime_context are paired with the calls.
THEOREM StackAgrees == Spec => []StackFollowsCalls
<1>1. ASSUME IInv
      PROVE  StackFollowsCalls
  <2>1. ASSUME NEW t \in Threads
        PROVE  /\ Depth(t) = 0 => stack[t] = <<>>
               /\ \A i \in 1..Depth(t) :
                    LET f == frames[t][i]
                        after == IF i = Depth(t) THEN Len(stack[t])
                                 ELSE frames[t][i + 1].base IN
                    /\ f.base + f.pushed = after
                    /\ \A k \in f.base + 1 .. after : stack[t][k].home = object[f.callee].code
    <3>1. Follows(object, frames[t], stack[t]) /\ Depth(t) = Len(frames[t]) /\ Depth(t) \in Nat
      BY <1>1, ThreadTypes DEF IInv, StacksOK
    <3>2. ASSUME NEW i \in 1..Depth(t)
          PROVE  LET f == frames[t][i]
                     after == IF i = Depth(t) THEN Len(stack[t])
                              ELSE frames[t][i + 1].base IN
                 /\ f.base + f.pushed = after
                 /\ \A k \in f.base + 1 .. after : stack[t][k].home = object[f.callee].code
      <4>1. End(frames[t], i) = IF i = Depth(t) THEN Len(stack[t]) ELSE frames[t][i + 1].base
        BY <3>1 DEF Follows
      <4>2. \A k \in frames[t][i].base + 1 .. End(frames[t], i) :
              stack[t][k].home = object[frames[t][i].callee].code
        <5>1. \A m : Home(m).home = m
          BY DEF Home
        <5>2. QED
          BY <3>1, <5>1 DEF Follows
      <4>3. QED
        BY <4>1, <4>2 DEF End
    <3>3. QED
      BY <3>1, <3>2 DEF Follows
  <2>2. QED
    BY <2>1, Zenon DEF StackFollowsCalls
<1>2. QED
  BY <1>1, Invariance, PTL

\* Every function has the context of the module its code was lowered in.
THEOREM FunctionsAtHome == Spec => []FunctionsAreAtHome
<1>1. \A m : Home(m).home = m
  BY DEF Home
<1>2. IInv => FunctionsAreAtHome
  BY <1>1 DEF IInv, ObjectsOK, FunctionsAreAtHome
<1>3. QED
  BY <1>2, Invariance, PTL

\* The functions of a module share its one global cache.
THEOREM OneCache == Spec => []OneCachePerModule
<1>1. IInv => OneCachePerModule
  BY DEF IInv, ObjectsOK, OneCachePerModule
<1>2. QED
  BY <1>1, Invariance, PTL

\* The counters of a module are dumped exactly once, when it is cleared or freed.
THEOREM CountersDumpedOnce == Spec => []DumpedOnce
<1>1. IInv => DumpedOnce
  BY DEF IInv
<1>2. QED
  BY <1>1, Invariance, PTL

\* Only a call that pushed no context is ever refused its nested function.
THEOREM FirstCallsMake == Spec => []FirstCallMakes
<1>1. IInv => FirstCallMakes
  BY DEF IInv
<1>2. QED
  BY <1>1, Invariance, PTL
=============================================================================
