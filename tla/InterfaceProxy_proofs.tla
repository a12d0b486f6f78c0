------------------------- MODULE InterfaceProxy_proofs -------------------------
(***************************************************************************)
(* Proofs about interface::proxy and shell_invoke, for every number of     *)
(* threads, handlers and shells and every depth of nesting: a handler      *)
(* reaches the proxy it was passed for and no other, and a call runs the   *)
(* method called, with arguments it can receive.                           *)
(***************************************************************************)
EXTENDS InterfaceProxy, SequenceTheorems, TLAPS

\* Construction is the innermost thing a thread does: what it is in below that
\* are calls of proxies that run Rust code.
BelowRuns ==
  \A t \in Threads : \A i \in 1..(Len(stack[t]) - 1) :
    stack[t][i].act = "call" /\ stack[t][i].pc \in {"handler", "default"}

\* A shell under construction belongs to one operation.
Constructs(t) == stack[t] # <<>> /\ Top(t).act # "call" /\ Top(t).shell # None

OneConstructor ==
  \A t, u \in Threads :
    (t # u /\ Constructs(t) /\ Constructs(u)) => Top(t).shell # Top(u).shell

\* A declared method has the name of the one called and receives its arguments.
Suits(d, m) ==
  /\ d.name = m.name
  /\ Len(d.params) = Len(m.params)
  /\ \A k \in DOMAIN d.params : Receives(d.params[k], m.params[k])

\* What is known of an operation by its stage.
MakingOK(f) ==
  (f.act # "call" /\ f.shell # None) =>
    /\ shell[f.shell] = "alone"
    /\ f.pc \in {"clear", "link"} => bound[f.shell] = f.handler

CallOK(f) ==
  f.act = "call" =>
    /\ shell[f.shell] = "proxied"
    /\ f.pc # "get" => f.handler # None
    /\ f.handler # None => f.handler = madeWith[f.shell]
    /\ f.pc \notin {"get", "route"} => ~Intercepts(f.method)
    /\ f.pc \in {"locate", "default"} => f.method.default
    /\ f.pc \in {"arguments", "handler"} => ~(f.method.default /\ java16)
    /\ f.pc # "handler" => f.ran = None
    /\ f.pc = "handler" =>
         /\ f.handler \in DOMAIN Declares <=> f.ran # None
         /\ f.ran # None => Suits(f.ran, f.method)

FramesOK ==
  \A t \in Threads : \A i \in 1..Len(stack[t]) :
    MakingOK(stack[t][i]) /\ CallOK(stack[t][i])

\* The ranges of the variables but the stack.
Ranges ==
  /\ java16 \in BOOLEAN
  /\ boot \in {"none", "running", "ok", "failed"}
  /\ pending \in [Threads -> Handlers \cup {None}]
  /\ shell \in [Shells -> {"unborn", "alone", "proxied", "collected"}]
  /\ bound \in [Shells -> Handlers \cup {None}]
  /\ held \subseteq {s \in Shells : shell[s] = "proxied"}
  /\ madeWith \in [Shells -> Handlers \cup {None}]

StackType == stack \in [Threads -> Seq(Frame)]

\* A proxy has the handler it was requested with.
ProxiesOK ==
  \A s \in Shells :
    shell[s] = "proxied" => madeWith[s] # None /\ bound[s] = madeWith[s]

\* The inductive invariant.
Inv ==
  /\ Ranges
  /\ StackType
  /\ BelowRuns
  /\ OneConstructor
  /\ FramesOK
  /\ ProxiesOK
  /\ PendingIsOwn

-----------------------------------------------------------------------------
(***************************************************************************)
(* The stack of a thread.                                                  *)
(***************************************************************************)

LEMMA TopIsFrame ==
  ASSUME StackType, NEW t \in Threads, stack[t] # <<>>
  PROVE  /\ Len(stack[t]) \in 1..Len(stack[t])
         /\ Top(t) = stack[t][Len(stack[t])]
         /\ Top(t) \in Frame
<1>1. stack[t] \in Seq(Frame)
  BY DEF StackType
<1>2. Len(stack[t]) \in Nat \ {0}
  BY <1>1, EmptySeq
<1>3. Len(stack[t]) \in 1..Len(stack[t])
  BY <1>2
<1>4. stack[t][Len(stack[t])] \in Frame
  BY <1>1, <1>3, ElementOfSeq
<1> QED
  BY <1>3, <1>4 DEF Top

LEMMA PushFacts ==
  ASSUME StackType, NEW t \in Threads, NEW f \in Frame, Push(t, f)
  PROVE  /\ StackType'
         /\ \A u \in Threads : u # t => stack'[u] = stack[u]
         /\ stack'[t] # <<>>
         /\ Len(stack'[t]) = Len(stack[t]) + 1
         /\ stack'[t][Len(stack'[t])] = f
         /\ \A i \in 1..Len(stack[t]) : stack'[t][i] = stack[t][i]
<1>1. stack[t] \in Seq(Frame) /\ Len(stack[t]) \in Nat
  BY LenProperties DEF StackType
<1>2. stack'[t] = Append(stack[t], f)
  BY DEF Push, StackType
<1>3. stack'[t] \in Seq(Frame) /\ stack'[t] # <<>> /\ Len(stack'[t]) = Len(stack[t]) + 1
  BY <1>1, <1>2, AppendProperties
<1>4. stack'[t][Len(stack[t]) + 1] = f /\ \A i \in 1..Len(stack[t]) : stack'[t][i] = stack[t][i]
  BY <1>1, <1>2, AppendProperties
<1>5. StackType' /\ \A u \in Threads : u # t => stack'[u] = stack[u]
  BY <1>3 DEF Push, StackType
<1> QED
  BY <1>3, <1>4, <1>5

LEMMA BecomeFacts ==
  ASSUME StackType, NEW t \in Threads, stack[t] # <<>>, NEW f \in Frame, Become(t, f)
  PROVE  /\ StackType'
         /\ \A u \in Threads : u # t => stack'[u] = stack[u]
         /\ stack'[t] # <<>>
         /\ Len(stack'[t]) = Len(stack[t])
         /\ stack'[t][Len(stack'[t])] = f
         /\ \A i \in 1..(Len(stack[t]) - 1) : stack'[t][i] = stack[t][i]
<1>1. stack[t] \in Seq(Frame) /\ Len(stack[t]) \in Nat /\ Len(stack[t]) \in 1..Len(stack[t])
  BY TopIsFrame, LenProperties DEF StackType
<1>2. stack'[t] = [stack[t] EXCEPT ![Len(stack[t])] = f]
  BY DEF Become, StackType
<1>3. /\ stack'[t] \in Seq(Frame)
      /\ Len(stack'[t]) = Len(stack[t])
      /\ \A j \in 1..Len(stack[t]) :
           stack'[t][j] = IF j = Len(stack[t]) THEN f ELSE stack[t][j]
  BY <1>1, <1>2, ExceptSeq
<1>4. stack'[t] # <<>>
  BY <1>1, <1>3, EmptySeq
<1>5. StackType' /\ \A u \in Threads : u # t => stack'[u] = stack[u]
  BY <1>3 DEF Become, StackType
<1>6. stack'[t][Len(stack[t])] = f /\ \A i \in 1..(Len(stack[t]) - 1) : stack'[t][i] = stack[t][i]
  BY <1>1, <1>3
<1> QED
  BY <1>3, <1>4, <1>5, <1>6

LEMMA PopFacts ==
  ASSUME StackType, NEW t \in Threads, stack[t] # <<>>, Pop(t)
  PROVE  /\ StackType'
         /\ \A u \in Threads : u # t => stack'[u] = stack[u]
         /\ Len(stack'[t]) = Len(stack[t]) - 1
         /\ \A i \in 1..(Len(stack[t]) - 1) : stack'[t][i] = stack[t][i]
<1>1. stack[t] \in Seq(Frame) /\ Len(stack[t]) \in Nat \ {0}
  BY TopIsFrame, LenProperties DEF StackType
<1>2. stack'[t] = SubSeq(stack[t], 1, Len(stack[t]) - 1)
  BY DEF Pop, StackType
<1>3. \A i \in 1..(Len(stack[t]) - 1) : stack[t][i] \in Frame
  BY <1>1, ElementOfSeq
<1>4. /\ stack'[t] \in Seq(Frame)
      /\ Len(stack'[t]) = Len(stack[t]) - 1
      /\ \A i \in 1..(Len(stack[t]) - 1) : stack'[t][i] = stack[t][i]
  BY <1>1, <1>2, <1>3, SubSeqProperties
<1>5. StackType' /\ \A u \in Threads : u # t => stack'[u] = stack[u]
  BY <1>4 DEF Pop, StackType
<1> QED
  BY <1>4, <1>5

-----------------------------------------------------------------------------
(***************************************************************************)
(* What a change of the top of one stack and of one shell leaves alone.    *)
(***************************************************************************)

\* At most shell s is touched.
OnlyShell(s) ==
  /\ java16' = java16
  /\ \A p \in Shells : p # s =>
       shell'[p] = shell[p] /\ bound'[p] = bound[p] /\ madeWith'[p] = madeWith[p]

\* An operation that works on another shell does not notice.
LEMMA OthersStay ==
  ASSUME NEW s, OnlyShell(s), NEW f \in Frame, f.shell # s \/ s = None,
         MakingOK(f), CallOK(f)
  PROVE  MakingOK(f)' /\ CallOK(f)'
<1>1. f.act = "call" \/ f.shell # None => f.shell \in Shells
  BY DEF Frame
<1>2. s = None => f.shell # s \/ f.act # "call"
  BY <1>1, InterfaceProxyAssumption
<1>3. MakingOK(f)'
  BY <1>1 DEF OnlyShell, MakingOK
<1>4. CallOK(f)'
  BY <1>1, <1>2 DEF OnlyShell, CallOK
<1> QED
  BY <1>3, <1>4

\* Whoever runs Rust code constructs nothing, and a thread constructs at the top.
LEMMA ConstructsAtTop ==
  ASSUME Inv, NEW t \in Threads, NEW i \in 1..Len(stack[t]),
         stack[t][i].act # "call"
  PROVE  i = Len(stack[t]) /\ stack[t] # <<>> /\ Top(t) = stack[t][i] /\ ~Runs(t)
<1>1. Len(stack[t]) \in Nat /\ stack[t] \in Seq(Frame)
  BY LenProperties DEF Inv, StackType
<1>2. i = Len(stack[t])
  BY <1>1 DEF Inv, BelowRuns
<1>3. stack[t] # <<>>
  BY <1>1, EmptySeq
<1> QED
  BY <1>2, <1>3 DEF Top, Runs, At

\* A shell that is not born, or that the top of t constructs, is nowhere else.
LEMMA NowhereElse ==
  ASSUME Inv, NEW t \in Threads, NEW s \in Shells,
         shell[s] = "unborn" \/ (Constructs(t) /\ Top(t).shell = s),
         NEW u \in Threads, NEW i \in 1..Len(stack[u]),
         shell[s] = "unborn" \/ u # t \/ i # Len(stack[t])
  PROVE  stack[u][i].shell # s
<1>1. MakingOK(stack[u][i]) /\ CallOK(stack[u][i])
  BY DEF Inv, FramesOK
<1>2. s # None
  BY InterfaceProxyAssumption
<1>3. CASE shell[s] = "unborn"
  BY <1>1, <1>2, <1>3 DEF MakingOK, CallOK
<1>4. CASE Constructs(t) /\ Top(t).shell = s
  <2>1. shell[s] = "alone"
    BY <1>2, <1>4, TopIsFrame DEF Constructs, Inv, FramesOK, MakingOK
  <2>2. CASE stack[u][i].act = "call"
    BY <1>1, <2>1, <2>2 DEF CallOK
  <2>3. CASE stack[u][i].act # "call"
    <3>1. i = Len(stack[u]) /\ stack[u] # <<>> /\ Top(u) = stack[u][i]
      BY <2>3, ConstructsAtTop
    <3>2. CASE u # t
      BY <1>2, <1>4, <2>3, <3>1, <3>2 DEF Inv, OneConstructor, Constructs
    <3>3. CASE u = t
      BY <2>1, <3>1, <3>3
    <3> QED
      BY <3>2, <3>3
  <2> QED
    BY <2>2, <2>3
<1> QED
  BY <1>3, <1>4

\* Nor do the proxies.
LEMMA ProxiesStay ==
  ASSUME Inv, NEW s, OnlyShell(s),
         s \in Shells /\ shell'[s] = "proxied" =>
           madeWith'[s] # None /\ bound'[s] = madeWith'[s]
  PROVE  ProxiesOK'
BY DEF Inv, ProxiesOK, OnlyShell

\* An operation begins.
LEMMA PushInv ==
  ASSUME Inv, NEW t \in Threads, NEW f \in Frame, Push(t, f),
         NEW s \in Shells \cup {None}, OnlyShell(s),
         s # None => shell[s] = "unborn" /\ shell'[s] = "alone",
         Ranges', pending' = pending,
         MakingOK(f)', CallOK(f)',
         f.act # "call" /\ f.shell # None => f.shell = s
  PROVE  Inv'
<1>1. /\ StackType'
      /\ \A u \in Threads : u # t => stack'[u] = stack[u]
      /\ stack'[t] # <<>>
      /\ Len(stack'[t]) = Len(stack[t]) + 1
      /\ stack'[t][Len(stack'[t])] = f
      /\ \A i \in 1..Len(stack[t]) : stack'[t][i] = stack[t][i]
  BY PushFacts DEF Inv
<1>2. Len(stack[t]) \in Nat /\ \A u \in Threads : stack[u] \in Seq(Frame)
  BY LenProperties DEF Inv, StackType
<1>3. Runs(t)
  BY DEF Push
<1>4. BelowRuns'
  <2>1. ASSUME NEW i \in 1..Len(stack[t])
        PROVE  stack[t][i].act = "call" /\ stack[t][i].pc \in {"handler", "default"}
    <3>1. CASE i = Len(stack[t])
      BY <1>2, <1>3, <3>1, EmptySeq DEF Runs, At, Top
    <3>2. CASE i \in 1..(Len(stack[t]) - 1)
      BY <3>2 DEF Inv, BelowRuns
    <3> QED
      BY <1>2, <2>1, <3>1, <3>2
  <2>2. 1..(Len(stack'[t]) - 1) = 1..Len(stack[t])
    BY <1>1, <1>2
  <2> QED
    BY <1>1, <2>1, <2>2 DEF Inv, BelowRuns
<1>5. FramesOK'
  <2>1. ASSUME NEW u \in Threads, NEW i \in 1..Len(stack[u]), NEW g \in Frame,
               g = stack[u][i]
        PROVE  MakingOK(g)' /\ CallOK(g)'
    <3>1. MakingOK(g) /\ CallOK(g)
      BY <2>1 DEF Inv, FramesOK
    <3>2. g.shell # s \/ s = None
      BY <2>1, NowhereElse
    <3> QED
      BY <3>1, <3>2, OthersStay
  <2>2. ASSUME NEW u \in Threads, NEW i \in 1..Len(stack[u]) PROVE stack[u][i] \in Frame
    BY <1>2, <2>2, ElementOfSeq
  <2>3. ASSUME NEW u \in Threads, NEW i \in 1..Len(stack'[u]), NEW g \in Frame,
               g = stack'[u][i]
        PROVE  MakingOK(g)' /\ CallOK(g)'
    <3>1. CASE u = t /\ i = Len(stack'[t])
      BY <1>1, <2>3, <3>1
    <3>2. CASE u # t \/ i # Len(stack'[t])
      <4>1. i \in 1..Len(stack[u]) /\ g = stack[u][i]
        BY <1>1, <1>2, <2>3, <3>2
      <4> QED
        BY <2>1, <4>1
    <3> QED
      BY <3>1, <3>2
  <2>4. \A u \in Threads : \A i \in 1..Len(stack'[u]) : stack'[u][i] \in Frame
    BY <1>1, ElementOfSeq DEF StackType
  <2> QED
    BY <2>3, <2>4 DEF FramesOK, MakingOK, CallOK
<1>6. OneConstructor'
  <2>1. \A u \in Threads : u # t => (Constructs(u)' <=> Constructs(u)) /\ Top(u)' = Top(u)
    BY <1>1 DEF Constructs, Top
  <2>2. ASSUME NEW u \in Threads, u # t, Constructs(u), f.act # "call", f.shell # None
        PROVE  Top(u).shell # f.shell
    BY <2>2, NowhereElse, TopIsFrame DEF Constructs, Inv
  <2>3. Top(t)' = f
    BY <1>1 DEF Top
  <2> QED
    BY <2>1, <2>2, <2>3 DEF Inv, OneConstructor, Constructs
<1>7. ProxiesOK'
  <2>1. s \in Shells => shell'[s] # "proxied"
    BY InterfaceProxyAssumption
  <2> QED
    BY <2>1, ProxiesStay
<1>8. PendingIsOwn'
  <2>1. pending[t] = None
    BY <1>3 DEF Inv, PendingIsOwn, Runs, At
  <2> QED
    BY <1>1, <2>1 DEF Inv, PendingIsOwn, At, Top
<1> QED
  BY <1>1, <1>4, <1>5, <1>6, <1>7, <1>8 DEF Inv

\* The frames that stay where the top of t changes.
LEMMA KeptFrames ==
  ASSUME Inv, NEW t \in Threads, NEW s \in Shells \cup {None}, OnlyShell(s),
         s # None => shell[s] = "unborn" \/ (Constructs(t) /\ Top(t).shell = s),
         NEW u \in Threads, NEW i \in 1..Len(stack[u]), u # t \/ i # Len(stack[t]),
         NEW g \in Frame, g = stack[u][i]
  PROVE  MakingOK(g)' /\ CallOK(g)'
<1>1. MakingOK(g) /\ CallOK(g)
  BY DEF Inv, FramesOK
<1>2. g.shell # s \/ s = None
  BY NowhereElse
<1> QED
  BY <1>1, <1>2, OthersStay

\* An operation goes on.
LEMMA BecomeInv ==
  ASSUME Inv, NEW t \in Threads, stack[t] # <<>>, NEW f \in Frame, Become(t, f),
         NEW s \in Shells \cup {None}, OnlyShell(s),
         s # None => shell[s] = "unborn" \/ (Constructs(t) /\ Top(t).shell = s),
         s # None => shell'[s] # "proxied",
         Ranges',
         \A u \in Threads : u # t => pending'[u] = pending[u],
         pending'[t] # None =>
           /\ f.act = "proxy" /\ f.pc \in {"construct", "init", "clear"}
           /\ f.handler = pending'[t],
         MakingOK(f)', CallOK(f)',
         f.act # "call" /\ f.shell # None =>
           f.shell = s \/ (Constructs(t) /\ f.shell = Top(t).shell)
  PROVE  Inv'
<1>1. /\ StackType'
      /\ \A u \in Threads : u # t => stack'[u] = stack[u]
      /\ stack'[t] # <<>>
      /\ Len(stack'[t]) = Len(stack[t])
      /\ stack'[t][Len(stack'[t])] = f
      /\ \A i \in 1..(Len(stack[t]) - 1) : stack'[t][i] = stack[t][i]
  BY BecomeFacts DEF Inv
<1>2. Len(stack[t]) \in Nat /\ \A u \in Threads : stack[u] \in Seq(Frame)
  BY LenProperties DEF Inv, StackType
<1>3. BelowRuns'
  BY <1>1 DEF Inv, BelowRuns
<1>4. FramesOK'
  <2>1. ASSUME NEW u \in Threads, NEW i \in 1..Len(stack'[u]), NEW g \in Frame,
               g = stack'[u][i]
        PROVE  MakingOK(g)' /\ CallOK(g)'
    <3>1. CASE u = t /\ i = Len(stack'[t])
      BY <1>1, <2>1, <3>1
    <3>2. CASE u # t \/ i # Len(stack'[t])
      <4>1. i \in 1..Len(stack[u]) /\ g = stack[u][i] /\ (u # t \/ i # Len(stack[t]))
        BY <1>1, <1>2, <2>1, <3>2
      <4> QED
        BY <4>1, KeptFrames
    <3> QED
      BY <3>1, <3>2
  <2>2. \A u \in Threads : \A i \in 1..Len(stack'[u]) : stack'[u][i] \in Frame
    BY <1>1, ElementOfSeq DEF StackType
  <2> QED
    BY <2>1, <2>2 DEF FramesOK, MakingOK, CallOK
<1>5. OneConstructor'
  <2>1. \A u \in Threads : u # t => (Constructs(u)' <=> Constructs(u)) /\ Top(u)' = Top(u)
    BY <1>1 DEF Constructs, Top
  <2>2. ASSUME NEW u \in Threads, u # t, Constructs(u), f.act # "call", f.shell # None
        PROVE  Top(u).shell # f.shell
    <3>1. f.shell \in Shells
      BY <2>2 DEF Frame
    <3>2. shell[f.shell] = "unborn" \/ (Constructs(t) /\ Top(t).shell = f.shell)
      BY <2>2
    <3> QED
      BY <2>2, <3>1, <3>2, NowhereElse, TopIsFrame DEF Constructs, Inv
  <2>3. Top(t)' = f
    BY <1>1 DEF Top
  <2> QED
    BY <2>1, <2>2, <2>3 DEF Inv, OneConstructor, Constructs
<1>6. ProxiesOK'
  <2>1. s \in Shells => shell'[s] # "proxied"
    BY InterfaceProxyAssumption
  <2> QED
    BY <2>1, ProxiesStay
<1>7. PendingIsOwn'
  BY <1>1 DEF Inv, PendingIsOwn, At, Top
<1> QED
  BY <1>1, <1>3, <1>4, <1>5, <1>6, <1>7 DEF Inv

\* An operation returns to the Rust code below it.
LEMMA PopInv ==
  ASSUME Inv, NEW t \in Threads, stack[t] # <<>>, Pop(t),
         NEW s \in Shells \cup {None}, OnlyShell(s),
         s # None => Constructs(t) /\ Top(t).shell = s,
         s # None /\ shell'[s] = "proxied" =>
           madeWith'[s] # None /\ bound'[s] = madeWith'[s],
         Ranges',
         \A u \in Threads : u # t => pending'[u] = pending[u],
         pending'[t] = None
  PROVE  Inv'
<1>1. /\ StackType'
      /\ \A u \in Threads : u # t => stack'[u] = stack[u]
      /\ Len(stack'[t]) = Len(stack[t]) - 1
      /\ \A i \in 1..(Len(stack[t]) - 1) : stack'[t][i] = stack[t][i]
  BY PopFacts DEF Inv
<1>2. Len(stack[t]) \in Nat \ {0} /\ \A u \in Threads : stack[u] \in Seq(Frame)
  BY LenProperties, EmptySeq DEF Inv, StackType
<1>3. BelowRuns'
  <2>1. 1..(Len(stack'[t]) - 1) \subseteq 1..(Len(stack[t]) - 1)
    BY <1>1, <1>2
  <2> QED
    BY <1>1, <2>1 DEF Inv, BelowRuns
<1>4. FramesOK'
  <2>1. ASSUME NEW u \in Threads, NEW i \in 1..Len(stack'[u]), NEW g \in Frame,
               g = stack'[u][i]
        PROVE  MakingOK(g)' /\ CallOK(g)'
    <3>1. i \in 1..Len(stack[u]) /\ g = stack[u][i] /\ (u # t \/ i # Len(stack[t]))
      BY <1>1, <1>2, <2>1
    <3> QED
      BY <3>1, KeptFrames
  <2>2. \A u \in Threads : \A i \in 1..Len(stack'[u]) : stack'[u][i] \in Frame
    BY <1>1, ElementOfSeq DEF StackType
  <2> QED
    BY <2>1, <2>2 DEF FramesOK, MakingOK, CallOK
<1>5. OneConstructor'
  <2>1. \A u \in Threads : u # t => (Constructs(u)' <=> Constructs(u)) /\ Top(u)' = Top(u)
    BY <1>1 DEF Constructs, Top
  <2>2. ~Constructs(t)'
    <3>1. ASSUME stack'[t] # <<>> PROVE Len(stack'[t]) \in 1..(Len(stack[t]) - 1)
      BY <1>1, <1>2, <3>1, EmptySeq DEF StackType
    <3> QED
      BY <1>1, <3>1 DEF Inv, BelowRuns, Constructs, Top
  <2> QED
    BY <2>1, <2>2 DEF Inv, OneConstructor
<1>6. ProxiesOK'
  BY ProxiesStay, InterfaceProxyAssumption
<1>7. PendingIsOwn'
  BY <1>1 DEF Inv, PendingIsOwn, At, Top
<1> QED
  BY <1>1, <1>3, <1>4, <1>5, <1>6, <1>7 DEF Inv

-----------------------------------------------------------------------------
(***************************************************************************)
(* The steps.                                                              *)
(***************************************************************************)

others == <<java16, boot, pending, shell, bound, held, madeWith>>

\* What is known of the operation that a thread is in.
LEMMA TopOK ==
  ASSUME Inv, NEW t \in Threads, stack[t] # <<>>
  PROVE  Top(t) \in Frame /\ MakingOK(Top(t)) /\ CallOK(Top(t))
BY TopIsFrame DEF Inv, FramesOK

\* Nothing is in the slot of a thread whose top makes no proxy, or has not armed
\* it or has cleared it.
LEMMA SlotIsEmpty ==
  ASSUME Inv, NEW t \in Threads,
         ~(At(t, "proxy", "construct") \/ At(t, "proxy", "init") \/ At(t, "proxy", "clear"))
  PROVE  pending[t] = None
BY DEF Inv, PendingIsOwn

\* A step on the stack alone.
LEMMA GoesOn ==
  ASSUME Inv, NEW t \in Threads, stack[t] # <<>>, NEW f \in Frame, Become(t, f),
         UNCHANGED others, pending[t] = None, MakingOK(f), CallOK(f),
         f.act # "call" /\ f.shell # None => Constructs(t) /\ f.shell = Top(t).shell
  PROVE  Inv'
<1>1. OnlyShell(None) /\ Ranges' /\ pending' = pending
  BY DEF others, OnlyShell, Inv, Ranges
<1>2. MakingOK(f)' /\ CallOK(f)'
  BY DEF others, MakingOK, CallOK
<1> QED
  BY <1>1, <1>2, BecomeInv

LEMMA Returns ==
  ASSUME Inv, NEW t \in Threads, stack[t] # <<>>, Pop(t), UNCHANGED others,
         pending[t] = None
  PROVE  Inv'
<1>1. OnlyShell(None) /\ Ranges' /\ pending' = pending
  BY DEF others, OnlyShell, Inv, Ranges
<1> QED
  BY <1>1, PopInv

LEMMA StartsInv ==
  ASSUME Inv, NEW t \in Threads,
         \/ \E h \in Handlers : StartProxy(t, h)
         \/ \E s \in Shells, m \in Methods : StartCall(t, s, m)
         \/ \E s \in Shells : JavaConstructs(t, s)
  PROVE  Inv'
<1>1. ASSUME NEW h \in Handlers, StartProxy(t, h) PROVE Inv'
  <2>1. PICK f \in Frame : f = [act |-> "proxy", pc |-> "bootstrap", handler |-> h,
                                shell |-> None, method |-> None]
    BY DEF Frame
  <2>2. Push(t, f) /\ UNCHANGED others
    BY <1>1, <2>1 DEF StartProxy, others
  <2>3. OnlyShell(None) /\ Ranges' /\ pending' = pending
    BY <2>2 DEF others, OnlyShell, Inv, Ranges
  <2>4. MakingOK(f)' /\ CallOK(f)'
    BY <2>1 DEF MakingOK, CallOK
  <2> QED
    BY <2>1, <2>2, <2>3, <2>4, PushInv
<1>2. ASSUME NEW s \in Shells, NEW m \in Methods, StartCall(t, s, m) PROVE Inv'
  <2>1. PICK f \in Frame : f = [act |-> "call", pc |-> "get", handler |-> None,
                                shell |-> s, method |-> m, ran |-> None]
    BY DEF Frame
  <2>2. Push(t, f) /\ UNCHANGED others
    BY <1>2, <2>1 DEF StartCall, others
  <2>3. OnlyShell(None) /\ Ranges' /\ pending' = pending
    BY <2>2 DEF others, OnlyShell, Inv, Ranges
  <2>4. MakingOK(f)' /\ CallOK(f)'
    BY <1>2, <2>1, <2>2 DEF MakingOK, CallOK, StartCall, others, Inv, Ranges
  <2> QED
    BY <2>1, <2>2, <2>3, <2>4, PushInv
<1>3. ASSUME NEW s \in Shells, JavaConstructs(t, s) PROVE Inv'
  <2>1. PICK f \in Frame : f = [act |-> "new", pc |-> "init", handler |-> None,
                                shell |-> s, method |-> None]
    BY DEF Frame
  <2>2. Push(t, f) /\ pending' = pending
    BY <1>3, <2>1 DEF JavaConstructs
  <2>3. shell[s] = "unborn" /\ shell'[s] = "alone"
    BY <1>3 DEF JavaConstructs, Inv, Ranges
  <2>4. OnlyShell(s) /\ Ranges'
    BY <1>3 DEF JavaConstructs, OnlyShell, Inv, Ranges
  <2>5. MakingOK(f)' /\ CallOK(f)'
    BY <2>1, <2>3 DEF MakingOK, CallOK
  <2> QED
    BY <2>1, <2>2, <2>3, <2>4, <2>5, PushInv
<1> QED
  BY <1>1, <1>2, <1>3

LEMMA BootstrapInv ==
  ASSUME Inv, NEW t \in Threads,
         StartBootstrap(t) \/ EndBootstrap(t) \/ UseBootstrap(t)
  PROVE  Inv'
<1>1. stack[t] # <<>> /\ Top(t).act = "proxy" /\ Top(t).pc \in {"bootstrap", "initialise"}
      /\ pending[t] = None
  BY SlotIsEmpty DEF StartBootstrap, EndBootstrap, UseBootstrap, At
<1>2. Top(t) \in Frame
  BY <1>1, TopOK
<1>3. Top(t).shell = None
  BY <1>1, <1>2 DEF Frame
<1>4. OnlyShell(None) /\ Ranges' /\ pending' = pending
  BY DEF StartBootstrap, EndBootstrap, UseBootstrap, BootstrapOutcomes, OnlyShell, Inv, Ranges
<1>5. CASE \E pc \in {"initialise", "bootstrap", "arm"} : Go(t, pc)
  <2>1. PICK pc \in {"initialise", "bootstrap", "arm"} : Go(t, pc)
    BY <1>5
  <2>2. PICK f : f = [Top(t) EXCEPT !.pc = pc]
    OBVIOUS
  <2>3. f \in Frame
    BY <1>1, <1>2, <2>2 DEF Frame
  <2>4. f.act = "proxy" /\ f.shell = None /\ Become(t, f)
    BY <1>1, <1>2, <1>3, <2>1, <2>2 DEF Frame, Go
  <2>5. MakingOK(f)' /\ CallOK(f)'
    BY <2>4 DEF MakingOK, CallOK
  <2> QED
    BY <1>1, <1>4, <2>3, <2>4, <2>5, BecomeInv
<1>6. CASE Pop(t)
  BY <1>1, <1>4, <1>6, PopInv
<1> QED
  BY <1>5, <1>6 DEF StartBootstrap, EndBootstrap, UseBootstrap

\* Arm puts the handler into the slot; Construct takes an unborn shell.
LEMMA ArmInv ==
  ASSUME Inv, NEW t \in Threads, Arm(t)
  PROVE  Inv'
<1>1. stack[t] # <<>> /\ Top(t).act = "proxy" /\ Top(t).pc = "arm" /\ Top(t) \in Frame
  BY TopOK DEF Arm, At
<1>2. Top(t).shell = None /\ Top(t).handler \in Handlers
  BY <1>1 DEF Frame
<1>3. PICK f : f = [Top(t) EXCEPT !.pc = "construct"]
  OBVIOUS
<1>4. f \in Frame /\ f.act = "proxy" /\ f.pc = "construct" /\ f.shell = None
      /\ f.handler = Top(t).handler /\ Become(t, f)
  BY <1>1, <1>3 DEF Frame, Arm, Go
<1>5. OnlyShell(None) /\ pending' = [pending EXCEPT ![t] = Top(t).handler]
  BY DEF Arm, OnlyShell, Slot
<1>6. Ranges'
  BY <1>2, <1>5 DEF Arm, Inv, Ranges
<1>7. MakingOK(f)' /\ CallOK(f)'
  BY <1>4 DEF MakingOK, CallOK
<1> QED
  BY <1>1, <1>4, <1>5, <1>6, <1>7, BecomeInv DEF Inv, Ranges

LEMMA ConstructInv ==
  ASSUME Inv, NEW t \in Threads, Construct(t)
  PROVE  Inv'
<1>1. stack[t] # <<>> /\ Top(t).act = "proxy" /\ Top(t).pc = "construct" /\ Top(t) \in Frame
  BY TopOK DEF Construct, At
<1>2. /\ Top(t).shell = None /\ Top(t).handler \in Handlers
      /\ pending' = pending /\ pending[t] \in {None, Top(t).handler}
  BY <1>1 DEF Frame, Construct, Inv, PendingIsOwn
<1>3. ASSUME NEW s \in Shells, shell[s] = "unborn",
             shell' = [shell EXCEPT ![s] = "alone"],
             Become(t, [Top(t) EXCEPT !.pc = "init", !.shell = s])
      PROVE  Inv'
  <2>1. PICK f : f = [Top(t) EXCEPT !.pc = "init", !.shell = s]
    OBVIOUS
  <2>2. f \in Frame /\ f.act = "proxy" /\ f.pc = "init" /\ f.shell = s
        /\ f.handler = Top(t).handler /\ Become(t, f)
    BY <1>1, <1>3, <2>1 DEF Frame
  <2>3. OnlyShell(s) /\ Ranges' /\ shell'[s] = "alone"
    BY <1>3 DEF Construct, OnlyShell, Inv, Ranges
  <2>4. MakingOK(f)' /\ CallOK(f)'
    BY <2>2, <2>3 DEF MakingOK, CallOK
  <2> QED
    BY <1>1, <1>2, <1>3, <2>2, <2>3, <2>4, BecomeInv
<1>4. CASE Go(t, "clear") /\ UNCHANGED shell
  <2>1. PICK f : f = [Top(t) EXCEPT !.pc = "clear"]
    OBVIOUS
  <2>2. f \in Frame /\ f.act = "proxy" /\ f.pc = "clear" /\ f.shell = None
        /\ f.handler = Top(t).handler /\ Become(t, f)
    BY <1>1, <1>2, <1>4, <2>1 DEF Frame, Go
  <2>3. OnlyShell(None) /\ Ranges'
    BY <1>4 DEF Construct, OnlyShell, Inv, Ranges
  <2>4. MakingOK(f)' /\ CallOK(f)'
    BY <2>2 DEF MakingOK, CallOK
  <2> QED
    BY <1>1, <1>2, <2>2, <2>3, <2>4, BecomeInv
<1> QED
  BY <1>3, <1>4 DEF Construct

\* shell_init finds in the slot the handler of the proxy() that constructs, and
\* nothing if Java code constructs.
LEMMA InitFindsItsOwn ==
  ASSUME Inv, NEW t \in Threads, ShellInit(t)
  PROVE  /\ stack[t] # <<>> /\ Top(t) \in Frame /\ Top(t).pc = "init"
         /\ Top(t).act \in {"proxy", "new"}
         /\ Top(t).shell \in Shells /\ Constructs(t) /\ shell[Top(t).shell] = "alone"
         /\ Top(t).act = "new" => pending[t] = None
         /\ pending[t] # None => Top(t).act = "proxy" /\ Top(t).handler = pending[t]
<1>1. stack[t] # <<>> /\ Top(t).pc = "init" /\ Top(t).act \in {"proxy", "new"}
  BY DEF ShellInit, At
<1>2. Top(t) \in Frame /\ MakingOK(Top(t))
  BY <1>1, TopOK
<1>3. Top(t).shell \in Shells
  BY <1>1, <1>2 DEF Frame
<1>4. Constructs(t) /\ shell[Top(t).shell] = "alone"
  BY <1>1, <1>2, <1>3, InterfaceProxyAssumption DEF Constructs, MakingOK
<1>5. pending[t] # None => Top(t).act = "proxy" /\ Top(t).handler = pending[t]
  BY DEF Inv, PendingIsOwn, At
<1> QED
  BY <1>1, <1>2, <1>3, <1>4, <1>5

LEMMA ShellInitInv ==
  ASSUME Inv, NEW t \in Threads, ShellInit(t)
  PROVE  Inv'
<1> DEFINE s == Top(t).shell
<1>1. /\ stack[t] # <<>> /\ Top(t) \in Frame /\ Top(t).pc = "init"
      /\ s \in Shells /\ Constructs(t) /\ shell[s] = "alone" /\ s # None
      /\ Top(t).act \in {"proxy", "new"}
      /\ Top(t).act = "new" => pending[t] = None
      /\ pending[t] # None => Top(t).act = "proxy" /\ Top(t).handler = pending[t]
  BY InitFindsItsOwn, InterfaceProxyAssumption
<1>2. /\ \A u \in Threads : u # t => pending'[u] = pending[u]
      /\ pending'[t] = None
      /\ pending' \in [Threads -> Handlers \cup {None}]
      /\ UNCHANGED <<java16, boot, shell, held, madeWith>>
  BY DEF ShellInit, Slot, Inv, Ranges
<1>3. CASE pending[t] # None /\ bound' = [bound EXCEPT ![s] = pending[t]]
           /\ Constructed(t, TRUE)
  <2>1. PICK f : f = [Top(t) EXCEPT !.pc = "clear", !.shell = s]
    OBVIOUS
  <2>2. f \in Frame /\ f.act = "proxy" /\ f.pc = "clear" /\ f.shell = s
        /\ f.handler = Top(t).handler
    BY <1>1, <1>3, <2>1 DEF Frame
  <2>3. Become(t, f)
    BY <1>1, <1>3, <2>1 DEF Constructed
  <2>4. OnlyShell(s) /\ shell'[s] = "alone" /\ bound'[s] = f.handler
    BY <1>1, <1>2, <1>3, <2>2 DEF OnlyShell, Inv, Ranges
  <2>5. Ranges'
    BY <1>1, <1>2, <1>3 DEF Inv, Ranges
  <2>6. MakingOK(f)' /\ CallOK(f)'
    BY <2>2, <2>4 DEF MakingOK, CallOK
  <2> HIDE DEF s
  <2>7. shell'[s] # "proxied" /\ Top(t).shell = s
    BY <2>4 DEF s
  <2> QED
    BY <1>1, <1>2, <2>2, <2>3, <2>4, <2>5, <2>6, <2>7, BecomeInv
<1>4. CASE Constructed(t, FALSE) /\ UNCHANGED bound
  <2>1. OnlyShell(None) /\ Ranges'
    BY <1>2, <1>4 DEF OnlyShell, Inv, Ranges
  <2>2. CASE Top(t).act = "new"
    <3>1. Pop(t)
      BY <1>4, <2>2 DEF Constructed
    <3> QED
      BY <1>1, <1>2, <2>1, <3>1, PopInv
  <2>3. CASE Top(t).act = "proxy"
    <3>1. PICK f : f = [Top(t) EXCEPT !.pc = "clear", !.shell = None]
      OBVIOUS
    <3>2. f \in Frame /\ f.act = "proxy" /\ f.pc = "clear" /\ f.shell = None
      BY <1>1, <2>3, <3>1 DEF Frame
    <3>3. Become(t, f)
      BY <1>4, <2>3, <3>1 DEF Constructed
    <3>4. MakingOK(f)' /\ CallOK(f)'
      BY <3>2 DEF MakingOK, CallOK
    <3> QED
      BY <1>1, <1>2, <2>1, <3>2, <3>3, <3>4, BecomeInv
  <2> QED
    BY <1>1, <2>2, <2>3
<1> QED
  BY <1>3, <1>4 DEF ShellInit, Slot

LEMMA ClearInv ==
  ASSUME Inv, NEW t \in Threads, Clear(t)
  PROVE  Inv'
<1>1. stack[t] # <<>> /\ Top(t).act = "proxy" /\ Top(t).pc = "clear" /\ Top(t) \in Frame
      /\ MakingOK(Top(t))
  BY TopOK DEF Clear, At
<1>2. /\ \A u \in Threads : u # t => pending'[u] = pending[u]
      /\ pending'[t] = None
      /\ OnlyShell(None) /\ Ranges'
  BY DEF Clear, Slot, OnlyShell, Inv, Ranges
<1>3. CASE Top(t).shell = None /\ Pop(t)
  BY <1>1, <1>2, <1>3, PopInv
<1>4. CASE Top(t).shell # None /\ Go(t, "link")
  <2>1. PICK f : f = [Top(t) EXCEPT !.pc = "link"]
    OBVIOUS
  <2>2. f \in Frame /\ f.act = "proxy" /\ f.pc = "link" /\ f.shell = Top(t).shell
        /\ f.handler = Top(t).handler /\ Become(t, f)
    BY <1>1, <1>4, <2>1 DEF Frame, Go
  <2>3. shell[f.shell] = "alone" /\ bound[f.shell] = f.handler /\ Constructs(t)
    BY <1>1, <1>4, <2>2 DEF MakingOK, Constructs
  <2>4. MakingOK(f)' /\ CallOK(f)'
    BY <2>2, <2>3 DEF Clear, MakingOK, CallOK
  <2> QED
    BY <1>1, <1>2, <2>2, <2>3, <2>4, BecomeInv
<1> QED
  BY <1>3, <1>4 DEF Clear

LEMMA LinkInv ==
  ASSUME Inv, NEW t \in Threads, Link(t)
  PROVE  Inv'
<1>1. /\ stack[t] # <<>> /\ Top(t).act = "proxy" /\ Top(t).pc = "link"
      /\ Top(t) \in Frame /\ MakingOK(Top(t))
      /\ Pop(t) /\ pending' = pending /\ pending[t] = None
  BY TopOK, SlotIsEmpty DEF Link, At
<1>2. PICK s \in Shells : s = Top(t).shell
  BY <1>1 DEF Frame
<1>3. Constructs(t) /\ shell[s] = "alone" /\ bound[s] = Top(t).handler
      /\ Top(t).handler \in Handlers /\ Top(t).handler # None
  BY <1>1, <1>2, InterfaceProxyAssumption DEF Constructs, MakingOK, Frame
<1>4. CASE /\ shell' = [shell EXCEPT ![s] = "proxied"]
           /\ held' = held \cup {s}
           /\ madeWith' = [madeWith EXCEPT ![s] = Top(t).handler]
  <2>1. OnlyShell(s) /\ bound'[s] = madeWith'[s] /\ madeWith'[s] # None
    BY <1>3, <1>4 DEF Link, OnlyShell, Inv, Ranges
  <2>2. Ranges'
    BY <1>3, <1>4 DEF Link, Inv, Ranges
  <2> QED
    BY <1>1, <1>2, <1>3, <2>1, <2>2, PopInv
<1>5. CASE UNCHANGED <<shell, held, madeWith>>
  BY <1>1, <1>5, Returns DEF Link, others
<1> QED
  BY <1>2, <1>4, <1>5 DEF Link

\* A call goes on, with what its new stage promises.
LEMMA CallGoesOn ==
  ASSUME Inv, NEW t \in Threads, stack[t] # <<>>, Top(t).act = "call",
         UNCHANGED others,
         NEW f \in Frame, Become(t, f), f.act = "call", CallOK(f)
  PROVE  Inv'
<1>1. pending[t] = None
  BY SlotIsEmpty DEF At
<1>2. MakingOK(f)
  BY DEF MakingOK
<1> QED
  BY <1>1, <1>2, GoesOn

LEMMA GetHandlerInv ==
  ASSUME Inv, NEW t \in Threads, GetHandler(t)
  PROVE  Inv'
<1>1. /\ stack[t] # <<>> /\ Top(t).act = "call" /\ Top(t).pc = "get" /\ Top(t) \in Frame
      /\ CallOK(Top(t)) /\ UNCHANGED others /\ pending[t] = None
  BY TopOK, SlotIsEmpty DEF GetHandler, At, others
<1>2. CASE Pop(t)
  BY <1>1, <1>2, Returns
<1>3. CASE /\ bound[Top(t).shell] # None
           /\ Become(t, [Top(t) EXCEPT !.pc = "route", !.handler = bound[Top(t).shell]])
  <2>1. Top(t).shell \in Shells /\ bound[Top(t).shell] \in Handlers
        /\ bound[Top(t).shell] = madeWith[Top(t).shell]
    BY <1>1, <1>3 DEF Frame, Inv, Ranges, ProxiesOK, CallOK
  <2>2. PICK f : f = [Top(t) EXCEPT !.pc = "route", !.handler = bound[Top(t).shell]]
    OBVIOUS
  <2>3. f \in Frame /\ f.act = "call" /\ f.pc = "route" /\ f.shell = Top(t).shell
        /\ f.handler = bound[Top(t).shell] /\ f.ran = Top(t).ran /\ Become(t, f)
    BY <1>1, <1>3, <2>1, <2>2 DEF Frame
  <2>4. CallOK(f)
    BY <1>1, <1>3, <2>1, <2>3 DEF CallOK
  <2> QED
    BY <1>1, <2>3, <2>4, CallGoesOn
<1> QED
  BY <1>2, <1>3 DEF GetHandler

\* A call that goes to another stage with the handler and method it has.
LEMMA CallStageInv ==
  ASSUME Inv, NEW t \in Threads, stack[t] # <<>>, Top(t).act = "call",
         Top(t).pc # "get", UNCHANGED others,
         NEW pc \in {"locate", "default", "arguments", "handler"}, Go(t, pc),
         ~Intercepts(Top(t).method),
         pc \in {"locate", "default"} => Top(t).method.default,
         pc \in {"arguments", "handler"} => ~(Top(t).method.default /\ java16),
         pc = "handler" => Top(t).handler \notin DOMAIN Declares,
         Top(t).ran = None
  PROVE  Inv'
<1>1. Top(t) \in Frame /\ CallOK(Top(t))
  BY TopOK
<1>2. PICK f : f = [Top(t) EXCEPT !.pc = pc]
  OBVIOUS
<1>3. f \in Frame /\ f.act = "call" /\ f.pc = pc /\ f.shell = Top(t).shell
      /\ f.handler = Top(t).handler /\ f.ran = Top(t).ran /\ f.method = Top(t).method
      /\ Become(t, f)
  BY <1>1, <1>2 DEF Frame, Go
<1>4. CallOK(f)
  BY <1>1, <1>3 DEF CallOK
<1> QED
  BY <1>3, <1>4, CallGoesOn

LEMMA RouteInv ==
  ASSUME Inv, NEW t \in Threads, Route(t) \/ InvokeDefault(t)
  PROVE  Inv'
<1>1. /\ stack[t] # <<>> /\ Top(t).act = "call" /\ Top(t).pc \in {"route", "locate"}
      /\ CallOK(Top(t)) /\ UNCHANGED others /\ pending[t] = None
  BY TopOK, SlotIsEmpty DEF Route, InvokeDefault, At, others
<1>2. CASE Pop(t)
  BY <1>1, <1>2, Returns
<1>3. CASE /\ Route(t) /\ ~Intercepts(Top(t).method)
           /\ IF Top(t).method.default THEN Go(t, "locate") ELSE Go(t, "arguments")
  <2>1. Top(t).ran = None
    BY <1>1 DEF CallOK
  <2> QED
    BY <1>1, <1>3, <2>1, CallStageInv
<1>4. CASE InvokeDefault(t)
  <2>1. Top(t).pc = "locate" /\ (IF java16 THEN Go(t, "default") ELSE Go(t, "arguments"))
    BY <1>4 DEF InvokeDefault, At
  <2>2. ~Intercepts(Top(t).method) /\ Top(t).method.default /\ Top(t).ran = None
    BY <1>1, <2>1 DEF CallOK
  <2> QED
    BY <1>1, <2>1, <2>2, CallStageInv
<1> QED
  BY <1>2, <1>3, <1>4 DEF Route

\* "no widening", and a JObject stands for any object: what the generated
\* dispatch takes for a match can receive what arrives.
LEMMA MatchIsReceived ==
  ASSUME NEW h \in DOMAIN Declares, NEW m, NEW i \in Arms(h, m)
  PROVE  Suits(Declares[h][i], m)
<1>1. Declares[h][i].name = m.name /\ ParamMatches(Declares[h][i].params, m.params)
  BY DEF Arms
<1>2. ASSUME NEW k \in DOMAIN Declares[h][i].params
      PROVE  Receives(Declares[h][i].params[k], m.params[k])
  BY <1>1, <1>2, InterfaceProxyAssumption DEF ParamMatches, Receives
<1> QED
  BY <1>1, <1>2 DEF Suits, ParamMatches

LEMMA DispatchInv ==
  ASSUME Inv, NEW t \in Threads, Dispatch(t)
  PROVE  Inv'
<1>1. /\ stack[t] # <<>> /\ Top(t).act = "call" /\ Top(t).pc = "arguments"
      /\ Top(t) \in Frame /\ CallOK(Top(t)) /\ UNCHANGED others /\ pending[t] = None
  BY TopOK, SlotIsEmpty DEF Dispatch, At, others
<1>2. CASE Pop(t)
  BY <1>1, <1>2, Returns
<1>3. CASE Top(t).handler \notin DOMAIN Declares /\ Go(t, "handler")
  <2>1. ~Intercepts(Top(t).method) /\ ~(Top(t).method.default /\ java16)
    BY <1>1 DEF CallOK
  <2>2. Top(t).ran = None
    BY <1>1 DEF CallOK
  <2> QED
    BY <1>1, <1>3, <2>1, <2>2, CallStageInv
<1>4. ASSUME Top(t).handler \in DOMAIN Declares,
             NEW i \in Arms(Top(t).handler, Top(t).method),
             Become(t, [Top(t) EXCEPT !.pc = "handler", !.ran = Declares[Top(t).handler][i]])
      PROVE  Inv'
  <2>1. PICK d : d = Declares[Top(t).handler][i]
    OBVIOUS
  <2>2. i \in DOMAIN Declares[Top(t).handler] /\ Suits(d, Top(t).method)
    BY <1>4, <2>1, MatchIsReceived DEF Arms
  <2>3. d \in Declared /\ d # None
    BY <1>4, <2>1, <2>2, DeclaresAssumption DEF Declared
  <2>4. PICK f : f = [Top(t) EXCEPT !.pc = "handler", !.ran = d]
    OBVIOUS
  <2>5. f \in Frame /\ f.act = "call" /\ f.pc = "handler" /\ f.shell = Top(t).shell
        /\ f.handler = Top(t).handler /\ f.ran = d /\ f.method = Top(t).method
        /\ Become(t, f)
    BY <1>1, <1>4, <2>1, <2>3, <2>4 DEF Frame
  <2>6. CallOK(f)
    BY <1>1, <1>4, <2>2, <2>3, <2>5 DEF CallOK
  <2> QED
    BY <1>1, <2>5, <2>6, CallGoesOn
<1> QED
  BY <1>2, <1>3, <1>4 DEF Dispatch

LEMMA CallEndsInv ==
  ASSUME Inv, NEW t \in Threads, CallFails(t) \/ CallReturns(t)
  PROVE  Inv'
<1>1. stack[t] # <<>> /\ Pop(t) /\ UNCHANGED others /\ pending[t] = None
  BY SlotIsEmpty DEF CallFails, CallReturns, At, others
<1> QED
  BY <1>1, Returns

\* The collector takes and the registry forgets shells that nobody works on.
LEMMA ShellsInv ==
  ASSUME Inv, (\E s \in Shells : Release(s) \/ Collect(s)) \/ Drain
  PROVE  Inv'
<1>1. /\ stack' = stack /\ pending' = pending
      /\ java16' = java16 /\ madeWith' = madeWith /\ Ranges'
  BY DEF Release, Collect, Drain, Inv, Ranges, InUse
<1>2. \A s \in Shells : shell[s] = "alone" /\ InUse(s) =>
        shell'[s] = "alone" /\ bound'[s] = bound[s]
  BY DEF Release, Collect, Drain, Dead, Inv, Ranges
<1>3. \A s \in Shells : shell[s] = "proxied" /\ InUse(s) => shell'[s] = "proxied"
  BY DEF Release, Collect, Drain, Inv, Ranges
<1>4. \A s \in Shells : shell'[s] = "proxied" => shell[s] = "proxied" /\ bound'[s] = bound[s]
  BY DEF Release, Collect, Drain, Dead, Inv, Ranges
<1>5. ASSUME NEW t \in Threads, NEW i \in 1..Len(stack[t]), NEW g \in Frame,
             g = stack[t][i]
      PROVE  MakingOK(g)' /\ CallOK(g)'
  <2>1. MakingOK(g) /\ CallOK(g) /\ (g.shell \in Shells => InUse(g.shell))
    BY <1>5 DEF Inv, FramesOK, InUse
  <2>2. (g.act = "call" \/ g.shell # None) => g.shell \in Shells
    BY DEF Frame
  <2> QED
    BY <1>1, <1>2, <1>3, <2>1, <2>2 DEF MakingOK, CallOK
<1>6. FramesOK'
  <2>1. \A t \in Threads : \A i \in 1..Len(stack[t]) : stack[t][i] \in Frame
    BY ElementOfSeq DEF Inv, StackType
  <2> QED
    BY <1>1, <1>5, <2>1 DEF FramesOK, MakingOK, CallOK
<1>7. BelowRuns' /\ OneConstructor' /\ PendingIsOwn' /\ StackType'
  BY <1>1 DEF Inv, BelowRuns, OneConstructor, Constructs, Top, PendingIsOwn, At, StackType
<1>8. ProxiesOK'
  BY <1>1, <1>4 DEF Inv, ProxiesOK
<1> QED
  BY <1>1, <1>6, <1>7, <1>8 DEF Inv

LEMMA InvInit == Init => Inv
<1> SUFFICES ASSUME Init PROVE Inv
  OBVIOUS
<1>1. Ranges /\ StackType
  BY EmptySeq DEF Init, Ranges, StackType
<1>2. \A t \in Threads : stack[t] = <<>> /\ Len(stack[t]) = 0
  BY DEF Init
<1> QED
  BY <1>1, <1>2 DEF Init, Inv, BelowRuns, OneConstructor, Constructs, FramesOK, ProxiesOK,
     PendingIsOwn

LEMMA InvStep == Inv /\ [Next]_vars => Inv'
<1> SUFFICES ASSUME Inv, [Next]_vars PROVE Inv'
  OBVIOUS
<1>1. CASE UNCHANGED vars
  BY <1>1 DEF vars, Inv, Ranges, StackType, BelowRuns, OneConstructor, Constructs, FramesOK,
     MakingOK, CallOK, ProxiesOK, PendingIsOwn, At, Top
<1> QED
  BY <1>1, StartsInv, BootstrapInv, ArmInv, ConstructInv, ClearInv, LinkInv, ShellInitInv,
     GetHandlerInv, RouteInv, DispatchInv, CallEndsInv, ShellsInv DEF Next, MakeProxy

LEMMA InvHolds == Spec => []Inv
BY InvInit, InvStep, PTL DEF Spec

-----------------------------------------------------------------------------
(***************************************************************************)
(* What follows.                                                           *)
(***************************************************************************)

\* Ranges; and no shell that an operation works on or that somebody has a proxy
\* of is collected.
THEOREM ProxyTypeCorrect == Spec => []TypeOK
<1>1. Inv => TypeOK
  <2> SUFFICES ASSUME Inv PROVE TypeOK
    OBVIOUS
  <2>1. ASSUME NEW s \in Shells, InUse(s) PROVE shell[s] \in {"alone", "proxied"}
    BY <2>1, InterfaceProxyAssumption DEF Inv, Ranges, FramesOK, MakingOK, CallOK, InUse
  <2> QED
    BY <2>1 DEF Inv, Ranges, StackType, TypeOK
<1> QED
  BY <1>1, InvHolds, PTL

\* "the handler must not leak into the next construction on this thread".
THEOREM SlotIsItsOwn == Spec => []PendingIsOwn
<1>1. Inv => PendingIsOwn
  BY DEF Inv
<1> QED
  BY <1>1, InvHolds, PTL

\* A proxy has, and its calls run, the handler it was requested with, whatever
\* other threads, nested proxies and constructions by Java code do meanwhile.
THEOREM ProxyHasItsHandler == Spec => []HandlerIsItsOwn
<1>1. Inv => HandlerIsItsOwn
  BY DEF Inv, ProxiesOK, FramesOK, CallOK, HandlerIsItsOwn
<1> QED
  BY <1>1, InvHolds, PTL

\* shell_invoke and the generated dispatch: what runs is the default method that
\* was called where the JVM can run it, else the handler, on a method of the
\* name called that can receive the arguments.
THEOREM CalledMethodRuns == Spec => []RunsWhatWasCalled
<1>1. Inv => RunsWhatWasCalled
  <2> SUFFICES ASSUME Inv, NEW t \in Threads, NEW i \in 1..Len(stack[t]),
                      stack[t][i].act = "call"
               PROVE  RunsWhatWasCalled!(t)!(i)
    BY DEF RunsWhatWasCalled
  <2>1. CallOK(stack[t][i])
    BY DEF Inv, FramesOK
  <2> QED
    BY <2>1 DEF CallOK, Suits, Intercepts
<1> QED
  BY <1>1, InvHolds, PTL

\* "constructing one of these shells any other way fails": only a proxy() gives
\* a shell a handler, and its own.
THEOREM ConstructionBindsItsHandler == Spec => OnlyProxyBinds
<1>1. ASSUME Inv, [Next]_vars, NEW s \in Shells, bound'[s] # bound[s], bound'[s] # None
      PROVE  \E t \in Threads :
               At(t, "proxy", "init") /\ Top(t).shell = s /\ Top(t).handler = bound'[s]
  <2>1. PICK t \in Threads : ShellInit(t)
    BY <1>1 DEF Next, vars, MakeProxy, StartProxy, StartCall, JavaConstructs, StartBootstrap,
       EndBootstrap, UseBootstrap, Arm, Construct, Clear, Link, GetHandler, Route,
       InvokeDefault, Dispatch, CallFails, CallReturns, Release, Collect, Drain, Inv, Ranges
  <2>2. pending[t] # None /\ bound' = [bound EXCEPT ![Top(t).shell] = pending[t]]
    BY <1>1, <2>1 DEF ShellInit, Slot
  <2>3. Top(t).shell = s /\ bound'[s] = pending[t]
    BY <1>1, <2>2 DEF Inv, Ranges
  <2>4. At(t, "proxy", "init") /\ Top(t).handler = pending[t]
    BY <1>1, <2>1, <2>2, InitFindsItsOwn DEF At
  <2> QED
    BY <2>3, <2>4
<1>2. Inv /\ [Next]_vars =>
        [\A s \in Shells :
           (bound'[s] # bound[s] /\ bound'[s] # None) =>
             \E t \in Threads :
               At(t, "proxy", "init") /\ Top(t).shell = s /\ Top(t).handler = bound'[s]]_vars
  BY <1>1
<1> QED
  BY <1>2, InvHolds, PTL DEF Spec, OnlyProxyBinds

-----------------------------------------------------------------------------
(***************************************************************************)
(* The handlers of the shells are state attached to objects: the module    *)
(* that userdata is proved to implement describes what this one does.      *)
(***************************************************************************)

\* History: the last look-up, and what shell_invoke was given.
VARIABLE looked

\* What the call that t is in goes on with; without a handler it returns.
Given(t) == IF Len(stack[t])' = Len(stack[t]) THEN Top(t)'.handler ELSE None

LookUpStep(t) ==
  GetHandler(t) /\ looked' = [obj |-> Top(t).shell, is |-> Given(t)]

ObservedInit == Init /\ looked = None
ObservedNext == (\E t \in Threads : LookUpStep(t)) \/ (Next /\ UNCHANGED looked)
ObservedSpec == ObservedInit /\ [][ObservedNext]_<<vars, looked>>

\* The handler goes with its shell, whenever it is drained.
HandlerOf(s) == IF Dead(s) THEN None ELSE bound[s]

Attached ==
  INSTANCE ObjectState WITH
    Objects <- Shells, States <- Handlers, NoState <- None, NoAnswer <- None,
    attached <- [s \in Shells |-> HandlerOf(s)], answer <- looked

HandlersAreObjectState == Attached!Spec

LEMMA AttachedInit == ObservedInit => Attached!Init
BY DEF ObservedInit, Init, Attached!Init, HandlerOf, Dead

\* A shell that grows up keeps what it has, and so does a drain.
LEMMA HandlersStay ==
  ASSUME Inv,
         \/ UNCHANGED <<shell, bound>>
         \/ /\ UNCHANGED bound
            /\ \E s \in Shells, life \in {"alone", "proxied"} :
                 shell[s] \in {"unborn", "alone"} /\ shell' = [shell EXCEPT ![s] = life]
         \/ Drain
  PROVE  \A s \in Shells : HandlerOf(s)' = HandlerOf(s)
BY DEF HandlerOf, Dead, Drain, Inv, Ranges

\* What shell_invoke is given is the handler of a shell that is alive.
LEMMA GivenIsAttached ==
  ASSUME Inv, NEW t \in Threads, GetHandler(t)
  PROVE  /\ Top(t).shell \in Shells
         /\ Given(t) = HandlerOf(Top(t).shell)
         /\ UNCHANGED <<shell, bound>>
<1> DEFINE s == Top(t).shell
<1>1. /\ stack[t] # <<>> /\ Top(t) \in Frame /\ CallOK(Top(t))
      /\ Top(t).act = "call" /\ Top(t).pc = "get"
      /\ UNCHANGED <<shell, bound>>
  BY TopOK DEF GetHandler, At
<1>2. s \in Shells /\ HandlerOf(s) = bound[s] /\ bound[s] \in Handlers \cup {None}
  BY <1>1 DEF Frame, CallOK, HandlerOf, Dead, Inv, Ranges
<1>3. StackType /\ Len(stack[t]) \in Nat
  BY LenProperties DEF Inv, StackType
<1>4. ASSUME bound[s] # None, Become(t, [Top(t) EXCEPT !.pc = "route", !.handler = bound[s]])
      PROVE  Given(t) = bound[s]
  <2>1. PICK f : f = [Top(t) EXCEPT !.pc = "route", !.handler = bound[s]]
    OBVIOUS
  <2>2. f \in Frame /\ f.handler = bound[s]
    BY <1>1, <1>2, <1>4, <2>1 DEF Frame
  <2>3. Become(t, f)
    BY <1>4, <2>1
  <2>4. Len(stack'[t]) = Len(stack[t]) /\ stack'[t][Len(stack'[t])] = f
    BY <1>1, <1>3, <2>2, <2>3, BecomeFacts
  <2> QED
    BY <2>2, <2>4 DEF Given, Top
<1>5. ASSUME bound[s] = None, Pop(t)
      PROVE  Given(t) = bound[s]
  <2>1. Len(stack'[t]) = Len(stack[t]) - 1
    BY <1>1, <1>3, <1>5, PopFacts
  <2> QED
    BY <1>3, <1>5, <2>1 DEF Given
<1> QED
  BY <1>1, <1>2, <1>4, <1>5 DEF GetHandler

\* Every step of the state of one shell is one of the abstract specification.
LEMMA AttachedStep ==
  ASSUME Inv, [ObservedNext]_<<vars, looked>>
  PROVE  [Attached!Next]_(Attached!vars)
<1> USE DEF Attached!vars
<1> DEFINE now == [s \in Shells |-> HandlerOf(s)]
<1>1. ASSUME \A s \in Shells : HandlerOf(s)' = HandlerOf(s), UNCHANGED looked
      PROVE  UNCHANGED <<now, looked>>
  BY <1>1
<1>2. CASE UNCHANGED <<vars, looked>>
  BY <1>1, <1>2, HandlersStay DEF vars
<1>3. ASSUME NEW t \in Threads, LookUpStep(t)
      PROVE  Attached!Next
  <2>1. PICK s \in Shells : s = Top(t).shell /\ Given(t) = HandlerOf(s) /\ UNCHANGED <<shell, bound>>
    BY <1>3, GivenIsAttached DEF LookUpStep
  <2>2. UNCHANGED now
    BY <2>1, HandlersStay
  <2>3. looked' = [obj |-> s, is |-> now[s]]
    BY <1>3, <2>1 DEF LookUpStep
  <2> QED
    BY <2>2, <2>3 DEF Attached!Next, Attached!LookUp
<1>4. ASSUME NEW t \in Threads, ShellInit(t), UNCHANGED looked
      PROVE  Attached!Next \/ UNCHANGED <<now, looked>>
  <2>1. PICK s \in Shells : s = Top(t).shell /\ shell[s] = "alone"
    BY <1>4, InitFindsItsOwn
  <2>2. UNCHANGED shell
    BY <1>4 DEF ShellInit
  <2>3. CASE UNCHANGED bound
    BY <1>1, <1>4, <2>2, <2>3, HandlersStay
  <2>4. CASE pending[t] # None /\ bound' = [bound EXCEPT ![s] = pending[t]]
    <3>1. pending[t] \in Handlers
      BY <2>4 DEF Inv, Ranges
    <3>2. now' = [now EXCEPT ![s] = pending[t]]
      BY <2>1, <2>2, <2>4 DEF HandlerOf, Dead, Inv, Ranges
    <3> QED
      BY <1>4, <3>1, <3>2 DEF Attached!Next, Attached!Attach
  <2> QED
    BY <1>4, <2>1, <2>3, <2>4 DEF ShellInit, Slot
<1>5. ASSUME NEW s \in Shells, Collect(s), UNCHANGED looked
      PROVE  Attached!Next
  <2>1. UNCHANGED bound /\ shell' = [shell EXCEPT ![s] = "collected"]
    BY <1>5 DEF Collect
  <2>2. now' = [now EXCEPT ![s] = None]
    BY <2>1 DEF HandlerOf, Dead, Inv, Ranges
  <2> QED
    BY <1>5, <2>2 DEF Attached!Next, Attached!Detach
<1>6. ASSUME Next, UNCHANGED looked,
             ~\E t \in Threads : ShellInit(t), ~\E s \in Shells : Collect(s)
      PROVE  UNCHANGED <<now, looked>>
  <2>1. ASSUME NEW t \in Threads, Link(t)
        PROVE  UNCHANGED bound /\ (\/ UNCHANGED shell
                                   \/ \E s \in Shells : shell[s] = "alone"
                                        /\ shell' = [shell EXCEPT ![s] = "proxied"])
    <3>1. stack[t] # <<>> /\ Top(t) \in Frame /\ MakingOK(Top(t))
          /\ Top(t).act = "proxy" /\ Top(t).pc = "link"
      BY <2>1, TopOK DEF Link, At
    <3>2. Top(t).shell \in Shells /\ shell[Top(t).shell] = "alone"
      BY <3>1, InterfaceProxyAssumption DEF Frame, MakingOK
    <3> QED
      BY <2>1, <3>2 DEF Link
  <2>2. ASSUME NEW t \in Threads, Construct(t) \/ \E s \in Shells : JavaConstructs(t, s)
        PROVE  UNCHANGED bound /\ (\/ UNCHANGED shell
                                   \/ \E s \in Shells : shell[s] = "unborn"
                                        /\ shell' = [shell EXCEPT ![s] = "alone"])
    BY <2>2, Zenon DEF Construct, JavaConstructs
  <2>3. ASSUME NEW t \in Threads,
               \/ \E h \in Handlers : StartProxy(t, h)
               \/ \E s \in Shells, m \in Methods : StartCall(t, s, m)
               \/ StartBootstrap(t) \/ EndBootstrap(t) \/ UseBootstrap(t) \/ Arm(t) \/ Clear(t)
               \/ GetHandler(t) \/ Route(t) \/ InvokeDefault(t) \/ Dispatch(t)
               \/ CallFails(t) \/ CallReturns(t)
        PROVE  UNCHANGED <<shell, bound>>
    BY <2>3, Zenon DEF StartProxy, StartCall, StartBootstrap, EndBootstrap, UseBootstrap, Arm,
       Clear, GetHandler, Route, InvokeDefault, Dispatch, CallFails, CallReturns
  <2>4. ASSUME NEW s \in Shells, Release(s)
        PROVE  UNCHANGED <<shell, bound>>
    BY <2>4 DEF Release
  <2>5. \/ UNCHANGED <<shell, bound>>
        \/ /\ UNCHANGED bound
           /\ \E s \in Shells, life \in {"alone", "proxied"} :
                shell[s] \in {"unborn", "alone"} /\ shell' = [shell EXCEPT ![s] = life]
        \/ Drain
    <3>1. CASE \E t \in Threads : Link(t)
      BY <2>1, <3>1
    <3>2. CASE \E t \in Threads : Construct(t) \/ \E s \in Shells : JavaConstructs(t, s)
      BY <2>2, <3>2
    <3> QED
      BY <1>6, <2>3, <2>4, <3>1, <3>2 DEF Next, MakeProxy
  <2> QED
    BY <1>1, <1>6, <2>5, HandlersStay
<1> QED
  BY <1>2, <1>3, <1>4, <1>5, <1>6 DEF ObservedNext

\* Nothing but its construction gives a shell a handler, and nothing but its
\* end takes it away, whatever proxies are made, called, collected and drained
\* meanwhile; every call is given the handler attached at that instant.  It is
\* the specification that the registry of userdata implements.
THEOREM HandlersAreAttached == ObservedSpec => HandlersAreObjectState
<1>1. ObservedInit => Init
  BY DEF ObservedInit
<1>2. [ObservedNext]_<<vars, looked>> => [Next]_vars
  BY DEF ObservedNext, LookUpStep, Next, vars
<1>3. ObservedSpec => Spec
  BY <1>1, <1>2, PTL DEF ObservedSpec, Spec
<1> QED
  BY <1>3, AttachedInit, AttachedStep, InvHolds, PTL
  DEF ObservedSpec, HandlersAreObjectState, Attached!Spec
=============================================================================
