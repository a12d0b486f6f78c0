------------------------- MODULE DynamicCall_proofs -------------------------
(***************************************************************************)
(* For every class hierarchy, set of members, order of reflection, set of  *)
(* accesses and depth of nesting: an access is type correct, never leaves  *)
(* an exception pending, and ends as the Java code it ran did.             *)
(***************************************************************************)
EXTENDS DynamicCall, SequenceTheorems, TLAPS

\* A frame below the top waits for an access made by Rust code.
Below == \A i \in 1..Len(stack) - 1 : stack[i].pc \in {"native", "convert", "value"}

\* The histories of an access agree with how far it got.
FrameInv(f) ==
  /\ f.runs <= 1
  /\ f.pc \in {"convert", "lookup", "resolve", "getter", "isGetter"} => f.runs = 0
  /\ f.req.op # "bool" => f.req \in Requests
  /\ f.pc \in {"getter", "isGetter"} => f.req.op = "bool"
  /\ f.pc = "resolve" => f.req.op # "bool"
  /\ f.pc \in {"java", "native"} =>
       /\ f.method \in Members
       /\ f.req.op # "bool" => Asked(f.method, f.req, f.args)
  /\ f.pc \notin {"check", "fail"} => f.threw = None
  /\ f.pc = "fail" /\ f.threw # None =>
       f.err.kind = "exception" /\ f.err.class = f.threw

\* What f was asked for and what it invoked are those of g.
Kept(f, g) ==
  /\ f.req = g.req /\ f.method = g.method /\ f.args = g.args /\ f.runs = g.runs

Frames == \A i \in 1..Len(stack) : FrameInv(stack[i])

\* Where an exception p may be pending, given that f is on top, and where it
\* may be one that a to_java left.
PendingFits(f, p, l) ==
  /\ l \in {None, p}
  /\ p # l => f.pc \in {"java", "check", "finish"}
  /\ l # None => f.pc \in {"convert", "lookup", "check", "native", "value",
                          "finish", "fail"}
  /\ f.pc = "check" /\ f.threw # None => p = f.threw

PendingOK ==
  /\ stack = <<>> => left = pending
  /\ stack # <<>> => PendingFits(Top, pending, left)

IInv == TypeOK /\ Below /\ Frames /\ PendingOK

-----------------------------------------------------------------------------
(***************************************************************************)
(* The stack.                                                              *)
(***************************************************************************)

\* The top of a sequence is replaced, the rest stays.
LEMMA ReplaceTop ==
  ASSUME NEW S, NEW s \in Seq(S), s # <<>>, NEW f \in S,
         NEW t, t = [s EXCEPT ![Len(s)] = f]
  PROVE  /\ t \in Seq(S)
         /\ Len(t) = Len(s) /\ Len(s) \in Nat \ {0}
         /\ t # <<>>
         /\ t[Len(t)] = f
         /\ \A i \in 1..Len(s) - 1 : t[i] = s[i]
<1>1. /\ Len(s) \in Nat \ {0}
      /\ DOMAIN s = 1..Len(s)
  OBVIOUS
<1>2. /\ t \in Seq(S)
      /\ Len(t) = Len(s)
  BY <1>1
<1>3. t[Len(s)] = f
  <2>1. Len(s) \in DOMAIN s
    BY <1>1
  <2> QED
    BY <2>1
<1>4. ASSUME NEW i \in 1..Len(s) - 1
      PROVE  t[i] = s[i]
  <2>1. i \in 1..Len(s) /\ i # Len(s)
    OBVIOUS
  <2> QED
    BY <2>1
<1> QED
  BY <1>1, <1>2, <1>3, <1>4

\* A frame is put on top.
LEMMA PushTop ==
  ASSUME NEW S, NEW s \in Seq(S), NEW f \in S, NEW t, t = Append(s, f)
  PROVE  /\ t \in Seq(S)
         /\ Len(t) = Len(s) + 1 /\ Len(s) \in Nat
         /\ t # <<>>
         /\ t[Len(t)] = f
         /\ \A i \in 1..Len(s) : t[i] = s[i]
  OBVIOUS

\* The top is taken off.
LEMMA PopTop ==
  ASSUME NEW S, NEW s \in Seq(S), s # <<>>, NEW t, t = SubSeq(s, 1, Len(s) - 1)
  PROVE  /\ t \in Seq(S)
         /\ Len(t) = Len(s) - 1 /\ Len(s) \in Nat \ {0}
         /\ \A i \in 1..Len(t) : t[i] = s[i]
<1>1. /\ Len(s) \in Nat \ {0}
      /\ \A i \in 1..Len(s) - 1 : s[i] \in S
  OBVIOUS
<1>2. PICK n \in Int : n = Len(s) - 1
  BY <1>1
<1>3. \A i \in 1..n : s[i] \in S
  BY <1>1, <1>2
<1>4. /\ SubSeq(s, 1, n) \in Seq(S)
      /\ Len(SubSeq(s, 1, n)) = IF 1 <= n THEN n - 1 + 1 ELSE 0
      /\ \A i \in 1..(n - 1 + 1) : SubSeq(s, 1, n)[i] = s[1 + i - 1]
  BY <1>3, SubSeqProperties
<1>5. t = SubSeq(s, 1, n)
  BY <1>2
<1>6. t \in Seq(S) /\ Len(t) = n
  BY <1>1, <1>2, <1>4, <1>5
<1>7. ASSUME NEW i \in 1..Len(t)
      PROVE  t[i] = s[i]
  <2>1. i \in 1..(n - 1 + 1) /\ 1 + i - 1 = i
    BY <1>6
  <2> QED
    BY <2>1, <1>4, <1>5
<1> QED
  BY <1>1, <1>2, <1>6, <1>7

\* The top of a non-empty stack is a frame.
LEMMA TopIsFrame ==
  ASSUME TypeOK, stack # <<>>
  PROVE  Top \in Frame /\ Len(stack) \in Nat \ {0} /\ Len(stack) \in 1..Len(stack)
<1>1. Len(stack) \in Nat \ {0} /\ Len(stack) \in 1..Len(stack)
  BY DEF TypeOK
<1> QED
  BY <1>1 DEF TypeOK, Top

\* A step that replaces the top by a frame whose histories agree, and that
\* leaves pending what fits it, preserves the invariant.
LEMMA BecomeInv ==
  ASSUME IInv, stack # <<>>, NEW f \in Frame, Become(f), FrameInv(f),
         order' = order, pending' \in Exceptions \cup {None},
         left' \in Exceptions \cup {None}, PendingFits(f, pending', left')
  PROVE  IInv'
<1>1. /\ stack' \in Seq(Frame) /\ Len(stack') = Len(stack)
      /\ Len(stack) \in Nat \ {0} /\ stack' # <<>>
      /\ stack'[Len(stack')] = f
      /\ \A i \in 1..Len(stack) - 1 : stack'[i] = stack[i]
  BY ReplaceTop DEF IInv, TypeOK, Become
<1>2. TypeOK'
  BY <1>1 DEF IInv, TypeOK
<1>3. Below'
  BY <1>1 DEF IInv, Below
<1>4. Frames'
  <2> SUFFICES ASSUME NEW i \in 1..Len(stack')
               PROVE  FrameInv(stack'[i])
    BY DEF Frames, FrameInv
  <2>1. CASE i = Len(stack')
    BY <2>1, <1>1
  <2>2. CASE i # Len(stack')
    <3>1. i \in 1..Len(stack) - 1 /\ i \in 1..Len(stack)
      BY <2>2, <1>1
    <3> QED
      BY <3>1, <1>1 DEF IInv, Frames
  <2> QED
    BY <2>1, <2>2
<1>5. PendingOK'
  BY <1>1 DEF PendingOK, PendingFits, Top
<1> QED
  BY <1>2, <1>3, <1>4, <1>5 DEF IInv

\* An access returns without an error.
LEMMA PopInv ==
  ASSUME IInv, stack # <<>>, Pop, order' = order, pending' = None, left' = None
  PROVE  IInv'
<1>1. /\ stack' \in Seq(Frame) /\ Len(stack') = Len(stack) - 1
      /\ Len(stack) \in Nat \ {0}
      /\ \A i \in 1..Len(stack') : stack'[i] = stack[i]
  BY PopTop DEF IInv, TypeOK, Pop
<1>2. TypeOK'
  BY <1>1 DEF IInv, TypeOK
<1>3. \A i \in 1..Len(stack') : stack'[i].pc \in {"native", "convert", "value"}
  BY <1>1 DEF IInv, Below
<1>4. Below'
  BY <1>1, <1>3 DEF Below
<1>5. Frames'
  BY <1>1 DEF IInv, Frames, FrameInv
<1>6. PendingOK'
  <2>1. stack' # <<>> => Len(stack') \in 1..Len(stack')
    BY <1>1
  <2> QED
    BY <2>1, <1>3 DEF PendingOK, PendingFits, Top
<1> QED
  BY <1>2, <1>4, <1>5, <1>6 DEF IInv

\* Rust code starts an access.
LEMMA PushInv ==
  ASSUME IInv, RustRuns, left = pending, NEW f \in Frame, Push(f), FrameInv(f),
         UNCHANGED <<order, pending, left>>, f.pc \in {"convert", "lookup"}
  PROVE  IInv'
<1>1. /\ stack' \in Seq(Frame) /\ Len(stack') = Len(stack) + 1
      /\ Len(stack) \in Nat /\ stack' # <<>>
      /\ stack'[Len(stack')] = f
      /\ \A i \in 1..Len(stack) : stack'[i] = stack[i]
  BY PushTop DEF IInv, TypeOK, Push
<1>2. TypeOK'
  BY <1>1 DEF IInv, TypeOK
<1>3. Below'
  <2>1. \A i \in 1..Len(stack) : stack[i].pc \in {"native", "convert", "value"}
    BY <1>1 DEF IInv, Below, RustRuns, At, Top
  <2> QED
    BY <1>1, <2>1 DEF Below
<1>4. Frames'
  <2> SUFFICES ASSUME NEW i \in 1..Len(stack')
               PROVE  FrameInv(stack'[i])
    BY DEF Frames, FrameInv
  <2>1. CASE i = Len(stack')
    BY <2>1, <1>1
  <2>2. CASE i # Len(stack')
    <3>1. i \in 1..Len(stack)
      BY <2>2, <1>1
    <3> QED
      BY <3>1, <1>1 DEF IInv, Frames
  <2> QED
    BY <2>1, <2>2
<1>5. PendingOK'
  BY <1>1 DEF PendingOK, PendingFits, Top
<1> QED
  BY <1>2, <1>3, <1>4, <1>5 DEF IInv

-----------------------------------------------------------------------------
(***************************************************************************)
(* What the steps put into a frame.                                        *)
(***************************************************************************)

ErrorSet == [kind : {"none", "exception", "jni", "noField", "unresolved",
                     "conversion"},
             class : Exceptions \cup {None}, context : BOOLEAN]

\* The errors that are made belong to the type.
LEMMA ErrorsAreTyped ==
  /\ NoError \in ErrorSet
  /\ \A k \in {"jni", "noField", "unresolved", "conversion"} : Error(k) \in ErrorSet
  /\ \A e \in Exceptions : JavaException(e) \in ErrorSet
  BY DEF NoError, Error, JavaException, ErrorSet

ReqSet == Requests \cup {[r EXCEPT !.form = "bound"] : r \in Requests}

\* A request keeps its arguments when it is made in the bound form.
LEMMA RequestsAreTyped ==
  ASSUME NEW r \in ReqSet
  PROVE  /\ r.args \in Seq(Types)
         /\ [r EXCEPT !.form = "bound"] \in ReqSet
         /\ [r EXCEPT !.form = "bound"].op = r.op
<1>1. CASE r \in Requests
  <2>1. r.args \in Seq(Types)
    BY <1>1, DynamicCallAssumption DEF Types
  <2> QED
    BY <1>1, <2>1 DEF ReqSet
<1>2. CASE r \notin Requests
  <2>1. PICK q \in Requests : r = [q EXCEPT !.form = "bound"]
    BY <1>2 DEF ReqSet
  <2>2. q.args \in Seq(Types) /\ "args" \in DOMAIN q
    BY DynamicCallAssumption DEF Types
  <2>3. r.args = q.args
    BY <2>1, <2>2
  <2>4. [r EXCEPT !.form = "bound"] = r
    BY <2>1
  <2> QED
    BY <1>2, <2>2, <2>3, <2>4
<1> QED
  BY <1>1, <1>2

\* What Java hands back belongs to the type.
LEMMA ReturnsAreTyped ==
  ASSUME NEW type \in Types
  PROVE  ReturnedBy(type) \subseteq Types
  BY DEF ReturnedBy, Types

\* The adjusted arguments are arguments.
LEMMA AdjustedIsTyped ==
  ASSUME NEW params \in Seq(Primitives \cup Classes), NEW args \in Seq(Types),
         Accepts(params, args)
  PROVE  Adjusted(params, args) \in Seq(Types)
<1>1. Len(params) = Len(args) /\ Len(args) \in Nat /\ DOMAIN args = 1..Len(args)
  BY DEF Accepts
<1>2. ASSUME NEW i \in 1..Len(args)
      PROVE  /\ args[i] \in Types /\ params[i] \in Types
             /\ args[i] \in Primitives => WrapperOf[args[i]] \in Types
  BY <1>1, DynamicCallAssumption DEF Types
<1>3. Adjusted(params, args) \in [1..Len(args) -> Types]
  BY <1>1, <1>2 DEF Adjusted, Boxes
<1> QED
  BY <1>1, <1>3

\* Members return, and fields have, known types.
LEMMA MembersAreTyped ==
  /\ \A m \in Members : m.ret \in Types /\ m.params \in Seq(Primitives \cup Classes)
  /\ \A f \in Fields : f.type \in Types
  BY DynamicCallAssumption DEF Types

-----------------------------------------------------------------------------
(***************************************************************************)
(* The steps.                                                              *)
(***************************************************************************)

LEMMA InitInv == ASSUME Init PROVE IInv
  BY DynamicCallAssumption
  DEF Init, IInv, TypeOK, Below, Frames, PendingOK

\* While Rust code runs no exception is pending but one that a to_java left.
LEMMA RustRunsClean ==
  ASSUME IInv, RustRuns
  PROVE  left = pending
  BY DEF IInv, RustRuns, At, PendingOK, PendingFits

\* A frame's parts.
LEMMA FrameParts ==
  ASSUME NEW f \in Frame
  PROVE  /\ f.req \in ReqSet /\ f.method \in Members \cup {None}
         /\ f.args \in Seq(Types) /\ f.runs \in 0..2
         /\ f.threw \in Exceptions \cup {None} /\ f.value \in Types \cup {None}
         /\ f.err \in ErrorSet
  BY DEF Frame, ReqSet, ErrorSet

\* The ways in which the steps change a frame leave it a frame.
LEMMA FrameChanges ==
  ASSUME NEW f \in Frame
  PROVE  /\ \A pc \in {"lookup", "resolve", "isGetter", "java", "native", "value",
                     "finish", "fail"},
               err \in ErrorSet :
              /\ [f EXCEPT !.pc = pc] \in Frame
              /\ [f EXCEPT !.pc = pc, !.err = err] \in Frame
         /\ [f EXCEPT !.pc = "check"] \in Frame
         /\ \A pc \in {"value", "check"}, v \in Types :
              [f EXCEPT !.pc = pc, !.value = v] \in Frame
         /\ \A e \in Exceptions : [f EXCEPT !.pc = "check", !.threw = e] \in Frame
         /\ \A m \in Members, a \in Seq(Types) :
              f.runs = 0 =>
                [f EXCEPT !.pc = "java", !.method = m, !.args = a, !.runs = @ + 1]
                  \in Frame
<1> USE DEF Frame
<1>1. \A pc \in {"lookup", "resolve", "isGetter", "java", "native", "value",
               "finish", "fail"},
         err \in ErrorSet :
        /\ [f EXCEPT !.pc = pc] \in Frame
        /\ [f EXCEPT !.pc = pc, !.err = err] \in Frame
  BY DEF ErrorSet
<1>2. [f EXCEPT !.pc = "check"] \in Frame
  OBVIOUS
<1>3. \A pc \in {"value", "check"}, v \in Types :
        [f EXCEPT !.pc = pc, !.value = v] \in Frame
  OBVIOUS
<1>4. \A e \in Exceptions : [f EXCEPT !.pc = "check", !.threw = e] \in Frame
  OBVIOUS
<1>5. ASSUME NEW m \in Members, NEW a \in Seq(Types), f.runs = 0
      PROVE  [f EXCEPT !.pc = "java", !.method = m, !.args = a, !.runs = @ + 1]
               \in Frame
  <2>1. f.runs + 1 \in 0..2
    BY <1>5
  <2> QED
    BY <2>1
<1> QED
  BY <1>1, <1>2, <1>3, <1>4, <1>5

\* What holds of the top frame.
LEMMA TopFacts ==
  ASSUME IInv, stack # <<>>
  PROVE  /\ Top \in Frame /\ FrameInv(Top) /\ PendingFits(Top, pending, left)
         /\ Top.req \in ReqSet /\ Top.err \in ErrorSet
         /\ pending \in Exceptions \cup {None} /\ left \in Exceptions \cup {None}
<1>1. Top \in Frame /\ Len(stack) \in 1..Len(stack)
  BY TopIsFrame DEF IInv
<1>2. FrameInv(Top) /\ PendingFits(Top, pending, left)
  BY <1>1 DEF IInv, Frames, PendingOK, Top
<1> QED
  BY <1>1, <1>2, FrameParts DEF IInv, TypeOK

\* The frame that replaces the top is the top.
LEMMA TopAfter ==
  ASSUME IInv, stack # <<>>, NEW f, Become(f)
  PROVE  Top' = f
<1>1. Top \in Frame /\ stack \in Seq(Frame) /\ Len(stack) \in 1..Len(stack)
  BY TopIsFrame DEF IInv, TypeOK
<1>2. stack' = [stack EXCEPT ![Len(stack)] = f]
  BY DEF Become
<1> QED
  BY <1>1, <1>2 DEF Top

\* An invoked method is in Java code.
LEMMA InvokedRuns ==
  ASSUME IInv, stack # <<>>, NEW m, NEW args, Invoke(m, args)
  PROVE  Top'.pc = "java"
<1> DEFINE f == [Top EXCEPT !.pc = "java", !.method = m, !.args = args, !.runs = @ + 1]
<1>1. Top \in Frame
  BY TopIsFrame DEF IInv
<1>2. f.pc = "java"
  BY <1>1 DEF Frame
<1>3. Become(f)
  BY DEF Invoke
<1> HIDE DEF f
<1> QED
  BY <1>2, <1>3, TopAfter

\* An access fails, with no exception pending but one that a to_java left.
LEMMA FailInv ==
  ASSUME IInv, stack # <<>>, NEW err \in ErrorSet, Fail(err),
         order' = order, pending' \in Exceptions \cup {None}, left' = pending',
         Top.threw # None => err.kind = "exception" /\ err.class = Top.threw
  PROVE  IInv'
<1> DEFINE f == [Top EXCEPT !.pc = "fail", !.err = err]
<1>1. Top \in Frame /\ FrameInv(Top)
  BY TopFacts
<1>2. f \in Frame
  BY <1>1, FrameChanges
<1>3. f.pc = "fail" /\ f.err = err /\ f.threw = Top.threw /\ Kept(f, Top)
  BY <1>1 DEF Frame, Kept
<1>4. FrameInv(f) /\ PendingFits(f, pending', left')
  BY <1>1, <1>3 DEF FrameInv, PendingFits, Kept
<1> QED
  BY <1>2, <1>4, BecomeInv DEF Fail

\* An access goes on, and nothing but its place changes.
LEMMA GoInv ==
  ASSUME IInv, stack # <<>>,
         NEW pc \in {"lookup", "resolve", "isGetter", "java", "native", "value"},
         Go(pc), order' = order, pending' = None, left' = None, Top.threw = None,
         \/ Top.runs = 0 /\ (pc = "isGetter" => Top.pc = "getter")
            /\ (pc = "resolve" => Top.req.op # "bool")
            /\ pc \in {"lookup", "resolve", "isGetter"}
         \/ pc \in {"java", "native"} /\ Top.pc \in {"java", "native"}
         \/ pc = "value"
  PROVE  IInv'
<1> DEFINE f == [Top EXCEPT !.pc = pc]
<1>1. Top \in Frame /\ FrameInv(Top)
  BY TopFacts
<1>2. f \in Frame
  BY <1>1, FrameChanges, ErrorsAreTyped
<1>3. f.pc = pc /\ f.threw = None /\ Kept(f, Top)
  BY <1>1 DEF Frame, Kept
<1>4. FrameInv(f) /\ PendingFits(f, pending', left')
  BY <1>1, <1>3 DEF FrameInv, PendingFits, Kept
<1> QED
  BY <1>2, <1>4, BecomeInv DEF Go

\* A method is invoked, for the first time.
LEMMA InvokeInv ==
  ASSUME IInv, stack # <<>>, Top.pc \in {"lookup", "resolve", "getter", "isGetter"},
         NEW m \in Members, NEW args \in Seq(Types), Invoke(m, args),
         Top.req.op # "bool" => Asked(m, Top.req, args),
         pending = None, UNCHANGED <<order, pending, left>>
  PROVE  IInv'
<1> DEFINE f == [Top EXCEPT !.pc = "java", !.method = m, !.args = args, !.runs = @ + 1]
<1>1. /\ Top \in Frame /\ FrameInv(Top) /\ PendingFits(Top, pending, left)
      /\ Top.runs = 0 /\ Top.threw = None
      /\ pending' = None /\ left' = None
  BY TopFacts DEF FrameInv, PendingFits
<1>2. f \in Frame
  BY <1>1, FrameChanges
<1>3. /\ f.pc = "java" /\ f.threw = None /\ f.runs = 1
      /\ f.method = m /\ f.req = Top.req /\ f.args = args
  BY <1>1 DEF Frame
<1>4. FrameInv(f) /\ PendingFits(f, pending', left')
  BY <1>1, <1>3 DEF FrameInv, PendingFits
<1> QED
  BY <1>1, <1>2, <1>4, BecomeInv DEF Invoke

LEMMA StartAccessInv ==
  ASSUME IInv, NEW r \in Requests, StartAccess(r)
  PROVE  IInv'
<1> DEFINE f == [pc |-> IF r.form = "raw" THEN "lookup" ELSE "convert", req |-> r,
                 method |-> None, args |-> <<>>, runs |-> 0, threw |-> None,
                 value |-> None, err |-> NoError]
<1>1. f \in Frame
  BY ErrorsAreTyped DEF Frame, ErrorSet
<1>2. FrameInv(f) /\ f.pc \in {"convert", "lookup"}
  BY DEF FrameInv
<1>3. RustRuns /\ Push(f) /\ UNCHANGED <<order, pending, left>> /\ left = pending
  BY RustRunsClean DEF StartAccess
<1> QED
  BY <1>1, <1>2, <1>3, PushInv

LEMMA ConvertArgsInv ==
  ASSUME IInv, ConvertArgs
  PROVE  IInv'
<1>1. /\ stack # <<>> /\ Top.pc = "convert" /\ order' = order
      /\ Top \in Frame /\ FrameInv(Top) /\ Top.threw = None /\ Top.runs = 0
      /\ Top.err \in ErrorSet
      /\ pending' \in Exceptions \cup {None} /\ left' = pending'
  BY TopFacts DEF ConvertArgs, Leaves, At, FrameInv
<1>2. CASE Become([Top EXCEPT !.pc = "lookup", !.err = NoError])
  <2> DEFINE f == [Top EXCEPT !.pc = "lookup", !.err = NoError]
  <2>1. f \in Frame
    BY <1>1, FrameChanges, ErrorsAreTyped
  <2>2. f.pc = "lookup" /\ f.threw = None /\ Kept(f, Top)
    BY <1>1 DEF Frame, Kept
  <2>3. FrameInv(f) /\ PendingFits(f, pending', left')
    BY <1>1, <2>2 DEF FrameInv, PendingFits, Kept
  <2> QED
    BY <1>1, <1>2, <2>1, <2>3, BecomeInv
<1>3. CASE \E err \in LastError \cup OwnErrors : Fail(err)
  <2>1. LastError \cup OwnErrors \subseteq ErrorSet
    BY <1>1, ErrorsAreTyped DEF LastError, OwnErrors
  <2> QED
    BY <1>1, <1>3, <2>1, FailInv
<1> QED
  BY <1>2, <1>3 DEF ConvertArgs

\* A member with exactly the signature that is looked up takes the arguments.
LEMMA ExactIsAsked ==
  ASSUME NEW r \in Requests, r.op \in {"call", "new"}, NEW m \in Exactly(r)
  PROVE  Asked(m, r, r.args)
<1>1. m.name = r.name /\ m.static = r.static /\ m.params = Fragments(r)
  BY DEF Exactly
<1>2. CASE r.form # "raw"
  BY <1>1, <1>2, RequestsAssumption DEF Fragments, Asked
<1>3. CASE r.form = "raw"
  <2> DEFINE p == [i \in DOMAIN r.args |->
                     IF r.args[i] \in Primitives THEN r.args[i] ELSE Object]
  <2>1. r.args \in Seq(Primitives \cup Classes \cup {Null})
    BY DynamicCallAssumption
  <2>2. m.params = p
    BY <1>1, <1>3 DEF Fragments
  <2>3. Len(p) = Len(r.args)
    <3>1. DOMAIN r.args = 1..Len(r.args) /\ Len(r.args) \in Nat
      BY <2>1
    <3>2. p \in Seq(Primitives \cup {Object})
      BY <3>1
    <3> QED
      BY <3>1, <3>2
  <2>4. ASSUME NEW i \in DOMAIN r.args
        PROVE  Conforms(r.args[i], p[i])
    <3>1. r.args[i] \in Primitives \cup Classes \cup {Null}
      BY <2>1
    <3>2. Object \notin Primitives \/ Classes = {}
      BY DynamicCallAssumption
    <3> QED
      BY <3>1, <3>2, DynamicCallAssumption DEF Conforms
  <2> HIDE DEF p
  <2> QED
    BY <1>1, <2>2, <2>3, <2>4 DEF Asked
<1> QED
  BY <1>2, <1>3

\* What reflection finds takes the arguments once they are boxed and unboxed.
LEMMA AdjustedIsAsked ==
  ASSUME NEW r \in Requests, NEW m \in Members, NEW args, args = r.args,
         m.name = r.name, m.static = r.static, Accepts(m.params, args)
  PROVE  Asked(m, r, Adjusted(m.params, args))
<1> DEFINE a == Adjusted(m.params, args)
<1>1. /\ args \in Seq(Primitives \cup Classes \cup {Null})
      /\ m.params \in Seq(Primitives \cup Classes)
      /\ Len(m.params) = Len(args)
  BY DynamicCallAssumption DEF Accepts
<1>2. DOMAIN a = DOMAIN args
  BY DEF Adjusted
<1>3. Len(a) = Len(args)
  <2>1. args \in Seq(Types)
    BY <1>1 DEF Types
  <2>2. a \in Seq(Types)
    BY <1>1, <2>1, AdjustedIsTyped
  <2> HIDE DEF a
  <2> QED
    BY <1>1, <1>2, <2>2
<1>4. ASSUME NEW i \in DOMAIN args
      PROVE  \/ Conforms(a[i], m.params[i])
             \/ args[i] \in Primitives /\ m.params[i] \in Wrappers
  <2>1. /\ args[i] \in Primitives \cup Classes \cup {Null}
        /\ m.params[i] \in Primitives \cup Classes
    BY <1>1
  <2>2. CASE Exact(args[i], m.params[i])
    <3>1. ~Boxes(args[i], m.params[i])
      <4>1. args[i] \in Primitives => args[i] \notin Classes
        BY DynamicCallAssumption
      <4>2. Primitives # {} => Wrappers \cup {Object} \subseteq Classes
        BY DynamicCallAssumption DEF Wrappers
      <4>3. args[i] \in Primitives => args[i] = m.params[i]
        BY <2>1, <2>2, <4>1, DynamicCallAssumption DEF Exact
      <4> QED
        BY <4>1, <4>2, <4>3 DEF Boxes
    <3>2. a[i] = args[i]
      BY <2>2, <3>1 DEF Adjusted
    <3> HIDE DEF a
    <3> QED
      BY <2>2, <3>2 DEF Exact, Conforms
  <2>3. CASE ~Exact(args[i], m.params[i]) /\ Boxes(args[i], m.params[i])
    <3>0. a[i] = WrapperOf[args[i]]
      BY <2>3 DEF Adjusted
    <3>1. a[i] = WrapperOf[args[i]] /\ args[i] \in Primitives
      BY <2>3, <3>0 DEF Boxes
    <3>2. Object \in Supers[WrapperOf[args[i]]] /\ WrapperOf[args[i]] \in Classes
      BY <3>1, DynamicCallAssumption
    <3> QED
      BY <2>3, <3>1, <3>2 DEF Boxes, Conforms
  <2>4. CASE ~Exact(args[i], m.params[i]) /\ ~Boxes(args[i], m.params[i])
    BY <2>4 DEF Adjusted, Conforms
  <2> QED
    BY <2>2, <2>3, <2>4
<1> QED
  BY <1>1, <1>2, <1>3, <1>4 DEF Asked

LEMMA LookUpInv ==
  ASSUME IInv, LookUp
  PROVE  IInv'
<1>1. /\ stack # <<>> /\ Top.pc = "lookup" /\ UNCHANGED <<order, pending, left>>
      /\ FrameInv(Top) /\ Top.threw = None /\ Top.runs = 0
      /\ Top.req.args \in Seq(Types) /\ pending = None /\ left = None
      /\ Top.req \in Requests /\ Top.req.op \in {"call", "new"}
  BY TopFacts, RequestsAreTyped DEF LookUp, At, FrameInv, PendingFits
<1>2. CASE \E m \in Exactly(Top.req) : Invoke(m, Top.req.args)
  BY <1>1, <1>2, ExactIsAsked, InvokeInv DEF Exactly
<1>3. CASE Go("resolve")
  BY <1>1, <1>3, GoInv
<1> QED
  BY <1>2, <1>3 DEF LookUp

LEMMA ResolveInv ==
  ASSUME IInv, Resolve
  PROVE  IInv'
<1>1. /\ stack # <<>> /\ Top.pc = "resolve" /\ UNCHANGED <<order, pending, left>>
      /\ FrameInv(Top) /\ Top.threw = None
      /\ Top.req.args \in Seq(Types) /\ pending = None /\ left = None
  BY TopFacts, RequestsAreTyped DEF Resolve, At, FrameInv, PendingFits
<1>2. ASSUME NEW i \in Candidates(Top.req),
             Invoke(order[i], Adjusted(order[i].params, Top.req.args))
      PROVE  IInv'
  <2>1. order \in Seq(Members)
    BY DynamicCallAssumption DEF IInv, TypeOK
  <2>2. /\ order[i] \in Members /\ Accepts(order[i].params, Top.req.args)
        /\ order[i].name = Top.req.name /\ order[i].static = Top.req.static
    BY <2>1 DEF Candidates
  <2>3. Adjusted(order[i].params, Top.req.args) \in Seq(Types)
    BY <1>1, <2>2, AdjustedIsTyped, MembersAreTyped
  <2>4. Top.req.op # "bool" =>
          Asked(order[i], Top.req, Adjusted(order[i].params, Top.req.args))
    BY <1>1, <2>2, AdjustedIsAsked DEF FrameInv
  <2> QED
    BY <1>1, <1>2, <2>2, <2>3, <2>4, InvokeInv
<1>3. CASE Fail(Error("unresolved"))
  BY <1>1, <1>3, FailInv, ErrorsAreTyped
<1> QED
  BY <1>2, <1>3 DEF Resolve

LEMMA AccessFieldInv ==
  ASSUME IInv, AccessField
  PROVE  IInv'
<1>1. /\ stack # <<>> /\ Top.pc = "lookup" /\ UNCHANGED <<order, pending, left>>
      /\ Top \in Frame /\ FrameInv(Top) /\ Top.threw = None /\ Top.runs = 0
      /\ Top.req \in ReqSet /\ pending = None /\ left = None
  BY TopFacts DEF AccessField, At, FrameInv, PendingFits
<1>2. CASE Pop
  BY <1>1, <1>2, PopInv
<1>3. ASSUME NEW v \in Types, Become([Top EXCEPT !.pc = "value", !.value = v])
      PROVE  IInv'
  <2> DEFINE f == [Top EXCEPT !.pc = "value", !.value = v]
  <2>1. f \in Frame
    BY <1>1, FrameChanges
  <2>2. f.pc = "value" /\ f.threw = None /\ Kept(f, Top)
    BY <1>1 DEF Frame, Kept
  <2>3. FrameInv(f) /\ PendingFits(f, pending', left')
    BY <1>1, <2>2 DEF FrameInv, PendingFits, Kept
  <2> QED
    BY <1>1, <1>3, <2>1, <2>3, BecomeInv
<1>4. CASE /\ Top.req.op = "bool"
           /\ Become([Top EXCEPT !.pc = "getter", !.req.form = "bound"])
  <2> DEFINE f == [Top EXCEPT !.pc = "getter", !.req.form = "bound"]
  <2>1. [Top.req EXCEPT !.form = "bound"] \in ReqSet
    BY <1>1, RequestsAreTyped
  <2>2. f = [Top EXCEPT !.pc = "getter", !.req = [Top.req EXCEPT !.form = "bound"]]
    BY <1>1 DEF Frame
  <2>3. f \in Frame
    BY <1>1, <2>1, <2>2 DEF Frame, ReqSet
  <2>4. /\ f.pc = "getter" /\ f.threw = None /\ f.runs = 0
        /\ f.req = [Top.req EXCEPT !.form = "bound"]
    BY <1>1, <2>2 DEF Frame
  <2>5. f.req.op = "bool"
    BY <1>1, <1>4, <2>4, RequestsAreTyped
  <2>6. FrameInv(f) /\ PendingFits(f, pending', left')
    BY <1>1, <2>4, <2>5 DEF FrameInv, PendingFits
  <2> QED
    BY <1>1, <1>4, <2>3, <2>6, BecomeInv
<1>5. CASE Fail(Error("noField"))
  BY <1>1, <1>5, FailInv, ErrorsAreTyped
<1>6. ASSUME NEW f \in Fields
      PROVE  ReturnedBy(f.type) \subseteq Types
  BY MembersAreTyped, ReturnsAreTyped
<1> QED
  BY <1>2, <1>3, <1>4, <1>5, <1>6 DEF AccessField

LEMMA TryAccessorInv ==
  ASSUME IInv, TryAccessor
  PROVE  IInv'
<1>1. /\ stack # <<>> /\ Top.pc \in {"getter", "isGetter"}
      /\ UNCHANGED <<order, pending, left>> /\ pending = None /\ left = None
      /\ FrameInv(Top) /\ Top.threw = None /\ Top.runs = 0
      /\ Top.req.op = "bool"
  BY TopFacts DEF TryAccessor, At, FrameInv, PendingFits
<1>2. ASSUME NEW m \in Members, Invoke(m, <<>>)
      PROVE  IInv'
  <2>1. <<>> \in Seq(Types)
    OBVIOUS
  <2> QED
    BY <1>1, <1>2, <2>1, InvokeInv
<1>3. CASE At("getter") /\ Go("isGetter")
  BY <1>1, <1>3, GoInv DEF At
<1>4. CASE Fail(Error("jni"))
  BY <1>1, <1>4, FailInv, ErrorsAreTyped
<1> QED
  BY <1>2, <1>3, <1>4 DEF TryAccessor

LEMMA LookUpFailsInv ==
  ASSUME IInv, LookUpFails
  PROVE  IInv'
<1>1. /\ stack # <<>> /\ order' = order
      /\ Top \in Frame /\ FrameInv(Top) /\ Top.threw = None
      /\ pending = None /\ left = None /\ left' = None
  BY TopFacts DEF LookUpFails, At, FrameInv, PendingFits
<1>2. ASSUME NEW e \in Exceptions, pending' = e, Go("check")
      PROVE  IInv'
  <2> DEFINE f == [Top EXCEPT !.pc = "check"]
  <2>1. f \in Frame
    BY <1>1, FrameChanges
  <2>2. f.pc = "check" /\ f.threw = None /\ Kept(f, Top)
    BY <1>1 DEF Frame, Kept
  <2>3. FrameInv(f) /\ PendingFits(f, pending', left')
    BY <1>1, <2>2 DEF FrameInv, PendingFits, Kept
  <2> QED
    BY <1>1, <1>2, <2>1, <2>3, BecomeInv DEF Go
<1>3. CASE Fail(Error("jni")) /\ UNCHANGED pending
  BY <1>1, <1>3, FailInv, ErrorsAreTyped
<1> QED
  BY <1>2, <1>3 DEF LookUpFails

LEMMA LookUpRefusedInv ==
  ASSUME IInv, LookUpRefused
  PROVE  IInv'
<1>1. /\ stack # <<>> /\ Top.pc = "lookup" /\ UNCHANGED <<order, pending, left>>
      /\ Top \in Frame /\ FrameInv(Top) /\ Top.threw = None
      /\ pending \in Exceptions \cup {None} /\ left = pending
  BY TopFacts DEF LookUpRefused, At, FrameInv, PendingFits
<1>2. CASE Go("check")
  <2> DEFINE f == [Top EXCEPT !.pc = "check"]
  <2>1. f \in Frame
    BY <1>1, FrameChanges
  <2>2. f.pc = "check" /\ f.threw = None /\ Kept(f, Top)
    BY <1>1 DEF Frame, Kept
  <2>3. FrameInv(f) /\ PendingFits(f, pending', left')
    BY <1>1, <2>2 DEF FrameInv, PendingFits, Kept
  <2> QED
    BY <1>1, <1>2, <2>1, <2>3, BecomeInv DEF Go
<1>3. CASE Fail(Error("jni"))
  BY <1>1, <1>3, FailInv, ErrorsAreTyped
<1> QED
  BY <1>2, <1>3 DEF LookUpRefused

LEMMA BodyReturnsInv ==
  ASSUME IInv, BodyReturns
  PROVE  IInv'
<1>1. /\ stack # <<>> /\ Top.pc = "java" /\ order' = order
      /\ Top \in Frame /\ FrameInv(Top) /\ Top.threw = None
      /\ Top.method \in Members /\ pending' = None /\ left' = None
  BY TopFacts DEF BodyReturns, At, FrameInv, PendingFits
<1>2. PICK v \in Types : Become([Top EXCEPT !.pc = "check", !.value = v])
  BY <1>1, MembersAreTyped, ReturnsAreTyped DEF BodyReturns
<1> DEFINE f == [Top EXCEPT !.pc = "check", !.value = v]
<1>3. f \in Frame
  BY <1>1, FrameChanges
<1>4. f.pc = "check" /\ f.threw = None /\ Kept(f, Top)
  BY <1>1 DEF Frame, Kept
<1>5. FrameInv(f) /\ PendingFits(f, pending', left')
  BY <1>1, <1>4 DEF FrameInv, PendingFits, Kept
<1> QED
  BY <1>1, <1>2, <1>3, <1>5, BecomeInv

LEMMA BodyThrowsInv ==
  ASSUME IInv, NEW e \in Exceptions, BodyThrows(e)
  PROVE  IInv'
<1> DEFINE f == [Top EXCEPT !.pc = "check", !.threw = e]
<1>1. /\ stack # <<>> /\ Top.pc = "java" /\ order' = order
      /\ Top \in Frame /\ FrameInv(Top) /\ pending' = e /\ left' = None /\ Become(f)
  BY TopFacts DEF BodyThrows, At, PendingFits
<1>2. f \in Frame
  BY <1>1, FrameChanges
<1>3. f.pc = "check" /\ f.threw = e /\ Kept(f, Top)
  BY <1>1 DEF Frame, Kept
<1>4. FrameInv(f) /\ PendingFits(f, pending', left')
  BY <1>1, <1>3 DEF FrameInv, PendingFits, Kept
<1> QED
  BY <1>1, <1>2, <1>4, BecomeInv

LEMMA BodyCatchesInv ==
  ASSUME IInv, BodyCatches
  PROVE  IInv'
<1>1. /\ stack # <<>> /\ Top.pc = "java" /\ pending' = None /\ left' = None
      /\ UNCHANGED <<order, stack>>
  BY TopFacts DEF BodyCatches, At, PendingFits
<1>2. TypeOK' /\ Below' /\ Frames'
  BY <1>1 DEF IInv, TypeOK, Below, Frames, FrameInv
<1>3. PendingOK'
  BY <1>1 DEF PendingOK, PendingFits, Top
<1> QED
  BY <1>2, <1>3 DEF IInv

LEMMA EnterNativeInv ==
  ASSUME IInv, EnterNative
  PROVE  IInv'
  BY TopFacts, GoInv DEF EnterNative, At, FrameInv, PendingFits

\* Both ends of a native: the method goes on.
LEMMA NativeEndsInv ==
  ASSUME IInv, NativeReturns \/ NativeFails
  PROVE  IInv'
<1> DEFINE f == [Top EXCEPT !.pc = "java", !.err = NoError]
<1>1. /\ stack # <<>> /\ Top.pc = "native" /\ order' = order /\ Become(f)
      /\ Top \in Frame /\ FrameInv(Top) /\ Top.err \in ErrorSet
      /\ pending \in Exceptions \cup {None} /\ left' = None
  BY TopFacts DEF NativeReturns, NativeFails, At
<1>2. pending' \in Exceptions \cup {None}
  <2>1. CASE NativeReturns
    BY <1>1, <2>1 DEF NativeReturns
  <2>2. CASE NativeFails
    <3>1. PICK err \in LastError \cup OwnErrors \cup {JavaException(e) : e \in Exceptions} :
            pending' \in Thrown(err)
      BY <2>2 DEF NativeFails
    <3>2. err \in ErrorSet
      BY <1>1, ErrorsAreTyped DEF LastError, OwnErrors
    <3>3. err.class \in Exceptions \cup {None}
      BY <3>2 DEF ErrorSet
    <3> QED
      BY <3>1, <3>3, DynamicCallAssumption DEF Thrown
  <2> QED
    BY <2>1, <2>2
<1>3. f \in Frame
  BY <1>1, FrameChanges, ErrorsAreTyped
<1>4. f.pc = "java" /\ f.threw = Top.threw /\ Kept(f, Top)
  BY <1>1 DEF Frame, Kept
<1>5. FrameInv(f) /\ PendingFits(f, pending', left')
  BY <1>1, <1>4 DEF FrameInv, PendingFits, Kept
<1> QED
  BY <1>1, <1>2, <1>3, <1>5, BecomeInv

LEMMA CheckInv ==
  ASSUME IInv, Check
  PROVE  IInv'
<1>1. /\ stack # <<>> /\ Top.pc = "check" /\ order' = order
      /\ pending' = None /\ left' = None
      /\ FrameInv(Top) /\ PendingFits(Top, pending, left)
      /\ pending \in Exceptions \cup {None}
  BY TopFacts DEF Check, At
<1>2. CASE pending # None
  <2> DEFINE err == JavaException(pending)
  <2>1. err \in ErrorSet /\ err.kind = "exception" /\ err.class = pending
    BY <1>1, <1>2, ErrorsAreTyped DEF JavaException
  <2>2. Top.threw # None => err.class = Top.threw
    BY <1>1, <2>1 DEF PendingFits
  <2>3. Fail(err)
    BY <1>2 DEF Check
  <2> QED
    BY <1>1, <2>1, <2>2, <2>3, FailInv
<1>3. CASE pending = None
  <2>1. Top.threw = None
    BY <1>1, <1>3 DEF PendingFits
  <2> QED
    BY <1>1, <1>3, <2>1, GoInv DEF Check
<1> QED
  BY <1>2, <1>3

LEMMA ConvertValueInv ==
  ASSUME IInv, ConvertValue
  PROVE  IInv'
<1>1. /\ stack # <<>> /\ Top.pc = "value" /\ order' = order /\ left' = left
      /\ Top \in Frame /\ FrameInv(Top) /\ Top.threw = None /\ Top.err \in ErrorSet
      /\ pending \in Exceptions \cup {None} /\ left = pending
  BY TopFacts DEF ConvertValue, At, FrameInv, PendingFits
<1>2. pending' \in Exceptions \cup {None} /\ left' \in {None, pending'}
  BY <1>1 DEF ConvertValue, Leaves
<1>3. PICK err \in ErrorSet : Become([Top EXCEPT !.pc = "finish", !.err = err])
  BY <1>1, ErrorsAreTyped DEF ConvertValue, LastError
<1> DEFINE f == [Top EXCEPT !.pc = "finish", !.err = err]
<1>4. f \in Frame
  BY <1>1, FrameChanges
<1>5. f.pc = "finish" /\ f.threw = None /\ Kept(f, Top)
  BY <1>1 DEF Frame, Kept
<1>6. FrameInv(f) /\ PendingFits(f, pending', left')
  BY <1>1, <1>2, <1>5 DEF FrameInv, PendingFits, Kept
<1> QED
  BY <1>1, <1>2, <1>3, <1>4, <1>6, BecomeInv

LEMMA FinishInv ==
  ASSUME IInv, Finish
  PROVE  IInv'
<1>1. /\ stack # <<>> /\ Top.pc = "finish" /\ order' = order
      /\ pending' = None /\ left' = None
      /\ Top \in Frame /\ FrameInv(Top) /\ Top.threw = None /\ Top.err \in ErrorSet
      /\ pending \in Exceptions \cup {None}
  BY TopFacts DEF Finish, At, FrameInv
<1>2. CASE pending # None
  <2>1. JavaException(pending) \in ErrorSet /\ Fail(JavaException(pending))
    BY <1>1, <1>2, ErrorsAreTyped DEF Finish
  <2> QED
    BY <1>1, <2>1, FailInv
<1>3. CASE Go("fail")
  <2> DEFINE f == [Top EXCEPT !.pc = "fail"]
  <2>1. f \in Frame
    BY <1>1, FrameChanges
  <2>2. f.pc = "fail" /\ f.threw = None /\ Kept(f, Top)
    BY <1>1 DEF Frame, Kept
  <2>3. FrameInv(f) /\ PendingFits(f, pending', left')
    BY <1>1, <2>2 DEF FrameInv, PendingFits, Kept
  <2> QED
    BY <1>1, <1>3, <2>1, <2>3, BecomeInv DEF Go
<1>4. CASE Pop
  BY <1>1, <1>4, PopInv
<1> QED
  BY <1>2, <1>3, <1>4 DEF Finish

\* The error gets to the frame below.
LEMMA FailedInv ==
  ASSUME IInv, Failed
  PROVE  IInv'
<1> DEFINE below == SubSeq(stack, 1, Len(stack) - 1)
<1>1. /\ stack # <<>> /\ Top.pc = "fail" /\ order' = order
      /\ Top \in Frame /\ Top.err \in ErrorSet
      /\ pending' \in Exceptions \cup {None} /\ left' = pending'
      /\ stack \in Seq(Frame)
  BY TopFacts DEF Failed, At, PendingFits, IInv, TypeOK
<1>2. /\ below \in Seq(Frame) /\ Len(below) = Len(stack) - 1
      /\ Len(stack) \in Nat \ {0}
      /\ \A i \in 1..Len(below) : below[i] = stack[i]
  <2>1. PICK s, b : s = stack /\ b = below
    OBVIOUS
  <2>2. s \in Seq(Frame) /\ s # <<>> /\ b = SubSeq(s, 1, Len(s) - 1)
    BY <1>1, <2>1
  <2>3. /\ b \in Seq(Frame) /\ Len(b) = Len(s) - 1 /\ Len(s) \in Nat \ {0}
        /\ \A i \in 1..Len(b) : b[i] = s[i]
    BY <2>2, PopTop
  <2> QED
    BY <2>1, <2>3
<1>3. CASE below = <<>>
  <2>1. stack' = <<>>
    BY <1>3 DEF Failed
  <2> QED
    BY <1>1, <2>1 DEF IInv, TypeOK, Below, Frames, PendingOK
<1>4. CASE below # <<>>
  <2> DEFINE n == Len(below)
             err == InContext(Top)
             f == [below[n] EXCEPT !.err = err]
  <2>1. err \in ErrorSet
    BY <1>1 DEF InContext, ErrorSet
  <2>2. stack' = [below EXCEPT ![n] = f]
    BY <1>4 DEF Failed
  <2>3. /\ n \in 1..n /\ n \in 1..Len(stack) - 1 /\ n \in 1..Len(stack)
        /\ below[n] = stack[n] /\ below[n] \in Frame
    BY <1>2, <1>4
  <2>4. below[n].pc \in {"native", "convert", "value"} /\ FrameInv(below[n])
    BY <2>3 DEF IInv, Below, Frames
  <2>5. f \in Frame
    BY <2>1, <2>3 DEF Frame, ErrorSet
  <2>6. f.pc = below[n].pc /\ f.threw = below[n].threw /\ Kept(f, below[n])
    BY <2>3 DEF Frame, Kept
  <2>7. FrameInv(f)
    BY <2>4, <2>6 DEF FrameInv, Kept
  <2> HIDE DEF f, below
  <2>8. /\ stack' \in Seq(Frame) /\ Len(stack') = n /\ stack' # <<>>
        /\ stack'[n] = f
        /\ \A i \in 1..n - 1 : stack'[i] = below[i]
    BY <1>2, <1>4, <2>2, <2>5, ReplaceTop
  <2>9. \A i \in 1..n : stack'[i].pc \in {"native", "convert", "value"}
    <3> SUFFICES ASSUME NEW i \in 1..n
                 PROVE  stack'[i].pc \in {"native", "convert", "value"}
      OBVIOUS
    <3>1. CASE i = n
      BY <2>4, <2>6, <2>8, <3>1
    <3>2. CASE i # n
      <4>1. i \in 1..n - 1 /\ i \in 1..Len(stack) - 1
        BY <1>2, <3>2
      <4> QED
        BY <1>2, <2>8, <4>1 DEF IInv, Below
    <3> QED
      BY <3>1, <3>2
  <2>10. Below'
    BY <1>2, <2>8, <2>9 DEF Below
  <2>11. Frames'
    <3> SUFFICES ASSUME NEW i \in 1..n
                 PROVE  FrameInv(stack'[i])
      BY <2>8 DEF Frames, FrameInv
    <3>1. CASE i = n
      BY <2>7, <2>8, <3>1
    <3>2. CASE i # n
      <4>1. i \in 1..n - 1 /\ i \in 1..Len(stack)
        BY <1>2, <3>2
      <4> QED
        BY <1>2, <2>8, <4>1 DEF IInv, Frames
    <3> QED
      BY <3>1, <3>2
  <2>12. PendingOK'
    <3>1. stack'[Len(stack')].pc \in {"native", "convert", "value"}
      BY <2>4, <2>6, <2>8
    <3> QED
      BY <1>1, <2>8, <3>1 DEF PendingOK, PendingFits, Top
  <2>13. TypeOK'
    BY <1>1, <2>8 DEF IInv, TypeOK
  <2> QED
    BY <2>10, <2>11, <2>12, <2>13 DEF IInv
<1> QED
  BY <1>3, <1>4

LEMMA NextInv ==
  ASSUME IInv, [Next]_vars
  PROVE  IInv'
<1>1. CASE UNCHANGED vars
  BY <1>1 DEF IInv, TypeOK, Below, Frames, FrameInv, PendingOK, PendingFits, Top, vars
<1>2. CASE \E r \in Requests : StartAccess(r)
  BY <1>2, StartAccessInv
<1>3. CASE \/ ConvertArgs \/ LookUp \/ Resolve \/ AccessField \/ TryAccessor
           \/ LookUpFails \/ LookUpRefused
  BY <1>3, ConvertArgsInv, LookUpInv, ResolveInv, AccessFieldInv, TryAccessorInv,
     LookUpFailsInv, LookUpRefusedInv
<1>4. CASE \E e \in Exceptions : BodyThrows(e)
  BY <1>4, BodyThrowsInv
<1>5. CASE BodyReturns \/ BodyCatches \/ EnterNative \/ NativeReturns \/ NativeFails
  BY <1>5, BodyReturnsInv, BodyCatchesInv, EnterNativeInv, NativeEndsInv
<1>6. CASE Check \/ ConvertValue \/ Finish \/ Failed
  BY <1>6, CheckInv, ConvertValueInv, FinishInv, FailedInv
<1> QED
  BY <1>1, <1>2, <1>3, <1>4, <1>5, <1>6 DEF Next

\* The strengthened invariant holds throughout.
THEOREM InvariantHolds == Spec => []IInv
  BY InitInv, NextInv, PTL DEF Spec

-----------------------------------------------------------------------------
(***************************************************************************)
(* The theorems.                                                           *)
(***************************************************************************)

\* The thread's accesses keep their types, however deeply they nest.
THEOREM CallTypeCorrect == Spec => []TypeOK
<1>1. IInv => TypeOK
  BY DEF IInv
<1> QED
  BY <1>1, InvariantHolds, PTL

\* "one failed call never poisons the thread for the next": no exception is
\* pending while Rust code outside of the machinery runs, but for one that a
\* to_java left.
THEOREM ThreadIsNeverPoisoned == Spec => []NeverPoisoned
<1>1. IInv => NeverPoisoned
  BY RustRunsClean DEF NeverPoisoned
<1> QED
  BY <1>1, InvariantHolds, PTL

\* An access runs Java code once at most and its exception is the error.
THEOREM InvocationIsReported == Spec => []ReportsTheInvocation
<1>1. IInv => ReportsTheInvocation
  BY DEF IInv, Frames, FrameInv, ReportsTheInvocation
<1> QED
  BY <1>1, InvariantHolds, PTL

\* A step that takes a pending exception away, if it is not one that a to_java
\* left, is one of Java code that catches it, or the check that makes it the
\* error.
LEMMA ClearingReports ==
  ASSUME IInv, [Next]_vars
  PROVE  [Reported]_vars
<1> SUFFICES ASSUME Next, pending \notin {None, left}, pending' # pending
             PROVE  \/ At("java") /\ stack' = stack
                    \/ /\ Top'.pc = "fail"
                       /\ Top'.err.kind = "exception" /\ Top'.err.class = pending
  BY DEF Reported
<1>1. /\ stack # <<>> /\ Top.pc \in {"java", "check", "finish"} /\ Top \in Frame
      /\ pending \in Exceptions
  BY TopFacts DEF IInv, PendingOK, PendingFits
<1>2. CASE Check \/ Finish
  <2> DEFINE f == [Top EXCEPT !.pc = "fail", !.err = JavaException(pending)]
  <2>1. Become(f)
    BY <1>2 DEF Check, Finish, Fail
  <2> HIDE DEF f
  <2>3. Top' = f
    BY <1>1, <2>1, TopAfter
  <2>4. f.pc = "fail" /\ f.err = JavaException(pending)
    BY <1>1 DEF Frame, f
  <2> QED
    BY <2>3, <2>4 DEF JavaException
<1>3. CASE BodyCatches
  BY <1>3 DEF BodyCatches
<1>4. ASSUME NEW e \in Exceptions, BodyThrows(e)
      PROVE  FALSE
  BY <1>4 DEF BodyThrows
<1>5. CASE \/ \E r \in Requests : StartAccess(r)
           \/ LookUp \/ Resolve \/ AccessField \/ TryAccessor \/ LookUpRefused
           \/ BodyReturns \/ EnterNative \/ NativeReturns
  BY <1>5 DEF StartAccess, LookUp, Resolve, AccessField, TryAccessor, LookUpRefused,
     BodyReturns, EnterNative, NativeReturns
<1>6. CASE ConvertArgs \/ ConvertValue \/ LookUpFails \/ NativeFails \/ Failed
  BY <1>1, <1>6 DEF ConvertArgs, ConvertValue, LookUpFails, NativeFails, Failed, At
<1> QED
  BY <1>2, <1>3, <1>4, <1>5, <1>6 DEF Next

\* "A pending Java exception is the ground truth": none is lost.
THEOREM PendingIsReported == Spec => ExceptionIsReported
  BY InvariantHolds, ClearingReports, PTL DEF Spec, ExceptionIsReported

\* The method that runs is of the name and kind that was asked for, and gets
\* arguments of its parameter types, or boxed ones.
THEOREM AskedMethodRuns == Spec => []RunsWhatWasAsked
<1>1. IInv => RunsWhatWasAsked
  BY TopFacts DEF RunsWhatWasAsked, At, FrameInv
<1> QED
  BY <1>1, InvariantHolds, PTL

\* The conversions that the docs promise are among those of the code.
LEMMA SuitsIsAccepted ==
  ASSUME NEW a \in Primitives \cup Classes \cup {Null},
         NEW p \in Primitives \cup Classes, Suits(a, p)
  PROVE  Exact(a, p) \/ Boxes(a, p) \/ Unboxes(a, p)
<1>1. CASE Conforms(a, p)
  BY <1>1, DynamicCallAssumption DEF Conforms, Exact
<1>2. CASE a \in Primitives /\ p \in {Object, WrapperOf[a]}
  BY <1>2 DEF Boxes, Wrappers
<1>3. CASE p \in Primitives /\ a = WrapperOf[p]
  BY <1>3 DEF Unboxes
<1> QED
  BY <1>1, <1>2, <1>3 DEF Suits

\* Without a candidate, nothing that reflection lists suits the arguments.
LEMMA NoCandidateSuits ==
  ASSUME IInv, stack # <<>>, Top.req.op # "bool", Candidates(Top.req) = {}
  PROVE  NothingSuits
<1> SUFFICES ASSUME NEW i \in DOMAIN order,
                    order[i].name = Top.req.name, order[i].static = Top.req.static,
                    Len(order[i].params) = Len(Top.req.args),
                    \A j \in DOMAIN Top.req.args :
                      Suits(Top.req.args[j], order[i].params[j])
             PROVE  FALSE
  BY DEF NothingSuits
<1>1. Top.req \in Requests
  BY TopFacts DEF FrameInv
<1>2. Top.req.args \in Seq(Primitives \cup Classes \cup {Null})
  BY <1>1, DynamicCallAssumption
<1>3. order[i].params \in Seq(Primitives \cup Classes)
  BY DynamicCallAssumption DEF IInv, TypeOK
<1>4. Accepts(order[i].params, Top.req.args)
  <2> SUFFICES ASSUME NEW j \in DOMAIN Top.req.args
               PROVE  \/ Exact(Top.req.args[j], order[i].params[j])
                      \/ Boxes(Top.req.args[j], order[i].params[j])
                      \/ Unboxes(Top.req.args[j], order[i].params[j])
    BY DEF Accepts
  <2>1. /\ Top.req.args[j] \in Primitives \cup Classes \cup {Null}
        /\ order[i].params[j] \in Primitives \cup Classes
    BY <1>2, <1>3
  <2> QED
    BY <2>1, SuitsIsAccepted
<1> QED
  BY <1>4 DEF Candidates

\* Only the resolution gives up as unresolved.
LEMMA UnresolvedIsRight ==
  ASSUME IInv, [Next]_vars
  PROVE  [GivesUpRightly]_vars
<1> SUFFICES ASSUME Next, stack # <<>>, Top.pc = "resolve",
                    Top'.pc = "fail", Top'.err.kind = "unresolved"
             PROVE  NothingSuits
  BY DEF GivesUpRightly, At
<1>1. CASE Resolve
  <2>1. CASE \E i \in Candidates(Top.req) :
               Invoke(order[i], Adjusted(order[i].params, Top.req.args))
    <3>1. PICK i \in Candidates(Top.req) :
            Invoke(order[i], Adjusted(order[i].params, Top.req.args))
      BY <2>1
    <3> QED
      BY <3>1, InvokedRuns
  <2>2. CASE Candidates(Top.req) = {}
    <3>1. Top.req.op # "bool"
      BY TopFacts DEF FrameInv
    <3> QED
      BY <2>2, <3>1, NoCandidateSuits
  <2> QED
    BY <1>1, <2>1, <2>2 DEF Resolve
<1>2. CASE LookUpFails
  <2>1. CASE Go("check")
    <3>1. [Top EXCEPT !.pc = "check"].pc = "check"
      BY TopFacts DEF Frame
    <3> QED
      BY <2>1, <3>1, TopAfter DEF Go
  <2>2. CASE Fail(Error("jni"))
    <3> DEFINE f == [Top EXCEPT !.pc = "fail", !.err = Error("jni")]
    <3>1. Top \in Frame
      BY TopFacts
    <3>2. f.err = Error("jni")
      BY <3>1 DEF Frame
    <3>3. Become(f)
      BY <2>2 DEF Fail
    <3> HIDE DEF f
    <3>4. Top'.err = Error("jni")
      BY <3>2, <3>3, TopAfter
    <3> QED
      BY <3>4 DEF Error
  <2> QED
    BY <1>2, <2>1, <2>2 DEF LookUpFails
<1>3. CASE BodyCatches \/ LookUpRefused \/ \E e \in Exceptions : BodyThrows(e)
  BY <1>3 DEF BodyCatches, LookUpRefused, BodyThrows, At
<1>4. CASE \/ \E r \in Requests : StartAccess(r)
           \/ ConvertArgs \/ LookUp \/ AccessField \/ TryAccessor
  BY <1>4 DEF StartAccess, RustRuns, ConvertArgs, LookUp, AccessField, TryAccessor, At
<1>5. CASE \/ BodyReturns \/ EnterNative \/ NativeReturns \/ NativeFails
           \/ Check \/ ConvertValue \/ Finish \/ Failed
  BY <1>5 DEF BodyReturns, EnterNative, NativeReturns, NativeFails, Check,
     ConvertValue, Finish, Failed, At
<1> QED
  BY <1>1, <1>2, <1>3, <1>4, <1>5 DEF Next

\* A call is unresolved only if nothing that reflection lists suits it.
THEOREM UnresolvedIsJustified == Spec => UnresolvedMeansNoMatch
  BY InvariantHolds, UnresolvedIsRight, PTL DEF Spec, UnresolvedMeansNoMatch
=============================================================================
