----------------------------- MODULE DynamicCall -----------------------------
(***************************************************************************)
(* The call machinery (call.rs): a call, construction or field access made *)
(* by name.  The signature that the Rust types give is looked up first; if *)
(* the class has no such method, reflection looks for one that takes the   *)
(* arguments, boxed or unboxed where needed, and the call is made again.   *)
(* A Java exception is pending on the thread until it becomes an error.    *)
(*                                                                         *)
(* One thread, in a stack of accesses: Java code calls natives, which are  *)
(* Rust code and access Java in turn, and so do conversions (bean.rs).     *)
(***************************************************************************)
EXTENDS Naturals, Sequences, FiniteSets

CONSTANTS
  Primitives,
  WrapperOf,         \* the wrapper class of each primitive type
  Supers,            \* what each class is assignable to, itself included
  Object,            \* java.lang.Object
  Null, Void,        \* the null reference, and what a void method returns
  Members,           \* methods and constructors, some of one name
  Orders,            \* the orders in which reflection may list the public ones
  Fields,
  Requests,          \* the accesses that Rust code makes
  Exceptions, RuntimeException,
  JniMayFail,        \* JNI calls other than the invoked method may fail
  MaxDepth,          \* bound: how deep the stack gets
  None

Classes == DOMAIN Supers
Wrappers == {WrapperOf[p] : p \in Primitives}

ASSUME DynamicCallAssumption ==
  /\ WrapperOf \in [Primitives -> Classes]
  /\ Supers \in [Classes -> SUBSET Classes]
  /\ \A c \in Classes : {c, Object} \subseteq Supers[c]
  /\ {Null, Void} \cap (Primitives \cup Classes) = {}
  /\ Primitives \cap Classes = {}
  /\ \A m \in Members : /\ m.params \in Seq(Primitives \cup Classes)
                         /\ m.ret \in Primitives \cup Classes \cup {Void}
  /\ Orders \subseteq Seq(Members)
  /\ \A f \in Fields : f.type \in Primitives \cup Classes
  /\ \A r \in Requests : /\ {"form", "op", "args"} \subseteq DOMAIN r
                          /\ r.args \in Seq(Primitives \cup Classes \cup {Null})
  /\ RuntimeException \in Exceptions
  /\ None \notin Exceptions
  /\ JniMayFail \in BOOLEAN
  /\ MaxDepth \in Nat

VARIABLES
  order,     \* what getMethods and getConstructors list
  stack,     \* the accesses the thread is in, outermost first
  pending,   \* the exception pending on the thread
  left       \* history: the same, if a to_java left it so

vars == <<order, stack, pending, left>>

Types == Primitives \cup Classes \cup {Null, Void}

NoError == [kind |-> "none", class |-> None, context |-> FALSE]
Error(kind) == [kind |-> kind, class |-> None, context |-> FALSE]
JavaException(e) == [kind |-> "exception", class |-> e, context |-> FALSE]

Frame ==
  [pc : {"convert", "lookup", "resolve", "getter", "isGetter", "java", "native",
         "check", "value", "finish", "fail"},
   req : Requests \cup {[r EXCEPT !.form = "bound"] : r \in Requests},
   method : Members \cup {None},   \* what was invoked
   args : Seq(Types),              \* with which arguments,
   runs : 0..2,                    \* history: how many times,
   threw : Exceptions \cup {None}, \* history: and what it threw
   value : Types \cup {None},      \* what it returned
   \* the error of the access, and of the last one made within it
   err : [kind : {"none", "exception", "jni", "noField", "unresolved",
                  "conversion"},
          class : Exceptions \cup {None}, context : BOOLEAN]]

Top == stack[Len(stack)]
At(pc) == stack # <<>> /\ Top.pc = pc

\* from_java is called for what the access yields.
Yields(r) == r.op \in {"call", "get"} /\ r.form # "raw"

\* Rust code outside of the machinery runs: the application, a native method,
\* or a conversion.
RustRuns ==
  \/ stack = <<>>
  \/ At("native") \/ At("convert")
  \/ At("value") /\ Yields(Top.req)

TypeOK ==
  /\ order \in Orders
  /\ stack \in Seq(Frame)
  /\ pending \in Exceptions \cup {None}
  /\ left \in Exceptions \cup {None}

Init ==
  /\ order \in Orders
  /\ stack = <<>>
  /\ pending = None
  /\ left = None

Become(f) == stack' = [stack EXCEPT ![Len(stack)] = f]
Go(pc) == Become([Top EXCEPT !.pc = pc])
Fail(err) == Become([Top EXCEPT !.pc = "fail", !.err = err])
Push(f) == Len(stack) < MaxDepth /\ stack' = Append(stack, f)
Pop == stack' = SubSeq(stack, 1, Len(stack) - 1)

-----------------------------------------------------------------------------
(***************************************************************************)
(* Which member a call runs.                                               *)
(***************************************************************************)

\* java_args and java_return_type; java_arg_fragment for a raw call.
Fragments(r) ==
  IF r.form = "raw"
    THEN [i \in DOMAIN r.args |->
            IF r.args[i] \in Primitives THEN r.args[i] ELSE Object]
    ELSE r.frags

\* A value v of that class, or primitive, may be passed as a p.
Conforms(v, p) ==
  \/ v = p
  \/ v = Null /\ p \notin Primitives
  \/ v \in Classes /\ p \in Supers[v]

\* A Rust value becomes a Java value of the type that its Rust type stands for.
ASSUME RequestsAssumption ==
  \A r \in Requests :
    r.form # "raw" /\ r.op \in {"call", "new"} =>
      /\ r.frags \in Seq(Primitives \cup Classes) /\ Len(r.frags) = Len(r.args)
      /\ \A i \in DOMAIN r.args : Conforms(r.args[i], r.frags[i])

ReturnFragment(r) == IF r.op # "new" /\ r.form = "raw" THEN Object ELSE r.ret

\* GetMethodID compares the whole signature, the return type included.
Exactly(r) ==
  {m \in Members : /\ m.name = r.name
                   /\ m.static = r.static
                   /\ m.params = Fragments(r)
                   /\ m.ret = ReturnFragment(r)}

\* (A bug would be to let null match any parameter.)
BugExact(a, p) ==
  \/ a \in Primitives /\ p = a
  \/ a = Null
  \/ a \in Classes /\ p \in Supers[a]

\* arg_matches_param.
Exact(a, p) ==
  \/ a \in Primitives /\ p = a
  \/ a = Null /\ p \notin Primitives
  \/ a \in Classes /\ p \in Supers[a]

\* is_boxable_param_class, box_primitive.
Boxes(a, p) == a \in Primitives /\ p \in Wrappers \cup {Object}

\* unbox_primitive: the exact wrapper of the parameter.
Unboxes(a, p) == p \in Primitives /\ a = WrapperOf[p]

\* match_param_classes.
Accepts(params, args) ==
  /\ Len(params) = Len(args)
  /\ \A i \in DOMAIN args :
       \/ Exact(args[i], params[i])
       \/ Boxes(args[i], params[i])
       \/ Unboxes(args[i], params[i])

\* The arguments of the second attempt.
Adjusted(params, args) ==
  [i \in DOMAIN args |->
     CASE Exact(args[i], params[i]) -> args[i]
       [] Boxes(args[i], params[i]) -> WrapperOf[args[i]]
       [] OTHER -> params[i]]

\* (A bug would be to give up at a candidate of the other kind.)
BugCandidates(r) ==
  LET named == {i \in DOMAIN order : /\ order[i].name = r.name
                                     /\ Accepts(order[i].params, r.args)}
  IN {i \in named : \A j \in named : j <= i => order[j].static = r.static}

\* resolve_exact_method_sig, resolve_exact_ctor_sig: reflection lists public
\* members; GetMethodID and GetStaticMethodID find those of their own kind.
Candidates(r) ==
  {i \in DOMAIN order :
     /\ order[i].name = r.name
     /\ Accepts(order[i].params, r.args)
     /\ order[i].static = r.static}

-----------------------------------------------------------------------------
(***************************************************************************)
(* An access, until Java code runs.                                        *)
(***************************************************************************)

\* A raw access has its arguments as Java values.
StartAccess(r) ==
  /\ RustRuns
  /\ Push([pc |-> IF r.form = "raw" THEN "lookup" ELSE "convert", req |-> r,
           method |-> None, args |-> <<>>, runs |-> 0, threw |-> None,
           value |-> None, err |-> NoError])
  /\ UNCHANGED <<order, pending, left>>

\* What Rust code may fail with: the error of an access it made, or its own.
OwnErrors == {Error("conversion")} \cup (IF JniMayFail THEN {Error("jni")} ELSE {})
LastError == {Top.err} \ {NoError}

\* What the JNI calls that a conversion makes itself (new_string, say, or
\* new_object_array) leave pending; they raise nothing on top of an exception.
Leaves == IF JniMayFail /\ pending = None THEN Exceptions \cup {None} ELSE {pending}

\* to_java; what it leaves is not looked at.
ConvertArgs ==
  /\ At("convert")
  /\ \/ Become([Top EXCEPT !.pc = "lookup", !.err = NoError])
     \/ \E err \in LastError \cup OwnErrors : Fail(err)
  /\ pending' \in IF Top.req.args = <<>> THEN {pending} ELSE Leaves
  /\ left' = pending'
  /\ UNCHANGED order

Invoke(m, args) ==
  Become([Top EXCEPT !.pc = "java", !.method = m, !.args = args, !.runs = @ + 1])

\* The first attempt of call_method, call_static_method, new_object.
LookUp ==
  /\ At("lookup") /\ Top.req.op \in {"call", "new"} /\ pending = None
  /\ \/ \E m \in Exactly(Top.req) : Invoke(m, Top.req.args)
     \/ Exactly(Top.req) = {} /\ Go("resolve")
  /\ UNCHANGED <<order, pending, left>>

\* The reflection fallback and the second attempt: the first member that fits.
Resolve ==
  /\ At("resolve")
  /\ \/ \E i \in Candidates(Top.req) :
          /\ \A j \in Candidates(Top.req) : i <= j
          /\ Invoke(order[i], Adjusted(order[i].params, Top.req.args))
     \/ Candidates(Top.req) = {} /\ Fail(Error("unresolved"))
  /\ UNCHANGED <<order, pending, left>>

ReturnedBy(type) ==
  IF type \in Classes THEN {c \in Classes : type \in Supers[c]} \cup {Null} ELSE {type}

\* get_field, set_field and the static ones: the exact type or FieldNotFound.
\* A bool field of a bound class has accessors instead.
AccessField ==
  /\ At("lookup") /\ Top.req.op \in {"get", "set", "bool"} /\ pending = None
  /\ LET r == Top.req
         found == {f \in Fields : /\ f.name = r.name
                                  /\ f.static = r.static
                                  /\ f.type = IF r.op = "set" THEN r.frags[1] ELSE r.ret}
     IN \/ found # {} /\ r.op = "set" /\ Pop
        \/ /\ r.op # "set"
           /\ \E f \in found : \E v \in ReturnedBy(f.type) :
                Become([Top EXCEPT !.pc = "value", !.value = v])
        \/ /\ found = {} /\ r.op = "bool"
           /\ Become([Top EXCEPT !.pc = "getter", !.req.form = "bound"])
        \/ found = {} /\ r.op # "bool" /\ Fail(Error("noField"))
  /\ UNCHANGED <<order, pending, left>>

\* instance_bool_field_get: get<Name>(), and is<Name>() if there is none.
TryAccessor ==
  /\ At("getter") \/ At("isGetter")
  /\ LET found == {m \in Members : /\ m.name = Top.req.accessor[Top.pc]
                                   /\ ~m.static
                                   /\ m.params = <<>>
                                   /\ m.ret = Top.req.ret}
     IN \/ \E m \in found : Invoke(m, <<>>)
        \/ found = {} /\ At("getter") /\ Go("isGetter")
        \/ found = {} /\ At("isGetter") /\ Fail(Error("jni"))
  /\ UNCHANGED <<order, pending, left>>

\* A look-up throws (a static initialiser fails, say) or fails.
LookUpFails ==
  /\ JniMayFail /\ pending = None
  /\ At("lookup") \/ At("resolve") \/ At("getter") \/ At("isGetter")
  /\ \/ /\ \E e \in Exceptions : pending' = e
        /\ Go("check")
     \/ Fail(Error("jni")) /\ UNCHANGED pending
  /\ UNCHANGED <<order, left>>

\* With an exception pending already the JNI call fails, and with_check sees the
\* exception; or the reference that a bound call first makes to its object is
\* refused, which nothing checks.
LookUpRefused ==
  /\ At("lookup") /\ pending # None
  /\ \/ Go("check")
     \/ Top.req.form = "bound" /\ Fail(Error("jni"))
  /\ UNCHANGED <<order, pending, left>>

-----------------------------------------------------------------------------
(***************************************************************************)
(* The Java code that was called, and the natives it calls.                *)
(***************************************************************************)

BodyReturns ==
  /\ At("java") /\ pending = None
  /\ \E v \in ReturnedBy(Top.method.ret) :
       Become([Top EXCEPT !.pc = "check", !.value = v])
  /\ UNCHANGED <<order, pending, left>>

\* The body throws an exception of its own, or one that a native left it with.
BodyThrows(e) ==
  /\ At("java") /\ pending \in {None, e}
  /\ pending' = e
  /\ Become([Top EXCEPT !.pc = "check", !.threw = e])
  /\ UNCHANGED <<order, left>>

BodyCatches ==
  /\ At("java") /\ pending # None
  /\ pending' = None
  /\ UNCHANGED <<order, stack, left>>

EnterNative ==
  /\ At("java") /\ pending = None
  /\ Go("native")
  /\ UNCHANGED <<order, pending, left>>

NativeReturns ==
  /\ At("native")
  /\ Become([Top EXCEPT !.pc = "java", !.err = NoError])
  /\ left' = None
  /\ UNCHANGED <<order, pending>>

\* throw_error: an exception without context keeps its class, if that is found,
\* which it is not with another one pending; that one is dropped.
Thrown(err) ==
  (IF err.kind = "exception" /\ ~err.context /\ pending = None
     THEN {err.class} ELSE {RuntimeException})
  \cup (IF JniMayFail THEN {RuntimeException, None} ELSE {})

\* dispatch and its trampoline: arguments that do not convert, an error of the
\* function, or a panic.
NativeFails ==
  /\ At("native")
  /\ \E err \in LastError \cup OwnErrors \cup {JavaException(e) : e \in Exceptions} :
       pending' \in Thrown(err)
  /\ Become([Top EXCEPT !.pc = "java", !.err = NoError])
  /\ left' = None
  /\ UNCHANGED order

-----------------------------------------------------------------------------
(***************************************************************************)
(* The end of an access.                                                   *)
(***************************************************************************)

\* (A bug would be to look at the exception only where the JNI call failed.)
BugCheckErrorsOnly ==
  /\ At("check")
  /\ IF pending # None /\ Top.method = None
       THEN Fail(JavaException(pending)) ELSE Go("value")
  /\ pending' = None /\ left' = None
  /\ UNCHANGED order

\* (A bug would be to look up and call again after any failure.)
BugRetry ==
  /\ At("check")
  /\ CASE pending = None -> Go("value")
       [] pending # None /\ Top.req.op = "call" /\ Top.runs < 2 -> Go("resolve")
       [] OTHER -> Fail(JavaException(pending))
  /\ pending' = None /\ left' = None
  /\ UNCHANGED order

\* with_check, capture_exception.
Check ==
  /\ At("check")
  /\ IF pending # None THEN Fail(JavaException(pending)) ELSE Go("value")
  /\ pending' = None /\ left' = None
  /\ UNCHANGED order

\* from_java of the annotated type.
Converts(r, v) ==
  \/ ~Yields(r)
  \/ r.ret = Void
  \/ r.ret \in Primitives /\ v = r.ret
  \/ r.ret \in Classes /\ v \in Classes /\ r.ret \in Supers[v]
  \/ v = Null /\ r.opt

\* from_java fails if the type or the value is refused (a char that is half a
\* pair, say); either way it may leave an exception.
ConvertValue ==
  /\ At("value")
  /\ \E err \in (IF Converts(Top.req, Top.value) THEN {NoError} ELSE {})
               \cup (IF Yields(Top.req) THEN {Error("conversion")} \cup LastError ELSE {})
               \cup (IF JniMayFail THEN {Error("jni")} ELSE {}) :
       Become([Top EXCEPT !.pc = "finish", !.err = err])
  /\ pending' \in IF Yields(Top.req) THEN Leaves ELSE {pending}
  /\ UNCHANGED <<order, left>>

\* (A bug would be to look at the exception only where the conversion failed.)
BugFinish ==
  /\ At("finish")
  /\ CASE Top.err = NoError -> Pop /\ UNCHANGED <<pending, left>>
       [] pending # None -> Fail(JavaException(pending)) /\ pending' = None /\ left' = None
       [] OTHER -> Go("fail") /\ UNCHANGED <<pending, left>>
  /\ UNCHANGED order

\* finish: the exception that a conversion left is the error of the access.
Finish ==
  /\ At("finish")
  /\ CASE pending # None -> Fail(JavaException(pending))
       [] pending = None /\ Top.err # NoError -> Go("fail")
       [] OTHER -> Pop
  /\ pending' = None /\ left' = None
  /\ UNCHANGED order

\* operation_context; bind.rs and the raw calls add none.
GetsContext(f) == f.req.form = "dynamic" /\ f.err.kind # "noField"
InContext(f) == IF GetsContext(f) THEN [f.err EXCEPT !.context = TRUE] ELSE f.err

\* The error is returned to the Rust code below, which may pass it on.  To name
\* the operation the class of the object is asked for: if the JVM gives a
\* reference to it, with_check finds an exception that is pending and drops it.
Failed ==
  /\ At("fail")
  /\ LET below == SubSeq(stack, 1, Len(stack) - 1)
     IN stack' = IF below = <<>> THEN <<>>
                 ELSE [below EXCEPT ![Len(below)].err = InContext(Top)]
  /\ \/ UNCHANGED <<pending, left>>
     \/ /\ GetsContext(Top) /\ ~Top.err.context
        /\ pending' = None /\ left' = None
  /\ UNCHANGED order

Next ==
  \/ \E r \in Requests : StartAccess(r)
  \/ ConvertArgs \/ LookUp \/ Resolve \/ AccessField \/ TryAccessor
  \/ LookUpFails \/ LookUpRefused
  \/ \E e \in Exceptions : BodyThrows(e)
  \/ BodyReturns \/ BodyCatches \/ EnterNative \/ NativeReturns \/ NativeFails
  \/ Check \/ ConvertValue \/ Finish \/ Failed

Spec == Init /\ [][Next]_vars

-----------------------------------------------------------------------------
(***************************************************************************)
(* Properties.                                                             *)
(***************************************************************************)

\* "one failed call never poisons the thread for the next": no exception is
\* pending while Rust code outside of the machinery runs, but for one that a
\* to_java left (no finish follows it).
NeverPoisoned == RustRuns => pending \in {None, left}

\* An access runs Java code once at most, however it looks the method up, and
\* ends as that code did: an exception of it is the error, and without one
\* there is a value to convert.
ReportsTheInvocation ==
  \A i \in 1..Len(stack) :
    LET f == stack[i] IN
    /\ f.runs <= 1
    /\ f.pc \in {"value", "finish"} => f.threw = None
    /\ f.pc = "fail" /\ f.threw # None =>
         f.err.kind = "exception" /\ f.err.class = f.threw

\* The conversions that the docs promise: boxing for Object (and the own
\* wrapper), unboxing of the exact wrapper, no widening.
Suits(a, p) ==
  \/ Conforms(a, p)
  \/ a \in Primitives /\ p \in {Object, WrapperOf[a]}
  \/ p \in Primitives /\ a = WrapperOf[p]

\* The method that runs is of the name and kind that was asked for, and gets
\* arguments of its parameter types; but see ArgumentsFit.
Asked(m, r, args) ==
  /\ m.name = r.name /\ m.static = r.static
  /\ Len(m.params) = Len(args)
  /\ \A i \in DOMAIN args :
       \/ Conforms(args[i], m.params[i])
       \/ r.args[i] \in Primitives /\ m.params[i] \in Wrappers

RunsWhatWasAsked ==
  At("java") /\ Top.req.op # "bool" => Asked(Top.method, Top.req, Top.args)

\* "a type/arity mismatch" is "an InvalidArgument": no argument of another
\* type than the parameter gets to Java.
ArgumentsFit ==
  At("java") =>
    \A i \in DOMAIN Top.args : Conforms(Top.args[i], Top.method.params[i])

\* A call fails as unresolved only if the class has no public member of that
\* name and kind that the documented conversions let take the arguments, in
\* whatever order reflection lists them.
NothingSuits ==
  ~ \E i \in DOMAIN order :
      /\ order[i].name = Top.req.name /\ order[i].static = Top.req.static
      /\ Len(order[i].params) = Len(Top.req.args)
      /\ \A j \in DOMAIN Top.req.args : Suits(Top.req.args[j], order[i].params[j])

GivesUpRightly ==
  (At("resolve") /\ Top'.pc = "fail" /\ Top'.err.kind = "unresolved") => NothingSuits

UnresolvedMeansNoMatch == [][GivesUpRightly]_vars

\* "A pending Java exception is the ground truth": it goes only where Java
\* catches it or into the error of the access that was checked, but for one
\* that a to_java left, which the text of another error may cost.
Reported ==
  pending \notin {None, left} /\ pending' # pending =>
    \/ At("java") /\ stack' = stack
    \/ /\ Top'.pc = "fail"
       /\ Top'.err.kind = "exception" /\ Top'.err.class = pending

ExceptionIsReported == [][Reported]_vars

=============================================================================
