--------------------------- MODULE InterfaceProxy ---------------------------
(***************************************************************************)
(* Java interfaces implemented in Rust (interface.rs).  proxy bootstraps   *)
(* the shell class once per process, hands the handler to the shell's      *)
(* native constructor through a slot of the thread, and lets the JDK build *)
(* a proxy over the shell; shell_invoke routes the calls of the proxy.     *)
(*                                                                         *)
(* A handler is Rust code under a Java call: it may make proxies and call  *)
(* them itself, so a thread is in a stack of these operations.  The state  *)
(* of a shell is kept by userdata and used here as ObjectState promises.   *)
(***************************************************************************)
EXTENDS Naturals, Sequences

CONSTANTS
  Threads,
  Handlers,           \* the Rust closures
  Shells,             \* the shells that may be constructed, each with its proxy
  Declares,           \* what the interface! of each typed handler declares
  Methods,            \* the interface methods: name, parameter types, default
  Primitives, Object, \* the primitive types, and java.lang.Object
  BootstrapMayFail,   \* writing, loading or registering the shell may fail
  JniMayFail,         \* JNI calls, class look-ups and Proxy itself may fail
  MaxDepth,           \* bound: how deep the operations of a thread nest
  None

ASSUME InterfaceProxyAssumption ==
  /\ None \notin Threads \cup Handlers \cup Shells
  /\ \A m \in Methods : m.default \in BOOLEAN
  /\ DOMAIN Declares \subseteq Handlers
  /\ Object \notin Primitives
  /\ BootstrapMayFail \in BOOLEAN /\ JniMayFail \in BOOLEAN
  /\ MaxDepth \in Nat

VARIABLES
  java16,    \* the JVM has InvocationHandler.invokeDefault
  boot,      \* BOOTSTRAP, a LazyLock
  pending,   \* PENDING_HANDLER of each thread
  shell,     \* the life of each shell and of the proxy over it
  bound,     \* userdata: the handler bound to each shell
  held,      \* the proxies that Java or Rust code holds
  stack,     \* the operations each thread is in, outermost first
  madeWith   \* history: the handler a proxy was requested with

vars == <<java16, boot, pending, shell, bound, held, stack, madeWith>>

\* The methods that typed handlers declare.
Declared == UNION {{Declares[h][i] : i \in DOMAIN Declares[h]} : h \in DOMAIN Declares}

\* An operation of a thread: proxy(), a constructor run by Java code itself,
\* or a call of a proxy.
Frame ==
  [act : {"proxy"}, pc : {"bootstrap", "initialise", "arm", "construct", "clear"},
   handler : Handlers, shell : {None}, method : {None}]
  \cup
  [act : {"proxy"}, pc : {"init", "clear", "link"}, handler : Handlers,
   shell : Shells, method : {None}]
  \cup
  [act : {"new"}, pc : {"init"}, handler : {None}, shell : Shells, method : {None}]
  \cup
  [act : {"call"},
   pc : {"get", "route", "locate", "default", "arguments", "handler"},
   handler : Handlers \cup {None}, shell : Shells, method : Methods,
   ran : Declared \cup {None}]

Top(t) == stack[t][Len(stack[t])]
At(t, act, pc) == stack[t] # <<>> /\ Top(t).act = act /\ Top(t).pc = pc

\* Rust code of the application runs on t: outside of any operation, or in a
\* handler or a default method that an operation called.
Runs(t) == stack[t] = <<>> \/ At(t, "call", "handler") \/ At(t, "call", "default")

InUse(s) ==
  s \in held \/ \E t \in Threads : \E i \in 1..Len(stack[t]) : stack[t][i].shell = s

\* Ranges; an object somebody refers to was not collected.
TypeOK ==
  /\ java16 \in BOOLEAN
  /\ boot \in {"none", "running", "ok", "failed"}
  /\ pending \in [Threads -> Handlers \cup {None}]
  /\ shell \in [Shells -> {"unborn", "alone", "proxied", "collected"}]
  /\ bound \in [Shells -> Handlers \cup {None}]
  /\ held \subseteq {s \in Shells : shell[s] = "proxied"}
  /\ stack \in [Threads -> Seq(Frame)]
  /\ madeWith \in [Shells -> Handlers \cup {None}]
  /\ \A s \in Shells : InUse(s) => shell[s] \in {"alone", "proxied"}

Init ==
  /\ java16 \in BOOLEAN
  /\ boot = "none"
  /\ pending = [t \in Threads |-> None]
  /\ shell = [s \in Shells |-> "unborn"]
  /\ bound = [s \in Shells |-> None]
  /\ held = {}
  /\ stack = [t \in Threads |-> <<>>]
  /\ madeWith = [s \in Shells |-> None]

Push(t, f) ==
  /\ Runs(t)
  /\ Len(stack[t]) < MaxDepth
  /\ stack' = [stack EXCEPT ![t] = Append(@, f)]

\* The operation goes on as f, or returns.
Become(t, f) == stack' = [stack EXCEPT ![t] = [@ EXCEPT ![Len(stack[t])] = f]]
Go(t, pc) == Become(t, [Top(t) EXCEPT !.pc = pc])
Pop(t) == stack' = [stack EXCEPT ![t] = SubSeq(@, 1, Len(@) - 1)]

-----------------------------------------------------------------------------
(***************************************************************************)
(* The bootstrap: LazyLock runs it on the first thread that asks and lets  *)
(* the others wait; its outcome is kept, a failure too.                    *)
(***************************************************************************)

\* proxy (and proxy_typed once the declared interface was found).
StartProxy(t, h) ==
  /\ Push(t, [act |-> "proxy", pc |-> "bootstrap", handler |-> h,
              shell |-> None, method |-> None])
  /\ UNCHANGED <<java16, boot, pending, shell, bound, held, madeWith>>

StartBootstrap(t) ==
  /\ At(t, "proxy", "bootstrap")
  /\ boot = "none"
  /\ boot' = "running"
  /\ Go(t, "initialise")
  /\ UNCHANGED <<java16, pending, shell, bound, held, madeWith>>

BootstrapOutcomes == {"ok"} \cup (IF BootstrapMayFail THEN {"failed"} ELSE {})

\* The class file is written, loaded and its natives registered, or not.
EndBootstrap(t) ==
  /\ At(t, "proxy", "initialise")
  /\ boot' \in BootstrapOutcomes
  /\ Go(t, "bootstrap")
  /\ UNCHANGED <<java16, pending, shell, bound, held, madeWith>>

\* bootstrap_arc has the outcome; without an interface proxy fails after it.
UseBootstrap(t) ==
  /\ At(t, "proxy", "bootstrap")
  /\ \/ boot = "ok" /\ Go(t, "arm")
     \/ boot \in {"ok", "failed"} /\ Pop(t)
  /\ UNCHANGED <<java16, boot, pending, shell, bound, held, madeWith>>

-----------------------------------------------------------------------------
(***************************************************************************)
(* Making a proxy.                                                         *)
(***************************************************************************)

\* (A bug would be to have one slot for all threads.)
BugSlot(t) == CHOOSE u \in Threads : TRUE

\* PENDING_HANDLER is a thread_local!.
Slot(t) == t

Arm(t) ==
  /\ At(t, "proxy", "arm")
  /\ pending' = [pending EXCEPT ![Slot(t)] = Top(t).handler]
  /\ Go(t, "construct")
  /\ UNCHANGED <<java16, boot, shell, bound, held, madeWith>>

\* new_instance allocates a shell and runs its constructor, which calls init;
\* or it fails before that, with the handler still in the slot.
Construct(t) ==
  /\ At(t, "proxy", "construct")
  /\ \/ \E s \in Shells :
          /\ shell[s] = "unborn"
          /\ shell' = [shell EXCEPT ![s] = "alone"]
          /\ Become(t, [Top(t) EXCEPT !.pc = "init", !.shell = s])
     \/ JniMayFail /\ Go(t, "clear") /\ UNCHANGED shell
  /\ UNCHANGED <<java16, boot, pending, bound, held, madeWith>>

\* Java code constructs a shell of its own.
JavaConstructs(t, s) ==
  /\ boot = "ok"
  /\ shell[s] = "unborn"
  /\ shell' = [shell EXCEPT ![s] = "alone"]
  /\ Push(t, [act |-> "new", pc |-> "init", handler |-> None,
              shell |-> s, method |-> None])
  /\ UNCHANGED <<java16, boot, pending, bound, held, madeWith>>

\* The constructor returned, or threw: then nobody has the shell.
Constructed(t, ok) ==
  IF Top(t).act = "new"
    THEN Pop(t)
    ELSE Become(t, [Top(t) EXCEPT !.pc = "clear", !.shell = IF ok THEN @ ELSE None])

\* shell_init takes the slot of its thread and binds what it found; an empty
\* slot is an error, and so is a refused bind.
ShellInit(t) ==
  /\ At(t, "proxy", "init") \/ At(t, "new", "init")
  /\ pending' = [pending EXCEPT ![Slot(t)] = None]
  /\ \/ /\ pending[Slot(t)] # None
        /\ bound' = [bound EXCEPT ![Top(t).shell] = pending[Slot(t)]]
        /\ Constructed(t, TRUE)
     \/ /\ pending[Slot(t)] = None \/ JniMayFail
        /\ Constructed(t, FALSE)
        /\ UNCHANGED bound
  /\ UNCHANGED <<java16, boot, shell, held, madeWith>>

\* (A bug would be to return the constructor's error before clearing.)
BugClear(t) ==
  /\ At(t, "proxy", "clear")
  /\ IF Top(t).shell = None THEN Pop(t) ELSE Go(t, "link")
  /\ UNCHANGED <<java16, boot, pending, shell, bound, held, madeWith>>

\* The slot is emptied on every path; then the constructor's error returns.
Clear(t) ==
  /\ At(t, "proxy", "clear")
  /\ pending' = [pending EXCEPT ![Slot(t)] = None]
  /\ IF Top(t).shell = None THEN Pop(t) ELSE Go(t, "link")
  /\ UNCHANGED <<java16, boot, shell, bound, held, madeWith>>

\* The interfaces are loaded, a loader is chosen, and newProxyInstance makes
\* the proxy, which refers to its shell; where that fails the shell is left to
\* the collector.
Link(t) ==
  /\ At(t, "proxy", "link")
  /\ Pop(t)
  /\ \/ /\ shell' = [shell EXCEPT ![Top(t).shell] = "proxied"]
        /\ held' = held \cup {Top(t).shell}
        /\ madeWith' = [madeWith EXCEPT ![Top(t).shell] = Top(t).handler]
     \/ JniMayFail /\ UNCHANGED <<shell, held, madeWith>>
  /\ UNCHANGED <<java16, boot, pending, bound>>

MakeProxy(t) ==
  \/ StartBootstrap(t) \/ EndBootstrap(t) \/ UseBootstrap(t)
  \/ Arm(t) \/ Construct(t) \/ Clear(t) \/ Link(t)

-----------------------------------------------------------------------------
(***************************************************************************)
(* Calling a proxy.                                                        *)
(***************************************************************************)

\* Any code that has the proxy calls it: the JDK's proxy calls shell.invoke.
StartCall(t, s, m) ==
  /\ s \in held
  /\ Push(t, [act |-> "call", pc |-> "get", handler |-> None,
              shell |-> s, method |-> m, ran |-> None])
  /\ UNCHANGED <<java16, boot, pending, shell, bound, held, madeWith>>

\* userdata::get, and the method's name and parameter types.
GetHandler(t) ==
  /\ At(t, "call", "get")
  /\ \/ /\ bound[Top(t).shell] # None
        /\ Become(t, [Top(t) EXCEPT !.pc = "route", !.handler = bound[Top(t).shell]])
     \/ bound[Top(t).shell] = None /\ Pop(t)
  /\ UNCHANGED <<java16, boot, pending, shell, bound, held, madeWith>>

\* intercept_object_method.
Intercepts(m) ==
  \/ m.name \in {"toString", "hashCode"} /\ m.params = <<>>
  \/ m.name = "equals" /\ m.params = <<Object>>

\* interface! refuses to declare a reserved method: it could never be called.
ASSUME DeclaresAssumption ==
  \A h \in DOMAIN Declares : \A i \in DOMAIN Declares[h] :
    Declares[h][i] # None /\ ~Intercepts(Declares[h][i])

\* The library answers a reserved method itself.
Route(t) ==
  /\ At(t, "call", "route")
  /\ IF Intercepts(Top(t).method) THEN Pop(t)
     ELSE IF Top(t).method.default THEN Go(t, "locate")
     ELSE Go(t, "arguments")
  /\ UNCHANGED <<java16, boot, pending, shell, bound, held, madeWith>>

\* invoke_default runs the Java body of a default method, if the JVM can.
InvokeDefault(t) ==
  /\ At(t, "call", "locate")
  /\ IF java16 THEN Go(t, "default") ELSE Go(t, "arguments")
  /\ UNCHANGED <<java16, boot, pending, shell, bound, held, madeWith>>

\* (A bug would be to let a JObject take a primitive, as boxed.)
BugParamMatches(declared, actual) ==
  /\ Len(declared) = Len(actual)
  /\ \A i \in DOMAIN declared : declared[i] = Object \/ declared[i] = actual[i]

\* param_matches: a JObject is declared as java.lang.Object.
ParamMatches(declared, actual) ==
  /\ Len(declared) = Len(actual)
  /\ \A i \in DOMAIN declared :
       declared[i] = actual[i] \/ (declared[i] = Object /\ actual[i] \notin Primitives)

\* The arms of the generated dispatch that match, the first of which is taken.
Arms(h, m) ==
  {i \in DOMAIN Declares[h] :
     /\ Declares[h][i].name = m.name
     /\ ParamMatches(Declares[h][i].params, m.params)}

\* build_arg_values, and the handler is called.  A closure gets every call; a
\* typed handler runs the method it declares, or fails.
Dispatch(t) ==
  /\ At(t, "call", "arguments")
  /\ LET h == Top(t).handler
         arms == IF h \in DOMAIN Declares THEN Arms(h, Top(t).method) ELSE {}
     IN \/ h \notin DOMAIN Declares /\ Go(t, "handler")
        \/ \E i \in arms :
             /\ \A k \in arms : i <= k
             /\ Become(t, [Top(t) EXCEPT !.pc = "handler", !.ran = Declares[h][i]])
        \/ h \in DOMAIN Declares /\ arms = {} /\ Pop(t)
  /\ UNCHANGED <<java16, boot, pending, shell, bound, held, madeWith>>

\* A JNI call of shell_invoke, or the conversion of an argument, fails before
\* anything was called.
CallFails(t) ==
  /\ JniMayFail
  /\ \E pc \in {"get", "route", "locate", "arguments"} : At(t, "call", pc)
  /\ Pop(t)
  /\ UNCHANGED <<java16, boot, pending, shell, bound, held, madeWith>>

\* The handler or the default method ends: a value, an error or a panic, both
\* of which are thrown as exceptions.
CallReturns(t) ==
  /\ At(t, "call", "handler") \/ At(t, "call", "default")
  /\ Pop(t)
  /\ UNCHANGED <<java16, boot, pending, shell, bound, held, madeWith>>

-----------------------------------------------------------------------------
(***************************************************************************)
(* The end of a proxy.                                                     *)
(***************************************************************************)

\* The last reference of the application goes.
Release(s) ==
  /\ s \in held
  /\ held' = held \ {s}
  /\ UNCHANGED <<java16, boot, pending, shell, bound, stack, madeWith>>

Collect(s) ==
  /\ shell[s] \in {"alone", "proxied"}
  /\ ~InUse(s)
  /\ shell' = [shell EXCEPT ![s] = "collected"]
  /\ UNCHANGED <<java16, boot, pending, bound, held, stack, madeWith>>

\* (A bug would be to unbind whatever Java holds no proxy of: a shell under
\* construction too.)
BugDead(s) == s \notin held

\* userdata::drain_dead drops the handlers of collected shells.
Dead(s) == shell[s] = "collected"

Drain ==
  /\ \E s \in Shells : Dead(s) /\ bound[s] # None
  /\ bound' = [s \in Shells |-> IF Dead(s) THEN None ELSE bound[s]]
  /\ UNCHANGED <<java16, boot, pending, shell, held, stack, madeWith>>

Next ==
  \/ \E t \in Threads :
       \/ \E h \in Handlers : StartProxy(t, h)
       \/ \E s \in Shells : JavaConstructs(t, s)
       \/ \E s \in Shells, m \in Methods : StartCall(t, s, m)
       \/ MakeProxy(t)
       \/ ShellInit(t)
       \/ GetHandler(t)
       \/ Route(t)
       \/ InvokeDefault(t)
       \/ Dispatch(t)
       \/ CallFails(t)
       \/ CallReturns(t)
  \/ \E s \in Shells : Release(s) \/ Collect(s)
  \/ Drain

Spec == Init /\ [][Next]_vars

-----------------------------------------------------------------------------
(***************************************************************************)
(* Properties.                                                             *)
(***************************************************************************)

\* "the handler must not leak into the next construction on this thread": a
\* handler is in a slot only while the proxy() it was passed to constructs its
\* shell on that thread.
PendingIsOwn ==
  \A t \in Threads :
    pending[t] # None =>
      /\ At(t, "proxy", "construct") \/ At(t, "proxy", "init") \/ At(t, "proxy", "clear")
      /\ Top(t).handler = pending[t]

\* The handler of a proxy is the one it was requested with, from its making to
\* its collection, and that is the one a call runs, whatever other threads,
\* nested proxies and constructions by Java code do.
HandlerIsItsOwn ==
  /\ \A s \in Shells :
       shell[s] = "proxied" => madeWith[s] # None /\ bound[s] = madeWith[s]
  /\ \A t \in Threads : \A i \in 1..Len(stack[t]) :
       (stack[t][i].act = "call" /\ stack[t][i].handler # None) =>
         stack[t][i].handler = madeWith[stack[t][i].shell]

\* A Rust value of a declared type can be made of what arrives for a parameter
\* of an interface method: "no widening", and a JObject stands for any object.
Receives(declared, actual) ==
  IF declared \in Primitives \/ actual \in Primitives
    THEN declared = actual
    ELSE declared \in {actual, Object}

\* "the handler must never see" a default method that the JVM can run, nor a
\* reserved one; an overload of a reserved name is a method as any other; and a
\* typed handler runs a method of the name called that receives the arguments
\* passed, whichever of its methods come first.
RunsWhatWasCalled ==
  \A t \in Threads : \A i \in 1..Len(stack[t]) :
    LET f == stack[t][i]
        m == f.method
        Fits(d) == /\ d.name = m.name /\ Len(d.params) = Len(m.params)
                   /\ \A k \in DOMAIN d.params : Receives(d.params[k], m.params[k])
    IN f.act = "call" =>
         /\ f.pc \in {"default", "handler"} =>
              <<m.name, m.params>> \notin
                {<<"toString", <<>>>>, <<"hashCode", <<>>>>, <<"equals", <<Object>>>>}
         /\ f.pc = "default" => m.default
         /\ f.pc = "handler" =>
              /\ ~(m.default /\ java16)
              /\ f.handler \in DOMAIN Declares <=> f.ran # None
              /\ f.ran # None => Fits(f.ran)

\* InvocationHandlerShell.java: "constructing one of these shells any other way
\* fails".  A shell gets a handler only while a proxy() constructs it, and it
\* is the one passed to that proxy(), on whichever threads others do the same.
OnlyProxyBinds ==
  [][\A s \in Shells :
       (bound'[s] # bound[s] /\ bound'[s] # None) =>
         \E t \in Threads :
           At(t, "proxy", "init") /\ Top(t).shell = s /\ Top(t).handler = bound'[s]]_vars
=============================================================================
