# Formal models of rjava

TLA+ models, TLC runs and TLAPS proofs for `rjava`, a Rust crate that drives a
JVM through JNI.  Source paths are relative to the repository root; the crate
is `src/`, so that `future.rs` below is `src/src/future.rs`.

## 1. Inventory

| Component | State it keeps | Operations | Interacts through |
|---|---|---|---|
| `java_future` (`future.rs`) | `Arc<Mutex<State>>`: Unstarted, Waiting(waker), Done(outcome) | `poll`, drop, `worker_thread` | one std thread per future, blocked in `CompletableFuture.get()`; the executor's wakers |
| `call_async`, `call_static_async` (`java.rs`) | the same cell | `poll`, drop, `async_call_worker` | the blocking pool of a current tokio runtime, else a std thread; the call machinery |
| `rx::from_callback` (`rx.rs`) | the same cell, an mpsc channel | `from_callback`, `poll`, drop, `worker_thread` | the handler of an interface proxy, called on Java threads |
| `async_native!` (`future.rs`) | per call: a Java `CompletableFuture` | trampoline, `AsyncAdapter::call`, two workers, completion | Java callers, a std thread or two tokio tasks |
| userdata (`userdata.rs`) | `REGISTRY`: identity hash to weak reference and `Arc<dyn Any>`; `CLEANER` | `bind`, `get`, `with`, `unbind`, `create_shell`, cleaner tick | one mutex; the garbage collector |
| native registration (`native.rs`, `handles.rs`, `call.rs`, `future.rs`) | `NATIVE_REGISTRY`: trampoline to callable; the JVM's bindings | `native!`, `async_native!`, `register_natives`, trampolines | `RegisterNatives`, reflection |
| `interface::proxy` (`interface.rs`) | `BOOTSTRAP`, `PENDING_HANDLER` of each thread, userdata bindings | `proxy`, `proxy_typed`, `shell_init`, `shell_invoke` | userdata, explicit natives, the JDK's Proxy |
| JVM facade, attachment (`java.rs`, `handles.rs`) | the process's JVM, thread attachments, `JVM_CREATE_LOCK` | `build`, `with_env`, `attach_thread`, drop of `JavaThread` | every other component attaches through it |
| call machinery (`call.rs`) | none beyond the pending exception of a thread | `with_check`, `call_method`, constructors, fields, reflection fallback | JNI |
| serde and bean mapping (`serde.rs`, `bean.rs`) | none that outlives a call; Java objects it builds or reads | `JavaMap`, `JavaBean`, `from_object` | the call machinery, reflection |
| conversions, arrays (`convert.rs`, `array.rs`, `call.rs`, `handles.rs`) | the Java arrays and fields they write | `FromJava`, `ToJava`, creation of arrays, `JArray::get` and `set`, whole copies, field access | JNI; Java code that writes the same arrays |
| `bind!` (`bind.rs`, `rjava-macros`) | `CLASS`, the class of each wrapper | `class`, `new`, generated forwarding | the facade, the class loaders of the JVM, the call machinery |
| class loaders, errors, macros | none that outlives a call | forwarding | the call machinery |

What is hard here, and what makes each component correct:

* **the cell of the three bridges** is written by a worker while it is polled,
  moved between tasks and dropped.  No wake-up may be lost, the outcome must be
  in exactly one place, a finished future must not finish twice;
* **event sources** complete before, between and after polls: Java completes,
  fails or cancels; a listener fires twice or is collected; a runtime shuts
  down with a worker queued;
* **async natives** owe Java a completed future whatever the function, its
  conversion and the runtime do;
* **userdata** is keyed by a hash that is neither unique nor stable under
  collection, while the collector runs between any two JNI calls, under the
  lock too.  An object must only ever see its own state, the state must go
  with the object, and no operation may block for ever;
* **native registration** is checked against a registry that other threads
  change, and fails half-way through a batch;
* **interface proxies** pass the handler through a thread-local slot, from one
  Rust frame through Java to another, with calls of other proxies in between;
* **calls** share one pending exception per thread with everything below them,
  and are made a second time after a failed look-up.  The exception must become
  the error of the access that raised it, and no method may run twice;
* **mapping** builds and takes apart objects piece by piece: nothing may be
  skipped, mixed up, made up or left half filled;
* **attachment guards** nest and move between threads, native methods drop them
  under an operation, and two threads may create the JVM at once.  No build may
  fail because of another, no thread may be detached under an operation;
* **the class of a wrapper** is looked up by whichever threads come first, whose
  class loaders may have different classes of the name.  All must use one;
* **arrays** are written by the Rust type of the moment, checked by JNI in part
  only, and copied element by element while Java writes them.  Nothing ill-typed
  may get into the JVM, no write may change what it wrote.

`PROJECT.json` lists every component, also those not modelled, and under
`hazards` each of these points at its line.

## 2. Modules

| Module | Models | Built on |
|---|---|---|
| `OneShot` | the promise of an awaitable bridge: an outcome fixed once, delivered at most once, never after the future was dropped | |
| `BridgeCell` | the cell and its two sides, shared by the three bridges | refines `OneShot` |
| `JavaFuture` | `java_future`: completion, `get()`, conversion, unwrapping | `EXTENDS BridgeCell` |
| `CallbackFuture` | `rx::from_callback`: channel, handler, receiver | `EXTENDS BridgeCell` |
| `AsyncCall` | `call_async`: where the worker runs, the call, the runtime | `EXTENDS BridgeCell` |
| `AsyncNative` | one async native call: trampoline, workers, completion | |
| `ObjectState` | the promise of userdata: state attached to objects | |
| `UserData` | registry, mutex, collector, cleaner | refines `ObjectState` |
| `InterfaceProxy` | bootstrap, the handler's way into a shell, routing, typed dispatch, the life of a proxy | refines `ObjectState` (with a history of look-ups) |
| `NativeRegistry` | registry, batch check, `RegisterNatives`, retry | |
| `DynamicCall` | calls, constructions, field accesses; signature look-up and reflection; exceptions; natives | |
| `JavaTree` | Rust and Java values, and how the first become the second | |
| `BeanMapping` | beans, records and value trees, written and read | `EXTENDS JavaTree` |
| `JvmAttach` | creation of the JVM, operations, attachment guards | |
| `BoundClass` | the class cache of a `bind!` wrapper on those threads | `EXTENDS JvmAttach` |
| `JavaTypes` | Java and Rust types: signatures, element classes, what converts to what | |
| `JArrays` | fields and arrays: made, read, written and copied by Rust while Java writes | `EXTENDS JavaTypes` |
| `Bridges_proofs` | theorems about `BridgeCell`, `JavaFuture`, `CallbackFuture` and `AsyncCall` | TLAPS |
| `Natives_proofs` | theorems about `NativeRegistry` and about `AsyncNative` | TLAPS |
| `UserData_proofs`, `InterfaceProxy_proofs`, `DynamicCall_proofs`, `JArrays_proofs`, `BeanMapping_proofs` | theorems about one module each | TLAPS |
| `JvmAttach_proofs` | theorems about `JvmAttach` and `BoundClass` | TLAPS |
| `MC*` | the small instances the runs use | |

### Correspondence

**BridgeCell.** `state`, `waker` and `outcome` are the `State` enum (the waker
exists in `Waiting` only, the outcome in `Done` only: a part of `CellTypeOK`);
`mutex` is its `Mutex`.  A poll holds the mutex from `PollEnter` to the step
that returns, and the thread it spawns already runs while it goes round its
loop: hence `PollSpawn` and `PollPending` are two steps.  `WorkerStore` is the
critical section of `worker_thread` and `WorkerWake` what it does after the
unlock.  `owner`, `scheduled`, `ret` and `returned` describe the code around
the future: which task owns it, which tasks its executor will run, what polls
returned.  `Move` gives the future to another task, `Drop` drops it.  Polls may
be spurious, as they are below `join` and `select`.

**JavaFuture** adds `cf`, the Java future, completed once by any of
`Completions`, and `annotation`, the kind of `T`.  `ConvertValue` and
`ExceptionError` are `convert_value` with `unbox_for_annotation`, and
`exception_error`.  **CallbackFuture** adds the channel; `ReceiverAlive` says
where the `Receiver` is owned: the unstarted future, then the worker.
**AsyncCall** adds `place`, where the worker's closure is, and the runtime;
`calls` and `answer` are history variables that record the invocation itself.

**AsyncNative** has one record of each variable per call.  `worker` goes from
`running` to `complete` or `fail` on a thread, and by `queued`, `running`,
`joined` on the outer task; `lost` is a worker that ended without having
completed the future.  A caller inside the runtime keeps one of its threads
(`FreeThread`).

**UserData.** An operation is a `pc` per thread: `hash` (before the lock),
`check` and `store` (under it).  The mutex is taken in `LockAndDrain` and
released where the guard is dropped.  An operation's handle keeps its object
alive (`InUse`); everything else may be collected at any step.  A state in
`Reentrant` has a `Drop` that calls userdata: when it leaves the registry its
thread may get stuck with the mutex held.

**InterfaceProxy.** A thread is in a stack of operations, since a handler is
Rust code under a Java call that may make and call proxies itself: a frame is a
`proxy()`, a constructor run by Java code, or a call of a proxy.  `pending` is
`PENDING_HANDLER`, one slot per thread; `Arm`, `Construct`, `ShellInit` and
`Clear` are the block of `proxy` that passes the handler to the shell's native
`init` and empties the slot on every path.  `bound` is userdata as
`ObjectState` promises it: the state of a live object is its own, that of a
collected one goes with `Drain`.  A shell is `alone` until the JDK's proxy
refers to it, and what the frames and the application refer to is not
collected.  `madeWith` is a history variable.  A call goes through `get` (the
handler of the shell), `route` (reserved methods, `isDefault`), `locate`
(`invoke_default`, which `java16` says whether the JVM has) and `arguments`, to
the `default` body or the `handler`.  A handler in `DOMAIN Declares` is one that
`proxy_typed` made: `Declares[h]` lists what its `interface!` declares, in its
order, and `Arms` and `Dispatch` are the `match` that the macro generates.
`RunsWhatWasCalled` holds that against `Receives`, what a declared type may be
made of.

**NativeRegistry.** `built` are the descriptors, `registry` is
`NATIVE_REGISTRY`, `bound` is what the JVM jumps to, and an operation is one
`register_natives` call.  `Fit` says how a callable's signature matches a Java
method: `otherReturn` -- name and parameters are the same, the return types
differ -- is the case the reflection retry corrects for a generic callable,
whatever the method returns.  `later` and
`ran` are history variables: which callables were built since a method was
registered, and what the last native call ran.

**DynamicCall.** One thread and its `stack` of accesses.  A frame is one access
on its way: `convert` (arguments), `lookup` (by the signature of the Rust
types), `resolve` (by reflection), `java` (the method runs), `native` (it called
a native method, whose Rust code may push further accesses), `check`
(`capture_exception`), `value` (`from_java` of what came back), `finish` (the
check that follows it, for an exception that the conversion left) and `fail`
(the error is on its way, with or without context).  `getter` and `isGetter` are
the two accessors of a bound boolean field.  `pending` is the JVM's exception
slot of the thread, and may be filled by the method, by a look-up and by the JNI
calls that `to_java` and `from_java` make themselves (`Leaves`); `left` is a
history variable and says that it was a `to_java`, which nothing checks.  `order`
is what reflection lists, in an order that is chosen once.  A request is `dynamic`
(`JObject::call` and its relatives), `bound` (`bind!`) or `raw` (the untyped
form that the bean mapping uses).  `runs` and `threw` are history variables: how
often the access ran Java code, and what that code threw. `Accepts` and
`Candidates` are `match_param_classes` and `resolve_exact_method_sig`; the
property `UnresolvedMeansNoMatch` holds them against `Suits`, the conversions
that the README promises.

**JavaTree and BeanMapping.** A Rust type is a record with its kind, a value a
tuple of its kind or class and its contents; a struct has the sequence of its
fields' values, by position.  `Types` is the set of types a program maps, closed
under the types they are made of, `Depth` how deep each nests.  `Half` gives the
widths of the integer types, `u32` stands for all unsigned types but `u8`, `i8`
for `i16` too; the key of a map is a scalar.  `Numbers` are the numbers and
`Cast` is Rust's `as f32` and `as f64` on them, which serde's visitors of the
float types apply to whatever number they are given: a `long` that no double
equals is rounded, a double past the floats becomes an infinity, which is a
number larger than they are (a NaN is left out).  `FloatsAssumption` says what
the casts have to be: of two numbers the larger one does not become the smaller,
a float stays itself, and a float is a double too.  serde derives what a type
does from what its parts do, and so do the definitions: `Ser[t]` is `SerOf` of
the type and the `Ser` of its parts, and `Values`, `Writer`, `Reader` and
`Shows` are made in the same way, as recursive functions over `Types`.  `Ser` is
`JavaSerializer`; the three fields of `Writer` are the three serializers of
`bean.rs`; `Build` is `build_bean` with `build_record`; the two fields of
`Reader`, `De` and `ReadBean`, are the two deserializers. `Classes` is what
reflection finds: record components, constructor, setters and getters, which may
throw.  The mapping is sequential and its recursion is over data, so the state
machine is short: a value is written, or made by Java, then read.  `Shows` is
the reference: which Java value may stand for which Rust value, by the type
table of `serde.rs` and the contract of `bean.rs`.  The visitors that serde
derives are external.

What is assumed of Java's classes is `ClassesAssumption`: each is a record or
has the accessors of a JavaBean, `get<Name>`, `is<Name>` and `set<Name>` are
accessors of one property, two setters of different names set different ones,
and no setter or component has the name of the reserved key.  Accessors and
constructors may be missing, throw, or take other types.  A class that breaks
this may return anything from `getName()`, and no mapping could tell.

**JvmAttach.** `jvms` counts what `JNI_CreateJavaVM` made, `singleton` is what
jni-rs knows of it, and `lock` is `JVM_CREATE_LOCK`; `CheckSingleton` and
`CreateJvm` are the two halves of `JavaVM::new`, which is why the lock is
needed.  `depth` counts the `with_env` closures on a thread's stack and `inJava`
says whether the innermost one runs or a native method under it, which is code
of the program again and may build, attach, or drop guards.  A guard has a
`home`, the thread it attached, and a `holder`, the thread it moved to;
`disturbed` is history.  `hosts` is empty for a Rust program and `HostThreads`
for a library that a Java process loaded.

**BoundClass.** `cache` is the `OnceLock` that `bind!` generates for a wrapper;
`GetClass`, `FindClassGlobal` and `GetOrInit` are the three lines of its
`class()`, between which other threads run.  `Visible` is what `FindClass`
answers: on a thread with a native method under the operation it asks that
method's class loader, which may have any class of the name, and else the
system's.

**JavaTypes and JArrays.** A Java type is a descriptor, a Rust type a term:
`VecOf(Ty("String"))` is `Vec<String>`.  `ReturnType`, `JavaArgs`, `ElementSig`
and `ElementClass` are the four places where the code derives the Java type,
`ToJava`, `FromJava` and `CastToArray` the conversions.  `JavaType`, `Denotes`
and `Denotable` are the reference: the type table of the crate's documentation,
and which Java value denotes which Rust value.  `JArrays` has one Java object
with a field, `heap` with the arrays, `held`, the `JArray` that Rust keeps, and
`op`, the access in progress or just over.  A copy out of an array reads one
element in each step (`CopyElement`), since Java code may write between any two;
what is written to Java is complete before Java can see it, so a write is one
step.  A Rust type has three layers, each with its conversion: single values,
their `Option`s, and `Vec`s of these, which may again be in an `Option`.

## 3. Runs

| Run | Question | Bounds |
|---|---|---|
| `java_future` | Is any wake-up or outcome lost, is the cell a one-shot future, and is what a poll returns what Java did? | 3 tasks, 3 values and null, 3 exceptions, 4 annotations |
| `callback_future` | Does the first event win every race? | 2 tasks, 2 events, `MaxEvents` 2 |
| `async_call` | Is the method entered once and its answer delivered? | a task in, a task out of the runtime |
| `async_native` | Is every future completed as the function ended? | a call on a thread, a call on tasks, one runtime thread |
| `userdata` | Does the registry implement state attached to objects, do operations return, is dead state released? | 2 threads, 2 objects with one hash, 2 states of different types, one with a re-entrant `Drop` |
| `interface_proxy` | Does every proxy run its own handler, and of it the method that was called, and is no handler left behind? | 2 threads, a closure and a typed handler, 2 shells, nesting 2, 5 methods, both ages of the JVM |
| `native_registry` | What is bound and accepted after a batch? | 3 callables (2 of one signature), 3 methods (one of a foreign signature), `MaxBatch` 2 |
| `dynamic_call` | Is every exception reported, once and by the right access, and does every request run what it asked for? | `MaxDepth` 2, 2 primitives and wrappers, 7 members of 4 names, 6 orders, 13 requests, 2 exceptions |
| `bean_mapping` | Is what Java gets all of the value, and what is read what Java has? | integers of 4 to 16 values, floats of one and of two bits, about 50 types, 10 classes, about 800 values, 20 more made by Java, each read as every type |
| `jvm_attach` | Do racing builds end with the one JVM, does an operation keep its attachment, do all accesses of a wrapper use one class? | 2 threads, one of which may be a Java host's, 2 guards, `MaxDepth` 2, 2 classes of one name |
| `arrays` | Is what gets into the JVM of its type, does a write leave what it was given, does a read return what is there? | 14 field types, 23 Rust types, arrays of 2 elements (of `Object` 1), `MaxArrays` 2, indices and lengths past a `jint` of 3 bits |

Three tasks are enough for `java_future` to tell the registered waker, the
present owner and a stale task apart; the theorems hold for every number.  Two
objects that share one hash and two threads give a bind, look-up or unbind of
one object in every step of an operation on the other; a third would repeat it.
In `native_registry` one thread registers and any thread may build between its
steps, which is all that another caller could change in the registry; a batch of
two is the smallest that fails half-way.  The methods of `interface_proxy` are a
reserved one, an overload of its name, two overloads of a third name and a
default one; the typed handler declares the first overload with an `Object`,
which must not take the primitive of the second.  Threads and shells are
symmetric there: no definition names one, and the run has no liveness property.
In `dynamic_call` an access knows of those below it only whether they left an
exception, so a depth of two shows what any depth does, and the theorems hold
for all.  In `bean_mapping` four values are enough for a byte to be negative,
some of the integers and doubles have no float of their own or only an infinite
one, and every kind of type occurs within every other that treats it
differently; its theorems hold for all types.  In `jvm_attach` one thread
creates while the other checks, and a guard of one thread meets a guard or an
operation of the other; a third thread would be in the place of one of them, and
its theorems hold for all.  In `arrays` a `jint` of three bits (`HalfJint` 4)
and a `byte` of one (`HalfByte` 1) make the values at which a cast wraps few;
two arrays are one inside the other, or two of one type; a place is read and
written with the Rust types that stand for its type and with three that do not
(`TypesFor`), and a `Class` is stored only where `Class` is declared, since it
would be no different from a `String` as an `Object`.

One run expects a violation, and shows a disagreement between the code and what
it says of itself, described with its quotation under `findings`:
`dynamic_call_arguments`, an `Integer` is passed for a `Long` parameter.

More disagreements are behaviours of the modules, and of the instances of
the passing runs, without a run of their own:

* a `ToJava` that panics in a worker of `async_native!` leaves the Java future
  pending (`future.rs:592` is outside of the `catch_unwind`), although a panic
  there "would otherwise kill it silently and leave the Java future pending
  forever; catch it" (`future.rs:578-579`);
* building a descriptor redirects a method that is registered with a callable of
  the same Rust signature (`native.rs:1067`), although after `register_natives`
  "invoking a registered `native` method from Java (or Rust) runs the Rust
  function" (`handles.rs:219-220`): the check that keeps a second callable from
  silently replacing the first (`handles.rs:258-261`) is made for batches, not
  for descriptors that are never registered;
* a callable that returns `JObject` is registered with an `int` or a `void` method
  of its name and parameters as well: the retry puts whatever the method returns
  in the place of the generic return type (`call.rs:824-829`), although only "a
  native whose Java method returns a concrete class or concrete array type works
  out of the box" (`handles.rs:244-246`) and the trampolines "already return
  `JObject` for every reference type" (`call.rs:789-792`), not for an `int`;
* an exception that the JNI calls of a `to_java` raise (`new_string` at
  `convert.rs:274`, `new_object_array` at `array.rs:571`) is not looked at: its
  `?` leaves the access before any `with_check` or `finish` (`call.rs:1082`,
  `bind.rs:238`), and it stays pending for the next access of the thread, which
  reports it as its own, or for Java; or it is dropped where the text of the error
  is made (`call.rs:976`) or another one thrown (`native.rs:494`).  The
  documentation says that "one failed call never poisons the thread for the next"
  (`lib.rs:374-375`).  `NeverPoisoned` and `ExceptionIsReported` hold of all other
  exceptions;
* after a refused thread a second poll is `Ready` again, since the first left
  the state `Done` and returned a copy of it (`future.rs:290`);
* a dead binding can make a bind fail as a collision: an object collected
  between `drain_dead` and `upgrade_local` gives `same == false`
  (`userdata.rs:381`), although the doc of `bind` says that such a binding
  "is dead and never blocks a new bind" (`userdata.rs:358-359`);

* a panic in the `FromJava` of the annotated type (`future.rs:332`, and the
  conversions of `async_call_worker`) ends the worker with the cell still
  `Waiting`, which is documented as "the worker is running (or about to be
  spawned)": the awaiting task is never woken;
* so does the shutdown of a tokio runtime that has the worker's closure queued,
  if the future meanwhile moved out of that runtime (`java.rs:611` drops the
  `JoinHandle` that would tell);
* for `Option<i32>` a null is rejected before the `Option` sees it
  (`future.rs:398`), although the module documentation says to annotate
  `Option<T>` to accept null;
* a state whose `Drop` calls userdata (to unbind a companion object, say) is
  dropped with the registry mutex held (`userdata.rs:289`), so its thread waits
  for itself and no operation returns after that, although the module
  documentation calls them "safe to call from any thread": the `Stuck` states
  of `UserData`;
* a failure of `complete_exceptionally` itself is ignored (`future.rs:698`) with
  the Java future still pending, which its comment holds to be impossible;
* "unknown keys and missing fields error" (`serde.rs:110`), but serde's
  derived visitors pass over an unknown key and take a missing `Option` as
  `None`; a struct or tuple read from a longer list drops the tail;
* a `JavaMap` of something other than a struct or map (a `Vec`, a number,
  `None`) is an `ArrayList`, a wrapper or null, passed where `java.util.Map`
  is declared (`serde.rs:117-127`), although the value "is serialized into a
  fresh `java.util.HashMap<String, Object>`" (`serde.rs:102-103`);
* "a non-`String` key is a deserialization error" (`serde.rs:49`), but the keys
  of a `HashMap<K, V>` are read by `K` itself, so that an `Integer` key is read
  as an `i32`;
* a newtype is written as what it holds, but read by `deserialize_any`
  (`serde.rs:1189`): only from a list, whose first element it takes;
* an `interface!` that declares `f(JObject)` before an overload `f(String)` never
  runs the second, since the first arm that matches is taken and a `JObject`
  matches every reference (`interface.rs:1107`); `RunsWhatWasCalled` asks only
  that the method taken can receive the arguments;
* two fields with one camel-cased name fill one property of a bean
  (`bean.rs:1070-1072`), the second setter call replacing the first;
* "While it exists, the calling thread is attached to the JVM"
  (`handles.rs:510-511`), but
  of two guards on one thread the first to be dropped detaches it, and a guard
  that moved to another thread detaches that one (`handles.rs:519-525`);
* the element class of a `Vec<JArray<JObject>>` has one `[` too many
  (`array.rs:282-293`): it is made, and asked for, as `Object[][][]`, although
  "`JArray<JObject>` is `Object[]`, so `Vec<JArray<JObject>>` is `Object[][]`"
  (`array.rs:280`);
* `None` cannot be written to a field that is not declared `Object`: its
  signature is `Object`'s whatever its type (`convert.rs:317-338`) and a field
  access has no fallback, so it fails with `FieldNotFound`, although `bind!`
  lists `Option<T>` among the types of a field (`bind.rs:61`);
* an index or a length is cast with `as i32` (`call.rs:1455`, `array.rs:571`,
  `java.rs:193`): past 2^32 it is another valid one, although accesses are
  "bounds-checked by the JVM" (`handles.rs:443`);
* which class a wrapper uses depends on the thread of its first access: a class
  that only a `URLClassLoader` has is found by none of the program's own
  threads, and a wrapper that `wrap` made of such an object fails there, although
  the class "is resolved (and validated) lazily on the first actual call"
  (`java.rs:370-372`).

The passing runs keep the conditions of all of these and state what holds
nevertheless: `java_future` refuses threads and lets tasks poll past a `Ready`
that brought an outcome, not past one that brought a refusal;
`CompletedIsDelivered`, `CallIsDelivered` and `EveryCallSettles` except a worker
that died; `DeliversTheCompletion` allows either outcome of a null for
`Option<i32>`; `RunsTheRegistered` except callables built `later`;
`AcceptedIsBound` leaves the return type of a method that a generic callable is
bound to open; `NeverPoisoned` and `ExceptionIsReported` except what a `to_java`
left; `StaysAttached` except a disturbed guard; `WritesLand` and
`ReadsAreTrue` except `OfObjectArrays`, `NoneInField` and `Wraps`; the liveness
of `userdata` ends where a re-entrant `Drop` holds the mutex; `Shows` admits
what serde's visitors do, and `RoundTrip` leaves out newtypes and fields of one
name.

Deadlock is checked in `native_registry`, `dynamic_call` and `arrays`, where
something can always be built, registered, called or written in the instance
used.  Everywhere else
the system comes to rest (the future was delivered or dropped, all calls are
over, all objects were collected, the value was read), so those configurations
say `CHECK_DEADLOCK FALSE`; that nothing rests too early is what the liveness
properties say.

### Fairness

* A scheduled task is polled and a poll runs to its end: an executor's contract.
* A worker thread runs (weak fairness of the step after the fetch), and it gets
  the mutex (strong fairness of `WorkerStore`): spurious polls may lock the
  mutex again and again, and a thread that finds it free infinitely often
  takes it.
* `get()` returns once the future is complete, `recv()` once the channel holds
  an event or is closed; Java methods and user functions return.  Java need not
  complete a future, a listener need not fire: the liveness properties assume
  that as their left-hand side.
* A runtime's pool starts what is queued while the runtime runs, and a task is
  polled if a thread is free again and again.
* parking_lot's mutex is eventually fair, so that an operation of userdata
  that can lock again and again does; the cleaner wakes every half second.

## 4. Proofs

`Bridges_proofs` proves first about the cell, for every set of tasks and outcomes:

* `TypeCorrect`, `WakeupIsNotLost`, `OutcomeIsUnique`: `CellTypeOK`,
  `NoLostWakeup` and `OneOutcome` are invariants.
* `FutureIsFused` and `CellImplementsOneShot`: under `Contract`, which excludes
  only a poll past the `Ready` of a refused thread, at most one poll
  returns `Ready`, and the cell implements `OneShot`.

The three invariants are not inductive.  `CellInv` adds `Phases`, which ties the
worker's position to the state: it runs only after the first poll left
`Unstarted`, it holds a waker only between its critical section and the wake-up,
the state is `Done` exactly from the critical section on.  With that, a parked
task is covered because the poll that parked it left its own waker in
`Waiting` -- `ShouldUpdate` is the step where it matters -- and the only step
that removes the waker keeps it in the worker's hand; a move schedules the new
owner, which un-parks the task.  `Once` is the further invariant
for the theorems under `Contract`.

`Bridges_proofs` carries this over to the three bridges.  A step of
`java_future` is a step or a stutter of the cell (`JavaFutureIsCell`), which
needs that conversion and unwrapping yield outcomes of `JavaOutcomes`; so the
cell's theorems hold of it, `JavaFutureIsOneShot` included.
`DeliveryIsFaithful` then proves `DeliversTheCompletion`: the outcome in
whichever of the three places `OneOutcome` allows is one that the docs give for
the completion of `cf`, and `cf` does not change once it is complete.

The same is shown of `rx::from_callback`, whose worker never dies
(`CallbackIsCell`, `CallbackIsOneShot`), with `FirstEventWins` and
`SendErrorMeansSettled`.  The invariant `FirstIsKept` says where the first event
is: until the worker has received, the channel is all that was sent; once it
has, the first is settled -- an event was sent or the handler is gone -- and
whatever the worker, the cell and the task hold or returned is that first one,
or the error of a spawn that failed.  A send is refused only without a
receiver, which the worker of a waiting future holds (`RefusalOK`).

`AsyncCall` has one step that is none of the cell: `ShutDown` drops the future
and discards the queued worker at once, so `CellInv` is proved for it
separately (`CallKeepsCell`).  For `OneShot` it is the future's drop like any
other, which is why `CallIsOneShot` holds all the same.  `Placed` ties the place
of the worker's closure to the state of the cell, and `OnItsWay` says that the
method is entered by the worker alone, on its way, and that what any of the
three places reports is what happened: `OneInvocation` follows (`InvokedOnce`).

`UserData_proofs` proves, for every number of threads, objects, hashes and
states, that the registry implements `ObjectState`
(`RegistryImplementsObjectState`) and `LiveStateIsKept`
(`LiveStateChangesByItsOwner`).  The mapping reads the state of a live object
off the binding under its hash; `store` is then `Attach`, `unbind` and the
collector's step are `Detach`, a `get` is `LookUp`, and a drain, which removes
dead bindings only, is a stutter.  Two parts of the invariant carry the weight.
`StoresAreChecked`: between the check and the store the thread keeps the mutex,
and the key it is about to write is free or the object's own -- without it a
store might take the state of another object of the same hash away.
`BoundAreBorn`: what is bound was created, so that a fresh object, which may get
the hash of a collected one, finds no binding that counts as its own.

`InterfaceProxy_proofs` proves, for every nesting of proxies, handlers and
threads: `SlotIsItsOwn` (`PendingIsOwn`), `ProxyHasItsHandler`
(`HandlerIsItsOwn`), `CalledMethodRuns` (`RunsWhatWasCalled`) and the action
property `ConstructionBindsItsHandler`.  The slot of a thread is full only
between two steps of one `proxy()`.  That those two steps are not separated by
another construction follows from the shape of the stack: `BelowRuns`, that
whatever lies under the top frame is a frame whose handler or Java code runs,
and so none with the slot armed; `OneConstructor`, that a constructor is on top
or not there; and `FramesOK`, what each frame has established at its `pc`.  So
a constructor that Java code runs on its own, or that a handler's nested
`proxy()` has yet to reach, finds the slot empty and binds nothing.

`HandlersAreAttached` joins this module to `UserData`.  The model keeps `bound`
itself instead of the registry; the theorem says that it does so as userdata
promises: with a history variable for the last look-up (`looked`, in the proof
module), every behaviour is one of `ObjectState`, where a shell that was
collected has no handler any more, drained or not (`HandlerOf`).  `ShellInit` is
`Attach`, `Collect` is `Detach`, `GetHandler` is `LookUp`, and `Drain` is a
stutter: what Rust still keeps of a dead shell, no call can be given
(`GivenIsAttached`, from `CallOK`: the shell of a call is proxied).  So the
registry offers, and proxies use, the behaviours of the same specification.

`Natives_proofs` proves `ChecksAreSound` (`CheckedBatchIsUnambiguous`),
`OkMeansBound` (`AcceptedIsBound`) and `RegisteredCallableRuns`
(`RunsTheRegistered`).  A batch is checked against the registry of the moment,
which other threads change before the JVM is asked.  `OperationsOK` says what is
left of the check then: a descriptor that was the latest for its trampoline
still is, or one built since took its place and is in `later`; what is in the
batch is not in `later` of itself.  `BoundIsFound` and `AcceptedIsLatest` say the
same of what the JVM has bound.  That the latest of the descriptors of a
trampoline exists -- a maximum of a finite set of numbers -- is proved by
well-foundedness of the naturals.

The same module proves of `AsyncNative` `DeliversTheResult`
(`ResultIsDelivered`) for every set of calls, results and runtime threads.  A
future that is complete says nothing by itself about the function, whose result
may still be to come; the invariant (`CallOK` of each call) adds that a future
completed with a result was so by a worker that has ended, so that the result it
was completed with is the last word, and that an outer task with a joined worker
has a result to complete with.  The errors of the bridge itself are no results,
which is why the two kinds of completion cannot be mixed up.

`DynamicCall_proofs` proves, for every class hierarchy, set of members, order of
reflection, set of requests and depth of nesting: `CallTypeCorrect`;
`ThreadIsNeverPoisoned`, that no exception is pending whenever Rust code outside
of the machinery runs, unless a `to_java` left it; `InvocationIsReported`, that
an access runs Java code at most once and ends with what it threw;
`AskedMethodRuns`; and the two action properties `PendingIsReported` and
`UnresolvedIsJustified`.  None of them is inductive: that nothing is pending
when an access returns to the one below depends on what the lower frame is
doing.  `IInv` adds `Below`, that every frame under the top one waits in a
native method or a conversion, where Rust code runs; `Frames`, that the history
of each frame agrees with how far it got (no code ran before `java`, the error
of a failed access is what its code threw); and `PendingOK`, that an exception
that no `to_java` left is pending only while the top frame is in Java or about
to check.  A pop uncovers a frame that `Below` describes, a push covers one; the
other steps change the top alone.

`JvmAttach_proofs` proves, for every number of threads, guards and nested
operations: `FacadeTypeCorrect`; `BuildsDoNotRace`, that no build fails because
of another one; and `AttachmentIsKept`.  `Inv` adds two parts.  `OneCreator`: a
thread between the check and the creation holds the lock, so if it found no JVM
there is none until it has made one, unless Java made it.  `JvmIsThere`: whoever
runs an operation has a JVM, and code of the program runs under an operation
only in a native method.  A guard dropped there cannot detach the thread, since
Java is on its stack; one dropped elsewhere marks the thread's other guards.

The same module shows that threads that use a wrapper behave as threads of
the facade (`BoundIsAttach`), which carries these theorems over
(`AccessesStayAttached`), and that whatever the look-ups find, one class is used
(`OneClassIsUsed`): `CacheInv` says that it is the cached one, which
`GetOrInit` never replaces.

`JArrays_proofs` proves, for every width of a `jint` and a `byte`, all Rust
types, values, sizes and numbers of arrays: `JvmStaysTyped`, that no field and no
element holds what its type excludes; `WriteLeavesItsValue`; and
`ReadReturnsWhatIsThere`.  Lemmas about the conversions come first, one for each
layer of types: what a value is converted to denotes it and is of its Java type
(`SingleConverts`, `ElementConverts`, `VecConverts`), and a Java value is read as
one it denotes, or nothing of the type denotes it (`SingleReads`, `ElementReads`,
`CastCovers`).  `HeapIsTyped` is not inductive, since it is also about arrays
whose elements come from somewhere else.  `IInv` says of every value anywhere
that it is one Java has, carries its own class and, if it is an array, is in the
heap (`ValueOK`); of every array that its length is a `jint` (`ArrayOK`); and of
what Rust holds, that the array is of the type of its `JArray` (`HeldOK`,
`OpOK`) and that the array a copy reads still exists (`CopyOK`).  A collection
keeps that because what is reachable is closed under references
(`ReachIsClosed`).  An index that is cast meets the right element, or is out of
bounds, since lengths are below `HalfJint` and the sizes at which the cast wraps
round to another valid one are excluded by `Wraps`, as the properties say.

`BeanMapping_proofs` proves the three properties of the mapping, for all types of
any depth, values of any size, bean classes and widths: `WrittenWhole`
(`WrittenIsWhole`), `ReadThere` (`ReadIsThere`) and `RoundTrips` (`RoundTrip`).
The invariant, `Mapped` (`MappedInvariant`), only says what Java has and where it
came from; the weight is in what the recursive definitions compute.  The prover
cannot instantiate an induction theorem that takes a predicate, so a claim is
made the set of the numbers, or types, it holds for, and such a set has all of
them because a least one that it lacks does not exist
(`NatSetInduction`, `TypeInduction`, from the well-foundedness of the naturals).
That the recursive functions exist at all is shown in the same way (`ValuesIs`,
`SerIs`, `WriterIs`, `ReaderIs`, `ShowsIs`, `LeavesIs`): functions that agree with
the definition on the types of less than some depth, put together.  Then three
claims go up the types, each with one lemma per kind of type.

* `SerIsWhole`, `WriterIsWhole`: what is written fails exactly, or for a bean at
  least, where a scalar in it is unsupported, and otherwise stands for the
  value, is one of Java's values, and is no null unless the type has one.  For a
  bean this needs that setter calls, or the positions of a record's constructor,
  leave each value in the property of its own field (`SetAllIs`,
  `BuildRecordIs`), whichever setter was chosen and whatever was there before.
* `ReadStands`: what is read of any Java value, not of those that Rust wrote
  alone, is a value of the type that it stands for: a number that is read as a
  float, of the float that no other one lies between (`CastRounds`).  Objects
  apart, nothing of a value is looked at where a bean is read.
* `ReadBack`: what was written is read back.  Of a map that is because what is
  written of two keys differs (two keys that are read as different values were
  written as different ones), of a byte because the two casts cancel, of a bean
  because an accessor that the name means returns the one property, of a nested
  one because no object is a marker map.  The conditions are those of the
  property, which the run shows to be needed; they hold of the parts of a type of
  which they hold (`ReversibleParts`, `OneFieldParts`).

The assumptions are those of the modules (`WakersAssumption`,
`OutcomesAssumption`, `CompletionsAssumption`, `UserDataAssumption`,
`DeclaresAssumption`, `DynamicCallAssumption`, `RequestsAssumption`,
`JvmAttachAssumption`, `BoundClassAssumption`, `TypesAssumption`,
`ArraysAssumption` and so on): distinctness of the
special values and membership of the constants in their domains; and
`ClassesAssumption`, described above, about Java's bean classes.  `Contract`,
the hypothesis of the one-shot theorems, is a formula about behaviours: that no
task polls past the `Ready` of a refused thread, which the finding of
`java_future` shows to be needed.

Only model-checked are liveness and fairness, which are out of the prover's
reach: that parked tasks are woken, calls settle, operations return and dead
bindings are collected.

## 5. Abstractions and what is left out

* Values, messages and errors are members of small sets; what a conversion
  accepts is a set.  The text of errors is abstracted to which error it is.
* The executor, tokio, `CompletableFuture`, mpsc, the garbage collector and
  `RegisterNatives` are modelled from their use and marked external in the map.
* Mutex poisoning: the cell's polls and workers use a poisoned mutex as any
  other, so it is not a state.  `NATIVE_REGISTRY` panics on poison; nothing
  panics inside its critical sections.
* `AsyncNative` gives a runtime's thread back when the caller leaves the native
  method or its `get()`.  If as many callers block as there are threads, their
  tasks never run.  The instance checked has the threads it needs; the
  documentation makes no promise for the other case.
* In `UserData` a re-entrant `Drop` either gets its thread stuck or does not
  run there (a `get` may hold the last `Arc`); what it would do to the registry
  after that is not modelled, since it never gets the lock.
* `live_bindings` only counts.
* `DynamicCall` is one thread: a pending exception and the stack are a thread's
  own.  The text of contexts and class look-ups by name are left out; no JNI call
  that may throw does its work while an exception is pending.
* In `BeanMapping` the mapping's own JNI calls succeed; what their failure does
  is what `DynamicCall` says of any access.  A value of a JDK class has none of
  the accessors a bean is read by.
* `InterfaceProxy` lets any JNI call fail (`JniMayFail`), which stands for
  identity-hash collisions in `bind` too, and for a conversion of an argument
  that fails.  How the error of a handler becomes a Java exception is
  `throw_error`, in `DynamicCall`; the unwrapping of what a default method threw
  is left out.

* `JvmAttach` lets code of the program run outside of operations and in native
  methods.  A guard that is dropped inside a conversion, below `with_env` with
  no Java between, is left to jni-rs.
* `BoundClass` has one wrapper, the caches of different wrappers being
  independent.  A class loader whose Java code calls native methods of the
  program during a look-up is left out.
* In `JavaTypes` `i32` stands for `bool`, `i16`, `i64`, `f32` and `f64` too, which
  come from the same macro.  `()` and tuples are argument and return lists, not
  values, and left out; so is the literal signature in the setters of `bind!`,
  and `Option<Option<T>>`, two of whose values are the same `null`.
* The text of a Java `String` is its value in `JavaTypes`: `from_java` of a
  `String` (`convert.rs:297`) decodes it through the jni crate's `mutf8_chars`,
  and what becomes of an unpaired surrogate, which no Rust text has, is up to that
  crate.  (A `char` is refused one, which is modelled.)
* `JArrays` has one field and one `JArray` at a time: another handle to the same
  array would do what Java code does there.

Not to be modelled: the proc macros (compile time) but for the dispatch that
`interface!` generates and the class cache of `bind!`; class loaders, whose
operations are accesses to Java objects as `DynamicCall` has them, without Rust
state; errors and re-exports (no state), `rjava-helper` (two JNI calls), examples,
benches and tests.

## 6. Plan

Built: the bridges and their cell, async natives, userdata, interface proxies,
native registration, the call machinery, the serde and bean mapping, the facade
with attachment and the class cache of wrappers, conversions and arrays.  Proved:
every invariant and every action property of the runs, and the refinements.

Left: `UserData` and `InterfaceProxy` are joined by `ObjectState`, which the one
implements and whose behaviours the other's are, and not by one specification
that has the state of both; there a shell's `GetHandler` would be the steps of a
`get` on the registry, and `ShellInit` those of a `bind`.
