--------------------------- MODULE CallbackFuture ---------------------------
(***************************************************************************)
(* rx::from_callback (rx.rs): the first event of a Java listener awaited   *)
(* from Rust.  The handler of the listener's proxy owns the sender of an   *)
(* mpsc channel; the worker of the cell blocks on the receiver.            *)
(***************************************************************************)
EXTENDS BridgeCell

CONSTANTS
  Events,      \* what the handler may send: values and errors
  Closed,      \* the error for a handler that was released without an event
  MaxEvents    \* bound on the number of events the channel accepts

ASSUME CallbackAssumption ==
  /\ Closed \notin Events
  /\ Events \cup {Closed} \subseteq Outcomes
  /\ MaxEvents \in Nat \ {0}

VARIABLES
  chan,      \* the events in the channel
  sent,      \* history: every event the channel accepted
  handler,   \* the handler, and with it the sender, is alive
  refused    \* history: some send returned SendError

chanVars == <<chan, sent, handler, refused>>
callbackVars == <<cellVars, chanVars>>

\* The proxy exists before the future: Java may fire from the start.
CallbackInit ==
  /\ CellInit
  /\ chan = <<>>
  /\ sent = <<>>
  /\ handler = TRUE
  /\ refused = FALSE

\* (A bug would be to hand the worker a clone of the first value and let the
\* receiver go before the outcome is stored.)
BugReceiverGoesEarly ==
  \/ state = "Unstarted" /\ ~dropped
  \/ worker = "fetch"

\* The receiver is in State::Unstarted, owned by the future, until the first
\* poll moves it to the worker, which owns it until the thread ends.  If the
\* thread cannot be spawned it goes away with the closure.
ReceiverAlive ==
  \/ state = "Unstarted" /\ ~dropped
  \/ worker \in {"fetch", "store", "wake"}

-----------------------------------------------------------------------------

\* Java fires an event on one of its threads and the handler sends it.
Send(e) ==
  /\ handler
  /\ IF ReceiverAlive
       THEN /\ Len(sent) < MaxEvents
            /\ chan' = Append(chan, e)
            /\ sent' = Append(sent, e)
            /\ UNCHANGED refused
       ELSE /\ refused' = TRUE
            /\ UNCHANGED <<chan, sent>>
  /\ UNCHANGED handler
  /\ UNCHANGED cellVars

\* The proxy became unreachable and was collected: its handler is dropped.
ReleaseHandler ==
  /\ handler
  /\ handler' = FALSE
  /\ UNCHANGED <<chan, sent, refused>>
  /\ UNCHANGED cellVars

\* recv() returns the oldest event.
ReceiveEvent ==
  /\ chan # <<>>
  /\ WorkerFetch(Head(chan))
  /\ chan' = Tail(chan)
  /\ UNCHANGED <<sent, handler, refused>>

\* (A bug would be to report the channel closed with events still in it.)
BugClosedFirst ==
  /\ ~handler
  /\ WorkerFetch(Closed)
  /\ UNCHANGED chanVars

\* recv() fails: the channel is empty and every sender is gone.
ReceiveClosed ==
  /\ chan = <<>>
  /\ ~handler
  /\ WorkerFetch(Closed)
  /\ UNCHANGED chanVars

\* (A bug would be not to notice that the senders are gone.)
BugReceiveEventsOnly == ReceiveEvent

\* The worker's recv().
Receive == ReceiveEvent \/ ReceiveClosed

CallbackNext ==
  \/ \E e \in Events : Send(e)
  \/ ReleaseHandler
  \/ Receive
  \/ CellCommon /\ UNCHANGED chanVars

CallbackFairness == CellFairness /\ WF_callbackVars(Receive)

CallbackSpec ==
  CallbackInit /\ [][CallbackNext]_callbackVars /\ CallbackFairness

-----------------------------------------------------------------------------
(***************************************************************************)
(* Properties.                                                             *)
(***************************************************************************)

\* rx.rs "One-shot": the future resolves with the first event the handler
\* sent, also if that was before the first poll or the handler was released
\* meanwhile, and with the closed-channel error only if there was none.
FirstEventWins ==
  \A i \in 1..Len(returned) :
    returned[i] \in {SpawnError, IF sent = <<>> THEN Closed ELSE sent[1]}

\* from_callback: a SendError "merely means the future was already completed
\* or dropped", so that a handler may ignore it.
SendErrorMeansSettled == refused => state = "Done" \/ dropped

\* A task that awaits the event gets it, and gets the error if the listener
\* was collected before it fired.
EventIsDelivered ==
  ((sent # <<>> \/ ~handler) /\ ret = "pending")
    ~> (returned # <<>> \/ dropped)

\* "the worker thread ends when the channel closes", dropped future or not.
WorkerEnds == (~handler /\ worker = "fetch") ~> worker = "exited"
=============================================================================
