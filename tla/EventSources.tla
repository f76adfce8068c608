---------------------------- MODULE EventSources ----------------------------
(***************************************************************************)
(* events/event_handler.py, signal_event.py, timer_event.py and            *)
(* signal_handler.py: how a signal and a timer get into the select loops   *)
(* of several threads.  Each source is an eventfd; the dispatcher of a     *)
(* signal is one handler, run in the main thread between any two of its    *)
(* steps, and one lock.  Descriptors are numbers that the kernel gives out *)
(* again, so a trigger that comes late may reach another source.           *)
(***************************************************************************)
EXTENDS Integers

CONSTANTS
  Owners,     \* the threads that have a select loop
  Main,       \* the main thread, which may be one of them
  Opens,      \* how many descriptors are opened in all
  Starts,     \* how many timers are started in all
  Both,       \* how many of the two together
  Signals     \* how many signals arrive in all

ASSUME BoundsAssumption ==
  Opens \in Nat /\ Starts \in Nat /\ Both \in Nat /\ Signals \in Nat

ASSUME OwnersAssumption == {"free", "handler"} \cap (Owners \cup {Main}) = {}

Ids == 1 .. Opens
Fds == 1 .. Opens

Kinds == {"signal", "timer"}

VARIABLES
  pc,         \* where each thread stands
  sources,    \* what was opened: its kind, its owner and its number
  opened,     \* how many there are
  table,      \* the descriptors of the process: what each number stands for
  ready,      \* the sources whose descriptor is readable
  callbacks,  \* SignalHandler.callbacks
  lock,       \* who holds SignalHandler.lock
  arrived,    \* how many signals have arrived
  pending,    \* a signal has arrived and its handler has not been entered
  depth,      \* the handler's frames on top of the main thread
  holder,     \* the frame that holds the lock
  todo,       \* the callbacks it has still to call
  timers,     \* the threads of threading.Timer
  started,    \* how many there are
  current     \* TimerEvent.timer of each thread's timer event

vars == <<pc, sources, opened, table, ready, callbacks, lock, arrived, pending,
          depth, holder, todo, timers, started, current>>
dispatch == <<callbacks, lock, arrived, pending, depth, holder, todo>>
clocks == <<timers, started, current>>

TypeOK ==
  /\ pc \in [Owners -> {"running", "opened", "inserted", "popped", "closing"}]
  /\ opened \in 0 .. Opens
  /\ sources \in [1 .. opened -> [kind : Kinds, owner : Owners, fd : Fds]]
  /\ table \in [Fds -> 0 .. opened]
  /\ ready \in SUBSET (1 .. opened)
  /\ callbacks \in SUBSET (1 .. opened)
  /\ lock \in Owners \cup {"free", "handler"}
  /\ arrived \in 0 .. Signals
  /\ pending \in BOOLEAN
  /\ depth \in 0 .. arrived
  /\ holder \in 0 .. depth
  /\ todo \in SUBSET (1 .. opened)
  /\ started \in 0 .. Starts
  /\ timers \in [1 .. started -> [id : 1 .. opened, cancelled : BOOLEAN,
                                  state : {"waiting", "passed", "ended"}]]
  /\ current \in [Owners -> 0 .. started]

Init ==
  /\ pc = [t \in Owners |-> "running"]
  /\ sources = [s \in {} |-> {}]
  /\ opened = 0
  /\ table = [n \in Fds |-> 0]
  /\ ready = {}
  /\ callbacks = {}
  /\ lock = "free"
  /\ arrived = 0
  /\ pending = FALSE
  /\ depth = 0
  /\ holder = 0
  /\ todo = {}
  /\ timers = [k \in {} |-> {}]
  /\ started = 0
  /\ current = [t \in Owners |-> 0]

-----------------------------------------------------------------------------
(* Descriptors *)

\* The number of s stands for s: it is open.
Own(s) == table[sources[s].fd] = s

\* os.eventfd and os.pipe2 take the lowest number.
Lowest(n) == table[n] = 0 /\ \A m \in Fds : m < n => table[m] # 0

\* os.eventfd_write: whatever the number stands for now becomes readable; if it
\* stands for nothing the write raises, in a thread where nobody sees it.
Written(n) == ready' = IF table[n] = 0 THEN ready ELSE ready \cup {table[n]}

Released(s) ==
  /\ table' = [table EXCEPT ![sources[s].fd] = 0]
  /\ ready' = ready \ {s}

\* A handler suspends the main thread.
Runs(t) == t # Main \/ depth = 0

At(t, place) == pc[t] = place /\ Runs(t)

Mine(t, kind) == {s \in 1 .. opened : /\ sources[s].owner = t
                                      /\ sources[s].kind = kind
                                      /\ Own(s)}

-----------------------------------------------------------------------------
(* The threads *)

\* EventHandler.__init__.
Open(t, kind) ==
  /\ At(t, "running")
  /\ opened < Opens /\ opened + started < Both
  /\ Mine(t, kind) = {}
  /\ \E n \in Fds :
       /\ Lowest(n)
       /\ sources' = [s \in 1 .. opened + 1 |->
                        IF s \in 1 .. opened THEN sources[s]
                        ELSE [kind |-> kind, owner |-> t, fd |-> n]]
       /\ table' = [table EXCEPT ![n] = opened + 1]
  /\ opened' = opened + 1
  /\ pc' = [pc EXCEPT ![t] = IF kind = "signal" THEN "opened" ELSE "running"]
  /\ UNCHANGED <<ready, dispatch, clocks>>

\* register_callback, to the end of the with block.
Insert(t) ==
  /\ At(t, "opened")
  /\ lock = "free"
  /\ lock' = t
  /\ callbacks' = callbacks \cup Mine(t, "signal")
  /\ pc' = [pc EXCEPT ![t] = "inserted"]
  /\ UNCHANGED <<sources, opened, table, ready, arrived, pending, depth, holder, todo, clocks>>

\* Mutant: SignalEvent.close closes the descriptor before it deregisters.
PopClosed(t) ==
  /\ At(t, "running")
  /\ lock = "free"
  /\ lock' = t
  /\ \E s \in Mine(t, "signal") : Released(s)
  /\ callbacks' = callbacks
  /\ pc' = [pc EXCEPT ![t] = "popped"]
  /\ UNCHANGED <<sources, opened, arrived, pending, depth, holder, todo, clocks>>

\* SignalEvent.close: deregister_callback, to the end of the with block.
Pop(t) ==
  /\ At(t, "running")
  /\ Mine(t, "signal") # {}
  /\ lock = "free"
  /\ lock' = t
  /\ callbacks' = callbacks \ Mine(t, "signal")
  /\ pc' = [pc EXCEPT ![t] = "popped"]
  /\ UNCHANGED <<sources, opened, table, ready, arrived, pending, depth, holder, todo, clocks>>

\* Either with block ends.
Release(t) ==
  /\ At(t, "inserted") \/ At(t, "popped")
  /\ lock' = "free"
  /\ pc' = [pc EXCEPT ![t] = IF @ = "popped" THEN "closing" ELSE "running"]
  /\ UNCHANGED <<sources, opened, table, ready, callbacks, arrived, pending, depth, holder, todo,
                 clocks>>

\* EventHandler.close of the signal event.
CloseSignal(t) ==
  /\ At(t, "closing")
  /\ \E s \in Mine(t, "signal") : Released(s)
  /\ pc' = [pc EXCEPT ![t] = "running"]
  /\ UNCHANGED <<sources, opened, dispatch, clocks>>

\* EventHandler.acknowledge, once select() has reported s.
Acknowledge(t, s) ==
  /\ At(t, "running")
  /\ s \in Mine(t, "signal") \cup Mine(t, "timer")
  /\ s \in ready
  /\ ready' = ready \ {s}
  /\ UNCHANGED <<pc, sources, opened, table, dispatch, clocks>>

\* The threads once the timer of t's event is cancelled.
Cancelled(t) ==
  [k \in 1 .. started |->
     IF k = current[t] THEN [timers[k] EXCEPT !.cancelled = TRUE] ELSE timers[k]]

\* Mutant: TimerEvent.start does not cancel.
StartAnother(t) ==
  /\ At(t, "running")
  /\ started < Starts /\ opened + started < Both
  /\ \E s \in Mine(t, "timer") :
       timers' = [k \in 1 .. started + 1 |->
                    IF k \in 1 .. started THEN timers[k]
                    ELSE [id |-> s, cancelled |-> FALSE, state |-> "waiting"]]
  /\ started' = started + 1
  /\ current' = [current EXCEPT ![t] = started + 1]
  /\ UNCHANGED <<pc, sources, opened, table, ready, dispatch>>

\* TimerEvent.start.
Start(t) ==
  /\ At(t, "running")
  /\ started < Starts /\ opened + started < Both
  /\ \E s \in Mine(t, "timer") :
       timers' = [k \in 1 .. started + 1 |->
                    IF k \in 1 .. started THEN Cancelled(t)[k]
                    ELSE [id |-> s, cancelled |-> FALSE, state |-> "waiting"]]
  /\ started' = started + 1
  /\ current' = [current EXCEPT ![t] = started + 1]
  /\ UNCHANGED <<pc, sources, opened, table, ready, dispatch>>

\* TimerEvent.close.
CloseTimer(t) ==
  /\ At(t, "running")
  /\ \E s \in Mine(t, "timer") : Released(s)
  /\ timers' = Cancelled(t)
  /\ current' = [current EXCEPT ![t] = 0]
  /\ UNCHANGED <<pc, sources, opened, dispatch, started>>

-----------------------------------------------------------------------------
(* The threads of threading.Timer *)

\* The interval is over and "finished" is not set.
Pass(k) ==
  /\ timers[k].state = "waiting" /\ ~timers[k].cancelled
  /\ timers' = [timers EXCEPT ![k].state = "passed"]
  /\ UNCHANGED <<pc, sources, opened, table, ready, dispatch, started, current>>

\* EventHandler.trigger: a cancel that comes in between changes nothing.
Trigger(k) ==
  /\ timers[k].state = "passed"
  /\ timers' = [timers EXCEPT ![k].state = "ended"]
  /\ Written(sources[timers[k].id].fd)
  /\ UNCHANGED <<pc, sources, opened, table, dispatch, started, current>>

-----------------------------------------------------------------------------
(* The signal *)

Raise ==
  /\ ~pending /\ arrived < Signals
  /\ arrived' = arrived + 1
  /\ pending' = TRUE
  /\ UNCHANGED <<pc, sources, opened, table, ready, callbacks, lock, depth, holder, todo,
                 clocks>>

\* SignalHandler.handler is entered, on top of whatever the main thread does.
Interrupt ==
  /\ pending
  /\ pending' = FALSE
  /\ depth' = depth + 1
  /\ UNCHANGED <<pc, sources, opened, table, ready, callbacks, lock, arrived, holder, todo,
                 clocks>>

\* The frame on top is at its with statement.
HandlerLock ==
  /\ depth > 0 /\ lock = "free"
  /\ lock' = "handler"
  /\ holder' = depth
  /\ todo' = callbacks
  /\ UNCHANGED <<pc, sources, opened, table, ready, callbacks, arrived, pending, depth, clocks>>

\* Mutant: trigger_signal does not return True.
CallDropped(s) ==
  /\ depth > 0 /\ holder = depth
  /\ s \in todo
  /\ todo' = todo \ {s}
  /\ callbacks' = callbacks \ {s}
  /\ Written(sources[s].fd)
  /\ UNCHANGED <<pc, sources, opened, table, lock, arrived, pending, depth, holder, clocks>>

\* One callback: SignalEvent.trigger_signal, which returns True.
Call(s) ==
  /\ depth > 0 /\ holder = depth
  /\ s \in todo
  /\ todo' = todo \ {s}
  /\ Written(sources[s].fd)
  /\ UNCHANGED <<pc, sources, opened, table, callbacks, lock, arrived, pending, depth, holder,
                 clocks>>

\* Mutant: acquire() and release() in place of with, and a return in between.
HandlerReturnLocked ==
  /\ depth > 0 /\ holder = depth
  /\ todo = {}
  /\ depth' = depth - 1
  /\ UNCHANGED <<pc, sources, opened, table, ready, callbacks, lock, arrived, pending, holder,
                 todo, clocks>>

HandlerReturn ==
  /\ depth > 0 /\ holder = depth
  /\ todo = {}
  /\ lock' = "free"
  /\ depth' = depth - 1
  /\ holder' = 0
  /\ UNCHANGED <<pc, sources, opened, table, ready, callbacks, arrived, pending, todo, clocks>>

Step(t) ==
  \/ \E kind \in Kinds : Open(t, kind)
  \/ Insert(t) \/ Pop(t) \/ Release(t) \/ CloseSignal(t)
  \/ \E s \in ready : Acknowledge(t, s)
  \/ Start(t) \/ CloseTimer(t)

Next ==
  \/ \E t \in Owners : Step(t)
  \/ \E k \in 1 .. started : Pass(k) \/ Trigger(k)
  \/ Raise \/ Interrupt \/ HandlerLock \/ HandlerReturn
  \/ \E s \in todo : Call(s)

Spec == Init /\ [][Next]_vars

Calls == \E s \in todo : Call(s)

\* A thread that can have the lock takes it and goes on, and Python runs the
\* handlers of the signals that have arrived.  The bounds leave each lock finitely
\* many owners, so weak fairness is enough.  No loop is obliged to open,
\* acknowledge or close anything.
FairSpec ==
  /\ Spec
  /\ \A t \in Owners : WF_vars(Release(t)) /\ WF_vars(Insert(t))
  /\ WF_vars(Interrupt) /\ WF_vars(HandlerLock) /\ WF_vars(Calls) /\ WF_vars(HandlerReturn)

-----------------------------------------------------------------------------
(* Properties *)

\* The dispatcher never writes to a number that is closed or stands for another
\* source, not even while a thread is closing its signal event: the callback is
\* gone, under the lock, before the descriptor is (SignalEvent.close, handler).
RegisteredIsOpen == \A s \in callbacks \cup todo : Own(s)

\* A timer that may still trigger has its own descriptor, or it was cancelled
\* too late: after it found "finished" unset (TimerEvent.cancel, start, close).
OnlyLateTriggersStray ==
  \A k \in 1 .. started :
    timers[k].state # "ended" /\ ~Own(timers[k].id) => timers[k].cancelled

\* The handler on top waits for a lock that the code it has interrupted holds.
SelfDeadlock ==
  depth > 0 /\ (lock = Main \/ (lock = "handler" /\ holder # depth))

\* The event's thread has registered it and has not begun to close it.
Listening(s) ==
  /\ s \in 1 .. opened
  /\ s \in Mine(sources[s].owner, "signal")
  /\ pc[sources[s].owner] \notin {"opened", "popped", "closing"}

\* Nobody but the main thread waiting for itself is stuck on the lock: it is free,
\* or whoever has it runs and stands where its with block ends, whichever threads,
\* frames and callbacks are in between (register_callback, handler).
LockMoves ==
  \/ lock = "free" \/ SelfDeadlock
  \/ \E t \in Owners : lock = t /\ (At(t, "inserted") \/ At(t, "popped"))
  \/ lock = "handler" /\ depth > 0 /\ holder = depth

\* A signal that has arrived reaches every event that is registered for it, the
\* first signal and every later one, whatever the other threads hold the lock for,
\* unless the main thread waits for itself (SignalHandler.handler, trigger_signal).
EverySignalHeard ==
  \A s \in Ids :
    pending /\ Listening(s) ~> s \in ready \/ ~Listening(s) \/ SelfDeadlock

\* A thread that registers its signal event gets the lock, unless the main thread
\* waits for itself (register_callback).
RegistrationEnds ==
  \A t \in Owners : pc[t] = "opened" ~> pc[t] # "opened" \/ SelfDeadlock

-----------------------------------------------------------------------------
(* What the code's own documentation says and the code does not do *)

\* signal_handler.py: "Instances of this class are thread-safe"; only callbacks
\* that "attempt to deregister themselves" are said to deadlock.
NoSelfDeadlock == ~SelfDeadlock

-----------------------------------------------------------------------------
(* The inductive invariant *)

\* Who holds the lock stands at the end of its with block, and nobody else does; the
\* handler's callbacks are still registered while it holds it.
LockInv ==
  /\ \A t \in Owners : pc[t] \in {"inserted", "popped"} <=> lock = t
  /\ holder # 0 <=> lock = "handler"
  /\ todo # {} => lock = "handler"
  /\ todo \subseteq callbacks

\* A callback belongs to an open signal event that its thread has not begun to close.
CallbacksInv ==
  \A s \in callbacks :
    /\ s \in 1 .. opened /\ sources[s].kind = "signal" /\ Own(s)
    /\ pc[sources[s].owner] \notin {"opened", "popped", "closing"}

\* A timer that was not cancelled is the current one of its event, which is open.
TimersInv ==
  \A k \in 1 .. started :
    timers[k].state # "ended" /\ ~timers[k].cancelled =>
      /\ timers[k].id \in 1 .. opened /\ sources[timers[k].id].kind = "timer"
      /\ Own(timers[k].id)
      /\ current[sources[timers[k].id].owner] = k

EventInv ==
  /\ opened \in Nat /\ started \in Nat
  /\ pc \in [Owners -> {"running", "opened", "inserted", "popped", "closing"}]
  /\ sources \in [1 .. opened -> [kind : Kinds, owner : Owners, fd : Fds]]
  /\ table \in [Fds -> 0 .. opened]
  /\ timers \in [1 .. started -> [id : 1 .. opened, cancelled : BOOLEAN,
                                  state : {"waiting", "passed", "ended"}]]
  /\ current \in [Owners -> 0 .. started]
  /\ holder \in Nat /\ depth \in Nat
  /\ LockInv /\ CallbacksInv /\ TimersInv

\* The pending signal has no frame yet.
TypeInv == TypeOK /\ (pending => depth < arrived)
=============================================================================
