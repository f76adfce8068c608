----------------------------- MODULE AioCommand -----------------------------
(***************************************************************************)
(* commands/acommand.py: Command driven by an asyncio event loop, with the *)
(* loop's callbacks (events/aio_endpoint.py, call_later) and the SIGCHLD   *)
(* dispatcher of events/signal_ahandler.py.  Every callback runs while     *)
(* execute() waits for event_wait and only adds an event to next_events;   *)
(* a signal handler of the signal module, such as cancel, runs anywhere.   *)
(***************************************************************************)
EXTENDS CommandBase

CONSTANTS
  EarlierLoops    \* whether the process has run an event loop before and closed it

ASSUME EarlierLoopsAssumption == EarlierLoops \in BOOLEAN

\* Once the child runs nothing takes a descriptor or a thread: call_later has neither.
ASSUME TimersAssumption == ~MayRunOut

VARIABLES
  pc,           \* where execute() stands
  next_events,  \* self.next_events
  woken,        \* self.event_wait.done()
  fired,        \* the call_later handle of self.timer has run
  raised,       \* the loop's self-pipe holds a SIGCHLD
  watched,      \* SIGCHLD still gets through the self-pipe to the dispatcher
  registered,   \* add_event is among the callbacks of ChildSignalDispatcher
  strayed       \* history: a SIGCHLD has come before our child's exit

loop == <<pc, next_events, woken, fired, raised, watched, registered, strayed>>
vars == <<command, world, loop>>

TypeOK ==
  /\ BaseTypeOK
  /\ pc \in {"new", "forked", "waiting", "running", "drained", "returned",
             "raised", "closed"}
  /\ next_events \in SUBSET Events
  /\ woken \in BOOLEAN
  /\ fired \in BOOLEAN
  /\ raised \in BOOLEAN
  /\ watched \in BOOLEAN
  /\ registered \in BOOLEAN
  /\ strayed \in BOOLEAN

Init ==
  /\ BaseInit
  /\ pc = "new"
  /\ next_events = {}
  /\ woken = FALSE
  /\ fired = FALSE
  /\ raised = FALSE
  /\ watched = FALSE
  /\ registered = FALSE
  /\ strayed = FALSE

-----------------------------------------------------------------------------
(* The task that executes the command *)

add_event(e) ==
  /\ next_events' = next_events \cup {e}
  /\ woken' = TRUE

\* ChildSignalDispatcher belongs to the class and to the event loop of its
\* first instance, which removed its handlers when it was closed.
Dispatched == watched' \in {TRUE, ~EarlierLoops}

ForkAndExec ==
  /\ pc = "new"
  /\ fork_and_exec
  /\ Dispatched
  /\ registered' = TRUE
  /\ pc' = "forked"
  /\ UNCHANGED <<next_events, woken, fired, raised, strayed>>

ForkRaises ==
  /\ pc = "new"
  /\ fork_raises
  /\ Dispatched
  /\ registered' = ends'.sigchld
  /\ pc' = "raised"
  /\ UNCHANGED <<next_events, woken, fired, raised, strayed>>

\* self.run() establishes the initial state.
StartFsm ==
  /\ pc = "forked"
  /\ start_fsm
  /\ pc' = "waiting"
  /\ UNCHANGED <<next_events, woken, fired, raised, watched, registered, strayed>>

Wake ==
  /\ pc = "waiting"
  /\ woken
  /\ pc' = "running"
  /\ UNCHANGED <<command, world, next_events, woken, fired, raised,
                 watched, registered, strayed>>

\* Mutant: the set is emptied after its first event.
RunEventClears(e) ==
  /\ pc = "running"
  /\ e \in next_events
  /\ Handle(e)
  /\ next_events' = {}
  /\ pc' = IF thrown' THEN "raised" ELSE "drained"
  /\ fired' = (fired /\ timer' = timer)
  /\ registered' = (registered /\ ends'.sigchld)
  /\ UNCHANGED <<woken, raised, watched, strayed>>

\* Mutant: the inner loop looks at one event only.
RunEventOnce(e) ==
  /\ pc = "running"
  /\ e \in next_events
  /\ Handle(e)
  /\ next_events' = next_events \ {e}
  /\ pc' = IF thrown' THEN "raised" ELSE "drained"
  /\ fired' = (fired /\ timer' = timer)
  /\ registered' = (registered /\ ends'.sigchld)
  /\ UNCHANGED <<woken, raised, watched, strayed>>

\* One pass of the inner loop: pop an event, run the machine on it, and look
\* whether there are more.
RunEvent(e) ==
  /\ pc = "running"
  /\ e \in next_events
  /\ Handle(e)
  /\ next_events' = next_events \ {e}
  /\ pc' = CASE thrown'                          -> "raised"
             [] ~thrown' /\ next_events' # {}     -> "running"
             [] OTHER                            -> "drained"
  /\ fired' = (fired /\ timer' = timer)
  /\ registered' = (registered /\ ends'.sigchld)
  /\ UNCHANGED <<woken, raised, watched, strayed>>

\* next_events was found empty: a new future to wait for.
NewFuture ==
  /\ pc = "drained"
  /\ woken' = FALSE
  /\ pc' = IF q_now = Q_DONE THEN "returned" ELSE "waiting"
  /\ UNCHANGED <<command, world, next_events, fired, raised, watched,
                 registered, strayed>>

\* The task is cancelled at its await.
CancelTask ==
  /\ pc = "waiting"
  /\ pc' = "raised"
  /\ UNCHANGED <<command, world, next_events, woken, fired, raised,
                 watched, registered, strayed>>

\* The with statement around the command ends, and nothing looks at
\* next_events any more.
Exit ==
  /\ pc \in {"returned", "raised"}
  /\ close
  /\ pc' = "closed"
  /\ fired' = FALSE
  /\ registered' = FALSE
  /\ next_events' = {}
  /\ woken' = FALSE
  /\ UNCHANGED <<raised, watched, strayed>>

-----------------------------------------------------------------------------
(* The callbacks of the event loop *)

\* The loop runs the callback of an endpoint it has found ready.  The handle
\* may run after the task has taken what there was to read, so any registered
\* endpoint may report; unregistering cancels the handle.
EndpointReady(e) ==
  /\ pc = "waiting"
  /\ \/ e = E_STDIN_WRITE  /\ "stdin" \in ends.armed
     \/ e = E_STDOUT_READ  /\ "stdout" \in ends.reading
     \/ e = E_STDERR_READ  /\ "stderr" \in ends.reading
     \/ e = E_MASTER_READ  /\ "master" \in ends.reading
     \/ e = E_MASTER_WRITE /\ "master" \in ends.armed
  /\ add_event(e)
  /\ UNCHANGED <<command, world, pc, fired, raised, watched, registered, strayed>>

TimerExpires ==
  /\ pc = "waiting"
  /\ timer # NoTimer
  /\ ~fired
  /\ add_event(E_TIMEOUT)
  /\ fired' = TRUE
  /\ UNCHANGED <<command, world, pc, raised, watched, registered, strayed>>

\* SignalHandler.handler: the callback returns None, so it is deregistered.
DispatchSigchld ==
  /\ pc = "waiting"
  /\ raised /\ watched
  /\ raised' = FALSE
  /\ registered' = FALSE
  /\ IF registered THEN add_event(E_SIGCHLD) ELSE UNCHANGED <<next_events, woken>>
  /\ UNCHANGED <<command, world, pc, fired, watched, strayed>>

-----------------------------------------------------------------------------
(* Signal handlers and the child *)

\* cancel() as a signal handler: between any two steps of the task.  Before
\* execute() there is no event_wait, and it raises AttributeError.
Cancel ==
  /\ pc \notin {"raised", "closed"}
  /\ IF pc = "new" THEN pc' = "raised" /\ UNCHANGED <<next_events, woken>>
                   ELSE add_event(E_STOP) /\ UNCHANGED pc
  /\ UNCHANGED <<command, world, fired, raised, watched, registered, strayed>>

\* SIGCHLD for another child of the process, or for ours when it stops or
\* continues.
OtherSigchld ==
  /\ ends.sigchld
  /\ raised' = TRUE
  /\ strayed' = (strayed \/ child # "zombie")
  /\ UNCHANGED <<command, world, pc, next_events, woken, fired, watched,
                 registered>>

\* Steps of the child and its descendants that raise no signal here.
ChildStep ==
  /\ \/ ChildExecs
     \/ \E r \in Readers : \E kind \in Chunks[r] : ChildWrites(r, kind)
     \/ \E c \in Ends : ChildCloses(c)
  /\ UNCHANGED loop

ChildExit ==
  /\ ChildExits
  /\ raised' = TRUE
  /\ UNCHANGED <<pc, next_events, woken, fired, watched, registered, strayed>>

\* exec fails in the child.  Where asyncio.run closes the child's copy of the
\* loop, it removes the self-pipe from the epoll instance the two processes
\* share.
ExecFailure ==
  /\ ExecFails
  /\ raised' = TRUE
  /\ watched' \in {TRUE, FALSE}
  /\ UNCHANGED <<pc, next_events, woken, fired, registered, strayed>>

\* The command is closed: nothing but what is left of the child goes on.
Finished ==
  /\ pc = "closed"
  /\ UNCHANGED vars

Task == ForkAndExec \/ ForkRaises \/ StartFsm \/ Wake \/ (\E e \in Events : RunEvent(e))
          \/ NewFuture \/ Exit

Next ==
  \/ ForkAndExec \/ ForkRaises \/ StartFsm \/ Wake
  \/ \E e \in Events : RunEvent(e)
  \/ NewFuture \/ CancelTask \/ Exit
  \/ \E e \in E_STDIN_WRITE .. E_MASTER_WRITE : EndpointReady(e)
  \/ TimerExpires \/ DispatchSigchld \/ Cancel \/ OtherSigchld
  \/ ChildStep \/ ChildExit \/ ExecFailure
  \/ Finished

Spec == Init /\ [][Next]_vars

\* Every pass of the event loop runs the timers that are due and the signals
\* that have arrived, and there is a pass whenever the task waits again: hence
\* strong fairness.  The user does not cancel without end, which would keep
\* the inner loop of execute() from ever finding the queue empty.  Nothing is
\* assumed of the child.
FairSpec == Spec /\ WF_vars(Task) /\ SF_vars(TimerExpires)
                 /\ SF_vars(DispatchSigchld) /\ <>[][~Cancel]_vars

-----------------------------------------------------------------------------
(* Properties *)

Executing == pc \in {"waiting", "running", "drained"} /\ q_now # Q_DONE

\* A configured timeout is never lost: the state's own timer is the one that
\* runs, and once a timer has fired its event is in the queue, in EXITED too.
TimeoutNotLost ==
  Executing =>
    /\ q_now \in TimedStates /\ Timeout(q_now) \in options.timeouts => timer = q_now
    /\ fired => E_TIMEOUT \in next_events

\* An await of execute() ends by itself, whatever the child does and although a
\* SIGCHLD or a cancel may be lost: its future is done or its timer is still to fire.
\* Where it has no timer, the state's is not configured, or the state is EXITED
\* (start_timer, add_event).
AwaitIsBounded ==
  pc = "waiting" =>
    \/ woken
    \/ timer # NoTimer /\ ~fired
    \/ timer = NoTimer /\ (q_now = Q_EXITED \/ Timeout(q_now) \notin options.timeouts)

\* While SIGCHLD events are enabled, the exit of the child is on its way to the
\* machine: in the self-pipe or in the queue.
ExitNotLost ==
  child = "zombie" /\ ends.sigchld => raised \/ E_SIGCHLD \in next_events

\* It is lost in one way only: another SIGCHLD came before it and took add_event
\* out of the dispatcher.  A callback still registered hears of the exit,
\* and one that the exit itself took out has queued it, in whatever order events
\* are popped (SignalHandler.handler, add_event, disable_sigchld).
OnlyStraysLoseExit == ExitNotLost \/ (strayed /\ ~registered)

\* A task that waits on a future nobody has completed has no event in its queue
\* but a cancel: readers, writers, timers and SIGCHLD never wait to be noticed
\* (the inner loop of execute, add_event).
OnlyStopSleeps == pc = "waiting" /\ ~woken => next_events \subseteq {E_STOP}

\* With every timeout configured execute() returns whatever the child does,
\* although neither SIGCHLD nor a cancel may be relied upon, except from an
\* EXITED that was entered out of an authentication state.
TimeoutsBound ==
  AllTimeouts => <>(pc = "closed" \/ (q_now = Q_EXITED /\ timer = NoTimer))

\* Seen from its caller the command does what CommandContract says, step by
\* step: each verdict with its evidence, nothing held after it or after close().
Contract == INSTANCE CommandContract WITH
              phase <- Phase(pc \in {"raised", "closed"}), process <- Process,
              explained <- reason # "none", holding <- Holding

MeetsContract == Contract!Spec

\* The ends of the command do what EndpointContract promises its owner, and so what
\* Endpoint does; before the fork none of them is closed.
Channels == INSTANCE EndpointContract WITH
              reading <- IF pc = "new" THEN Readers ELSE ends.reading,
              writing <- IF pc = "new" THEN Writers ELSE ends.writing,
              armed <- ends.armed, output <- ends.output

EndsMeetContract == Channels!Spec

-----------------------------------------------------------------------------
(* The inductive invariant *)

\* Where the task stands and where the machine stands go together; the future
\* is done only if there was an event.
StateOfLoop ==
  /\ pc \in {"new", "forked"} => q_now = Q_START
  /\ pc = "new" => ~child_pid /\ ~ends.sigchld /\ ~raised /\ next_events = {}
  /\ pc = "forked" => child_pid
  /\ pc \in {"waiting", "running", "drained"} => q_now # Q_START
  /\ pc = "waiting" => q_now # Q_DONE
  /\ pc = "running" => next_events # {}
  /\ pc = "returned" => q_now = Q_DONE
  /\ pc \in {"new", "forked", "waiting"} /\ woken => next_events # {}
  /\ pc \in {"forked", "drained"} => next_events \subseteq {E_STOP}
  /\ timer <= q_now /\ (q_now = Q_DONE => timer = NoTimer)
  /\ fired => timer # NoTimer
  /\ thrown => pc \in {"raised", "closed"}

\* A callback still registered has not been called for the exit.  While nothing
\* came before the exit a SIGCHLD means that our child exited, and a callback
\* that is gone has been called for that.
StateOfSigchld ==
  /\ registered => ends.sigchld
  /\ registered /\ child = "zombie" => raised
  /\ ~strayed /\ ends.sigchld =>
       /\ raised \/ E_SIGCHLD \in next_events => child = "zombie"
       /\ ~registered => E_SIGCHLD \in next_events

LoopInv ==
  /\ StateOfLoop /\ OnlyStopSleeps /\ TimeoutNotLost
  /\ OnlyStraysLoseExit /\ StateOfSigchld

IInv == TypeOK /\ BaseInv /\ LoopInv

-----------------------------------------------------------------------------
(* What the code's own documentation says and the code does not do; so is  *)
(* ExitNotLost, once another SIGCHLD has come *)

\* cancel() will "Trigger a stop event (can be used as a signal handler)": no
\* event waits in the queue of a task that is not going to wake up.
NoLostWakeup == pc = "waiting" /\ next_events # {} => woken

=============================================================================
