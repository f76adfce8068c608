--------------------------- MODULE SelectCommand ---------------------------
(***************************************************************************)
(* commands/command.py: Command driven by a select loop.  Timers and       *)
(* signals reach the loop through eventfds (events/event_handler.py):      *)
(* expired, chld_ready and stop_ready are the three counters, zero or not. *)
(* One call of select() returns a batch of ready events; execute() runs    *)
(* the machine on each of them in turn while threads, signals and the      *)
(* child go on.                                                            *)
(***************************************************************************)
EXTENDS CommandBase

CONSTANTS
  MayBlock,   \* whether the main thread may come to wait for itself on the lock
  MayBeLate   \* whether a timer's thread may write to the next timer's eventfd

ASSUME RaceAssumption == MayBlock \in BOOLEAN /\ MayBeLate \in BOOLEAN

VARIABLES
  pc,          \* where execute() stands
  batch,       \* the events select() returned that are still to be run
  expired,     \* the eventfd of self.timer is readable
  fired,       \* the thread of self.timer has called trigger()
  raised,      \* SIGCHLD is pending for the process
  chld_ready,  \* the eventfd of self.sigchld is readable
  watched,     \* the epoll instance still reports that eventfd
  stop,        \* self.stop is not None
  stop_ready,  \* the eventfd of self.stop is readable
  stuck        \* the main thread waits for itself on the dispatcher's lock

loop == <<pc, batch, expired, fired, raised, chld_ready, watched, stop,
          stop_ready, stuck>>
vars == <<command, world, loop>>

TypeOK ==
  /\ BaseTypeOK
  /\ pc \in {"new", "forked", "started", "select", "batch", "returned",
             "raised", "closed"}
  /\ batch \in SUBSET Events
  /\ expired \in BOOLEAN
  /\ fired \in BOOLEAN
  /\ raised \in BOOLEAN
  /\ chld_ready \in BOOLEAN
  /\ watched \in BOOLEAN
  /\ stop \in BOOLEAN
  /\ stop_ready \in BOOLEAN
  /\ stuck \in BOOLEAN

Init ==
  /\ BaseInit
  /\ pc = "new"
  /\ batch = {}
  /\ expired = FALSE
  /\ fired = FALSE
  /\ raised = FALSE
  /\ chld_ready = FALSE
  /\ watched = FALSE
  /\ stop = FALSE
  /\ stop_ready = FALSE
  /\ stuck = FALSE

-----------------------------------------------------------------------------
(* The thread that executes the command *)

\* What a select on the loop reports.  A write event may stay unreported for
\* as long as the kernel has no room.
Ready(e) ==
  CASE e = E_STDIN_WRITE  -> "stdin" \in ends.armed
    [] e = E_STDOUT_READ  -> Readable("stdout")
    [] e = E_STDERR_READ  -> Readable("stderr")
    [] e = E_MASTER_READ  -> Readable("master")
    [] e = E_MASTER_WRITE -> "master" \in ends.armed
    [] e = E_SIGCHLD      -> ends.sigchld /\ watched /\ chld_ready
    [] e = E_TIMEOUT      -> timer # NoTimer /\ expired
    [] e = E_STOP         -> stop /\ stop_ready

\* Registering and deregistering SIGCHLD takes the dispatcher's lock, which nobody
\* gets any more once the main thread waits for itself.
LockTaken == ends'.sigchld # ends.sigchld

ForkAndExec ==
  /\ pc = "new"
  /\ fork_and_exec
  /\ LockTaken => ~stuck
  /\ watched' = TRUE
  /\ pc' = "forked"
  /\ UNCHANGED <<batch, expired, fired, raised, chld_ready, stop, stop_ready, stuck>>

ForkRaises ==
  /\ pc = "new"
  /\ fork_raises
  /\ LockTaken => ~stuck
  /\ watched' = TRUE
  /\ pc' = "raised"
  /\ UNCHANGED <<batch, expired, fired, raised, chld_ready, stop, stop_ready, stuck>>

\* self.run() establishes the initial state.
StartFsm ==
  /\ pc = "forked"
  /\ start_fsm
  /\ pc' = IF thrown' THEN "raised" ELSE "started"
  /\ UNCHANGED <<batch, expired, fired, raised, chld_ready, watched, stop,
                 stop_ready, stuck>>

\* Mutant: a command that needs no challenge gets no stop event.
SetupStopForAuth ==
  /\ pc = "started"
  /\ stop' = (q_now \in AuthStates)
  /\ pc' = "select"
  /\ UNCHANGED <<command, world, batch, expired, fired, raised, chld_ready,
                 watched, stop_ready, stuck>>

SetupStop ==
  /\ pc = "started"
  /\ stop' = TRUE
  /\ pc' = "select"
  /\ UNCHANGED <<command, world, batch, expired, fired, raised, chld_ready,
                 watched, stop_ready, stuck>>

\* No eventfd for the stop event.
SetupStopRaises ==
  /\ pc = "started" /\ MayRunOut
  /\ pc' = "raised"
  /\ UNCHANGED <<command, world, batch, expired, fired, raised, chld_ready,
                 watched, stop, stop_ready, stuck>>

Select ==
  /\ pc = "select"
  /\ LET ready == {e \in Events : Ready(e)} IN
     /\ batch' \in SUBSET ready
     /\ ready \ {E_STDIN_WRITE, E_MASTER_WRITE} \subseteq batch'
     /\ batch' # {}
  /\ pc' = "batch"
  /\ UNCHANGED <<command, world, expired, fired, raised, chld_ready, watched,
                 stop, stop_ready, stuck>>

\* Where execute() goes once run(event) has returned, or raised.
AfterEvent ==
  CASE thrown'                                      -> "raised"
    [] ~thrown' /\ batch' # {}                      -> "batch"
    [] ~thrown' /\ batch' = {} /\ q_now' # Q_DONE   -> "select"
    [] OTHER                                        -> "returned"

\* Mutant: every event acknowledges SIGCHLD too.
RunEventEatsSigchld(e) ==
  /\ pc = "batch"
  /\ e \in batch
  /\ Handle(e)
  /\ batch' = batch \ {e}
  /\ pc' = AfterEvent
  /\ expired' = (expired /\ e # E_TIMEOUT /\ timer' = timer)
  /\ chld_ready' = FALSE
  /\ stop' = (stop /\ q_now' # Q_DONE)
  /\ stop_ready' = (stop_ready /\ e # E_STOP /\ q_now' # Q_DONE)
  /\ fired' = (fired /\ timer' = timer)
  /\ UNCHANGED <<raised, watched, stuck>>

\* One pass of the for loop: acknowledge the event, then run the machine on
\* it.  A handler that closes or replaces the source of an event also ends
\* whatever that source had pending.
RunEvent(e) ==
  /\ pc = "batch"
  /\ e \in batch
  /\ Handle(e)
  /\ LockTaken => ~stuck
  /\ batch' = batch \ {e}
  /\ pc' = AfterEvent
  /\ expired' = (expired /\ e # E_TIMEOUT /\ timer' = timer)
  /\ chld_ready' = (chld_ready /\ e # E_SIGCHLD /\ ends'.sigchld)
  /\ stop' = (stop /\ q_now' # Q_DONE)
  /\ stop_ready' = (stop_ready /\ e # E_STOP /\ q_now' # Q_DONE)
  /\ fired' = (fired /\ timer' = timer)
  /\ UNCHANGED <<raised, watched, stuck>>

\* The with statement around the command ends.
Exit ==
  /\ pc \in {"returned", "raised"}
  /\ close
  /\ LockTaken => ~stuck
  /\ pc' = "closed"
  /\ batch' = {}
  /\ expired' = FALSE
  /\ chld_ready' = FALSE
  /\ stop' = FALSE
  /\ stop_ready' = FALSE
  /\ fired' = FALSE
  /\ UNCHANGED <<raised, watched, stuck>>

-----------------------------------------------------------------------------
(* Other threads, signal handlers and the child *)

\* The threading.Timer of self.timer calls trigger(); it runs once.  A state that
\* was entered with an exception has no such thread.
TimerExpires ==
  /\ timer # NoTimer
  /\ ~(thrown /\ timer = q_now)
  /\ ~fired
  /\ expired' = TRUE
  /\ fired' = TRUE
  /\ UNCHANGED <<command, world, pc, batch, raised, chld_ready, watched, stop,
                 stop_ready, stuck>>

\* The thread of a timer that was cancelled after its wait had passed, of this command
\* or of another, writes to the number that its eventfd had, which is our timer's now.
LateTrigger ==
  /\ MayBeLate
  /\ timer # NoTimer
  /\ expired' = TRUE
  /\ UNCHANGED <<command, world, pc, batch, fired, raised, chld_ready, watched,
                 stop, stop_ready, stuck>>

\* ChildSignalDispatch.handler calls the trigger of every registered command.
DispatchSigchld ==
  /\ raised
  /\ ~stuck
  /\ raised' = FALSE
  /\ chld_ready' = (chld_ready \/ ends.sigchld)
  /\ UNCHANGED <<command, world, pc, batch, expired, fired, watched, stop,
                 stop_ready, stuck>>

\* The handler of a SIGCHLD, of whatever child, is entered in the main thread on top
\* of the code that holds the dispatcher's lock: another call of the handler, or a
\* registration or deregistration of this command or of another.  The main thread
\* waits for itself, and execute() too, where that is its thread or once it needs
\* the lock (NoSelfDeadlock in EventSources).
HandlerBlocks ==
  /\ MayBlock
  /\ pc # "closed"
  /\ ~stuck
  /\ stuck' = TRUE
  /\ UNCHANGED <<command, world, pc, batch, expired, fired, raised, chld_ready,
                 watched, stop, stop_ready>>

\* cancel(), from a signal handler or another thread.  Without self.stop it
\* raises AttributeError: out of execute(), and out of a handler that waits there,
\* when it was a handler in that thread, elsewhere otherwise.
Cancel ==
  /\ pc # "closed"
  /\ \/ /\ stop
        /\ stop_ready' = TRUE
        /\ UNCHANGED <<pc, stuck>>
     \/ /\ ~stop
        /\ UNCHANGED <<pc, stop_ready, stuck>>
     \/ /\ ~stop
        /\ pc' = "raised"
        /\ stuck' = FALSE
        /\ UNCHANGED stop_ready
  /\ UNCHANGED <<command, world, batch, expired, fired, raised, chld_ready,
                 watched, stop>>

\* SIGCHLD for another child of the process, or for ours when it stops or
\* continues, with the handler's call of our trigger.
OtherSigchld ==
  /\ ends.sigchld
  /\ ~stuck
  /\ chld_ready' = TRUE
  /\ UNCHANGED <<command, world, pc, batch, expired, fired, raised, watched,
                 stop, stop_ready, stuck>>

\* Steps of the child and its descendants that raise no signal here.
ChildStep ==
  /\ \/ ChildExecs
     \/ \E r \in Readers : \E kind \in Chunks[r] : ChildWrites(r, kind)
     \/ \E c \in Ends : ChildCloses(c)
  /\ UNCHANGED loop

ChildExit ==
  /\ ChildExits
  /\ raised' = TRUE
  /\ UNCHANGED <<pc, batch, expired, fired, chld_ready, watched, stop,
                 stop_ready, stuck>>

\* exec fails in the child.  Where the caller used a with statement, leaving
\* it closes the child's copy of self.sigchld, and unregister removes the
\* eventfd from the epoll instance the two processes share.
ExecFailure ==
  /\ ExecFails
  /\ raised' = TRUE
  /\ watched' \in {TRUE, FALSE}
  /\ UNCHANGED <<pc, batch, expired, fired, chld_ready, stop, stop_ready, stuck>>

\* The command is closed: nothing but what is left of the child goes on.
Finished ==
  /\ pc = "closed"
  /\ UNCHANGED vars

Thread == ForkAndExec \/ ForkRaises \/ StartFsm \/ SetupStop \/ SetupStopRaises
            \/ Select \/ (\E e \in Events : RunEvent(e)) \/ Exit

Next ==
  \/ ForkAndExec \/ ForkRaises \/ StartFsm \/ SetupStop \/ SetupStopRaises \/ Select
  \/ \E e \in Events : RunEvent(e)
  \/ Exit
  \/ TimerExpires \/ LateTrigger \/ DispatchSigchld \/ HandlerBlocks
  \/ Cancel \/ OtherSigchld
  \/ ChildStep \/ ChildExit \/ ExecFailure
  \/ Finished

Spec == Init /\ [][Next]_vars

\* The thread of execute() is scheduled while it cannot be waiting for the
\* dispatcher's lock for ever, timers expire, and signals are delivered while the
\* main thread runs.  Nothing is assumed of the child, which may run and hold its
\* ends forever.
FairSpec == Spec /\ WF_vars(~stuck /\ Thread) /\ WF_vars(TimerExpires)
                 /\ WF_vars(DispatchSigchld)

-----------------------------------------------------------------------------
(* Properties *)

Executing == pc \in {"started", "select", "batch", "returned"}

\* A configured timeout is never lost: the state's own timer is the one that
\* runs, and once a timer has fired its event is on its way to the machine, in
\* EXITED too, which has only the one that was left running.
TimeoutNotLost ==
  Executing =>
    /\ q_now \in TimedStates /\ Timeout(q_now) \in options.timeouts => timer = q_now
    /\ fired => expired \/ E_TIMEOUT \in batch

\* A select() in execute() returns by itself, whatever the child does: its timer is
\* still to fire or has made its eventfd readable.  Where it has no timer, the
\* state's is not configured, or the state is EXITED (start_timer, TimerEvent).
SelectIsBounded ==
  pc = "select" =>
    \/ timer # NoTimer /\ (fired => expired)
    \/ timer = NoTimer /\ (q_now = Q_EXITED \/ Timeout(q_now) \notin options.timeouts)

\* A timeout the machine is given, even one of a timer that is gone, brings the
\* command nearer to its end: to a signal that was not sent yet or to its verdict
\* (ssh_timeout, sudo_timeout, run_timeout, no_close, term_failed, kill_failed).
TimeoutEscalates ==
  [][pc = "batch" /\ q_now \in Active /\ E_TIMEOUT \in batch \ batch' =>
       q_now' > q_now /\ q_now' >= Q_TERM]_vars

\* While SIGCHLD events are enabled the exit of the child is never lost between
\* the signal, the dispatcher's callback and the batch: acknowledging an event
\* never eats the one trigger that reports our child.
ExitNotLost ==
  child = "zombie" /\ ends.sigchld =>
    raised \/ chld_ready \/ E_SIGCHLD \in batch

\* With every timeout configured execute() comes to an end whatever the child does,
\* unless the main thread waits for itself on the dispatcher's lock, and except from
\* an EXITED that was entered out of an authentication state.
TimeoutsBound ==
  AllTimeouts =>
    <>(pc = "closed" \/ stuck \/ (q_now = Q_EXITED /\ timer = NoTimer))

\* A cancel that found its stop event ends the command, although nothing else
\* would and whatever the child does, once the term and kill timeouts are set,
\* unless the main thread waits for itself.
CancelHonoured ==
  {"term_timeout", "kill_timeout"} \subseteq options.timeouts =>
    (stop_ready ~> pc \in {"returned", "closed"} \/ stuck)

\* The exit of the child is noticed without the help of any timeout, as long
\* as the eventfd of SIGCHLD is still in the epoll set and the main thread does not
\* wait for itself.
ExitNoticed ==
  child = "zombie" /\ watched /\ Executing ~>
    q_now >= Q_EXITED \/ pc = "closed" \/ stuck

\* An exception leaves a child that runs and was never signalled only before the
\* first select(), where SIGTERM is refused, or where the state behind an answered
\* challenge gets no timer.  In particular a cancel finds its event from there on,
\* whatever state the machine is in (cancel, setup_stop, disable_stop, start_timer).
RaisesOnlyEarly ==
  [][pc # "raised" /\ pc' = "raised"
       /\ child' \in {"forked", "running"} /\ signals' = {} =>
       \/ pc \in {"new", "forked", "started"}
       \/ thrown' /\ q_now' = Q_TERM
       \/ thrown' /\ q_now \in AuthStates /\ q_now' \in {Q_SUDO_STDIO, Q_RUNNING}]_vars

\* Seen from its caller the command does what CommandContract says, step by
\* step: each verdict with its evidence, nothing held after it or after close().
Contract == INSTANCE CommandContract WITH
              phase <- Phase(pc \in {"raised", "closed"}), process <- Process,
              explained <- reason # "none", holding <- Holding \/ stop

MeetsContract == Contract!Spec

\* The ends of the command do what EndpointContract promises its owner, and so what
\* Endpoint does; before the fork none of them is closed.
Channels == INSTANCE EndpointContract WITH
              reading <- IF pc = "new" THEN Readers ELSE ends.reading,
              writing <- IF pc = "new" THEN Writers ELSE ends.writing,
              armed <- ends.armed, output <- ends.output

EndsMeetContract == Channels!Spec

-----------------------------------------------------------------------------
(* The inductive invariant *)

\* Where execute() stands and where the machine stands go together; the timer
\* is never one of a state still ahead.
StateOfLoop ==
  /\ pc \in {"new", "forked"} => q_now = Q_START
  /\ pc = "new" => ~child_pid
  /\ pc \in {"forked", "started", "select", "batch"} =>
       child_pid \/ q_now \in {Q_EXITED, Q_DONE}
  /\ pc \in {"started", "select"} => q_now \in Active
  /\ batch # {} => pc \in {"batch", "raised"}
  /\ pc = "batch" => q_now # Q_START
  /\ pc = "returned" => q_now = Q_DONE
  /\ pc \in {"select", "batch"} => stop \/ q_now = Q_DONE
  /\ timer <= q_now /\ (q_now = Q_DONE => timer = NoTimer)
  /\ fired => timer # NoTimer
  /\ thrown => pc \in {"raised", "closed"}

LoopInv == StateOfLoop /\ TimeoutNotLost /\ ExitNotLost

IInv == TypeOK /\ BaseInv /\ LoopInv

-----------------------------------------------------------------------------
(* What the code's own documentation says and the code does not do *)

\* command_base.py: "Timeout (in seconds) for command completion and exit":
\* a command is said to have timed out only when the timer of RUNNING has fired.
TimeoutsAreReal ==
  [][reason # "Command timeout" /\ reason' = "Command timeout" =>
       timer = Q_RUNNING /\ fired]_vars

\* "Performing a sudo password authentication on stdin/stdout": a prompt read
\* from stdout is answered.
StdoutPromptAnswered ==
  pc = "select" /\ q_now = Q_SUDO_STDIO => ~Prompted(ends.input["stdout"])

\* "Do this before the fork so we do not lose the SIGCHLD."
SigchldNotLost ==
  child = "zombie" /\ ends.sigchld =>
    raised \/ (watched /\ chld_ready) \/ E_SIGCHLD \in batch

=============================================================================
