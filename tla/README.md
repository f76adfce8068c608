# A verification of cavcom's command execution

`src/` is a small python library. Its core, `commands/`, runs one child command
(locally or over ssh, plainly or under sudo), answers the password challenges
and collects the output; `events/` holds the event sources it is built from.
This directory models both in TLA+, checks them with TLC on small instances
and proves their invariants with TLAPS for every configuration.

    tlc -workers 2 -config SelectSafety.cfg MCSelectCommand.tla
    tlapm SelectCommandProofs.tla

All paths below are under `src/python/`.

## 1. The system

| component | source | state | operations |
|---|---|---|---|
| CommandBase | `commands/command_base.py` | FSM state, child pid, status, reason, four endpoints, pty slave | `fork_and_exec`, the 9x8 state matrix of `setup_fsm` and its handlers, `close` |
| Command (select) | `commands/command.py` | selector, `timer`, `sigchld`, `stop` events | `execute`, `start_timer`, `cancel`, `close` |
| Command (asyncio) | `commands/acommand.py` | `next_events`, `event_wait`, call_later handle | `execute`, `add_event`, `start_timer`, `cancel`, `close` |
| FiniteStateMachine | `events/fsm.py` | `q_now` | `run`: action, exit method, entry methods, until a state stays |
| I/O endpoints | `events/io_endpoint.py`, `select_endpoint.py`, `aio_endpoint.py` | reader, writer, `input_data`, `output_data`, registrations | `read`, `write`, `fetch_input`, `read_only`, `write_only`, `close` |
| Event sources | `events/event_handler.py`, `timer_event.py`, `signal_event.py` | an eventfd, a timer thread | `trigger`, `acknowledge`, `start`, `cancel`, `close` |
| Signal dispatchers | `events/signal_handler.py`, `signal_ahandler.py` | the callbacks of one signal, a lock | `register_callback`, `deregister_callback`, `handler` |
| PTYManager | `events/pty_manager.py` | master, slave, terminal modes | set-up only |
| asyncio TimerEvent | `events/timer_aevent.py` | a call_later handle | used by no command |
| Argument types | `arguments/` | none | validation of strings and numbers |

**Interaction.** `execute()` forks the child, enters the machine's first state
and then feeds it events: output to read, room to write, SIGCHLD, a timeout, a
cancel. Handlers read and write endpoints, start and stop the one timer, signal
and reap the child. Events come from outside the thread of `execute()`: the
select implementation has timer threads, the signal handler and any caller of
`cancel` increment eventfds that one `select()` returns as a batch; the asyncio
one has callbacks of the event loop add to the set `next_events` and set the
future `event_wait`. All commands of a process share one dispatcher, its lock
and the descriptor table. The child shares pipes, the pty, and (until its exec)
every descriptor with its parent.

**What is hard.** The events of a batch run in an order nobody fixes, each on
what the one before left; a timer may fire while another event replaces it; a
SIGCHLD may be another child's; a cancel comes at any line; the child may exit,
close its ends, leave descendants that keep them open, ignore SIGTERM, or fail
to exec, in any order with all that; a prompt may arrive in pieces; the fork or
a signal may fail; the signal handler interrupts the code that registers with
it; a descriptor closed here is another thread's a moment later. PROJECT.json
lists these hazards at their lines, each with the properties that would catch
it.

**What makes each component correct.**

* CommandBase: a command that is done has a sound verdict, which is final;
  SIGKILL follows SIGTERM; no signal goes to a pid that was reaped; EXITED waits
  only for a stdout that can close; every configured challenge is met, in order,
  with the password going where its prompt came from and only once; a write
  event is registered exactly while there is something to write; whatever is
  raised, `close()` gives back what the command holds.
* Either loop: no timeout and no exit of the child is lost on its way to the
  machine; `execute()` returns; a cancel is honoured.
* Endpoints: bytes stay whole and in order; what is pending is delivered; what
  failed is closed; no descriptor is used or watched once it is closed.
* Event sources and dispatchers: no trigger is lost, none reaches a descriptor
  that is no longer its own; every callback registered hears of every signal;
  no deadlock on the lock.

## 2. Modules

```
CommandContract        what a command promises its caller
EndpointContract       what an endpoint promises its owner
CommandBase            the machine, its handlers, endpoints, the child
  SelectCommand        + execute() and event sources of command.py
    MCSelectCommand      instances for TLC
  AioCommand           + execute(), event loop callbacks of acommand.py
    MCAioCommand         instances for TLC
Endpoint               one endpoint of either class, its loop and its peers
EventSources           eventfds, timer threads and the signal dispatcher
CommandBaseProofs      what every handler does to the machine's invariants
SelectCommandProofs    theorems about SelectCommand   (EXTENDS both)
SelectContractProofs   SelectCommand implements CommandContract, its ends EndpointContract
AioCommandProofs       theorems about AioCommand      (EXTENDS both)
AioContractProofs      AioCommand implements CommandContract, its ends EndpointContract
EndpointProofs         theorems about Endpoint
EventSourcesProofs     theorems about EventSources
```

### CommandBase

| variable | code |
|---|---|
| `options` | the constructor's arguments that steer control: `use_ssh_password`, `use_sudo_password`, `redirect_stderr`, and which of the four timeouts are not None |
| `q_now` | `FiniteStateMachine.q_now`, with the code's numbers |
| `timer` | `self.timer`, as the state whose entry started it |
| `ends` | the four endpoints: `reading` and `writing` are the sides open, `armed` the registered write events, `input` and `output` the buffers; `sigchld`, `slave`, and `bare`, a pty master that came into no endpoint |
| `child_pid`, `status`, `reason` | the fields of these names |
| `signals`, `thrown` | what `os.kill` has sent, and whether the entry into a state has raised |
| `child`, `held`, `buf` | the kernel's side: the process, the ends somebody else holds open, the bytes on their way to us |

Each method of the state matrix is one operator, `Handle(e)` is the matrix with
its dispatch, and `Move`/`Stay` are `fsm.run` after the action: the exit method
of the state left and the entry methods of those entered, through `term_child`
or `kill_child` on to DONE if no child is left (`Rest`). `Entered` is what an
entry method does, or fails to do (`thrown`): for TERM and KILL `os.kill` is refused
when the child has become another user's, as one under sudo does (`OtherUser`), and
then no timer is started; for every timed state `start_timer` may find no eventfd or
no thread (`MayRunOut`), and raises with the machine in the new state, a signal sent
if there was one to send, and the new timer there or not. One `Handle` is one call of `run(event)`: it is atomic, as
nothing else in the process changes the machine meanwhile; what other threads
and the kernel may do meanwhile touches only state that the handler reads once,
so it can be ordered before or after.

`fork_and_exec` is one step as well, since nothing the child or a signal does in
between is seen before it ends. `fork_raises` is every way out of it by an
exception: a pipe or the pty cannot be made, the SIGCHLD event or `os.fork` fails
with the pty already open, or the `dup` of `setup_master` fails when the child is
already running.

`Holding` is what `close()` of CommandBase gives back: endpoints, SIGCHLD, the slave,
the timer. The select loop's stop event is added where the contract is instantiated;
a pty master in no endpoint (`bare`) is in neither, as `close()` does not know of it and
leaves it open.

Data is abstracted to what challenges tell apart. Output is a set of kinds:
text, a prompt that completes the regex, and `split`, an end in the middle of a
character, which does not decode until more arrives (`Joined`). A read takes all
there is (a partial `os.read` leaves the end readable, which is a later write of
the child here). `Chunks` says which kinds the child may write to which end. A
write may take any part. `status` is `exit` (what `waitstatus_to_exitcode` gives,
zero or not) or `failed` (the 1 of `kill_failed`). When the child exits any of
its ends may stay open: a descendant has them, or a child that another thread
forked meanwhile, since `os.pipe2(O_NONBLOCK)` makes inheritable descriptors.

### SelectCommand

`Select` takes every ready event into `batch` (a write event may be left out
while the kernel has no room), `RunEvent` is one pass of the `for` loop in any
order, with the acknowledgement and the closing of what the handler replaced;
`AfterEvent` is where `execute()` goes then.
`expired`, `chld_ready` and `stop_ready` are the eventfd counters of `self.timer`,
`self.sigchld` and `self.stop`. Between any two steps the timer thread
(`TimerExpires`), the dispatcher (`DispatchSigchld`), a SIGCHLD of another child or of
ours when it stops or continues (`OtherSigchld`), a cancel (`Cancel`) and the child
itself go on. A timer that is cancelled when it has passed its wait still triggers: its
eventfd is closed by then, and the number is most likely the next TimerEvent's of the
same command, whose loop then sees a timeout that did not happen. `LateTrigger` is
that write, from a timer of this command or of another, and may come at any time
while there is a timer (`MayBeLate`, in `select_safety`). On the stop or the SIGCHLD
event it would do what a `Cancel` or an `OtherSigchld` does. `SetupStopRaises` is the one
eventfd that `execute()` opens itself.

`HandlerBlocks` is the dispatcher's lock as one command sees it (`dispatch_deadlock`):
the main thread waits for itself, and `execute()` with it where that is its thread. From
then on no SIGCHLD is dispatched, nobody registers or deregisters (`LockTaken`), and
fairness obliges the thread of `execute()` to nothing (`stuck`). A step may still be
taken, as `execute()` may run in another thread: the block is placed before the step
that would need the lock. An AttributeError out of a cancel may unwind such a handler
again. `MayBlock` allows all this in `select_live`. A blocked command only has
fewer steps to take than one that is not, with nothing done to it, so the safety runs,
where MayBlock is FALSE, lose no reachable step of the command by leaving it out; the
proofs are for both values.

`ExecFailure` is
`execvp` raising in the forked process, which unwinds through the caller's `with`
statement and there removes the SIGCHLD eventfd from the epoll instance that it
shares with its parent (`watched`).

### AioCommand

`Wake`, `RunEvent` and `NewFuture` are the two nested loops of `execute()`:
`pc = "drained"` is the point between the last look at `next_events` and the new
`event_wait`. Callbacks of the loop (`EndpointReady`, `TimerExpires`,
`DispatchSigchld`) run only while the task waits; `Cancel`, installed with the
signal module as the main program does, runs between any two of its steps.
`EndpointReady` is deliberately generous: any registered endpoint may report,
because a handle the loop has queued may run after the task has read what was
there. `DispatchSigchld` removes the callback, since `add_event` returns None
(`registered`); `OtherSigchld` is a SIGCHLD of another child or of our own when it stops
or continues, which the kernel reports as well, and `strayed` remembers that one came
before the exit. `call_later` needs neither descriptor nor thread: `MayRunOut` is FALSE
here (`TimersAssumption`). `CancelTask` is a cancellation of the task at its await.
`Dispatched` is the dispatcher of the class, which stays bound to the event loop
of the first command that was ever constructed (`EarlierLoops`).

### CommandContract

What the caller of `execute()` may rely on, with no machine, event, timer or pipe:
a phase (`idle`, `executing`, `draining`, `terminating`, `done`, `abandoned`), the
child, the verdict and whether it was explained, the signals sent, and whether the
command holds anything that `close()` gives back. The refinement mapping is
`Phase`, `Process` and `Holding` of CommandBase, the same for both loops but for
the stop event of the select loop, which is held too: the some twenty variables of
either map to six, and each step of either to a step of the contract or to none.
`abandoned` is an exception that left `execute()`, out of the fork, at an await, out
of a cancel, of `os.kill` or of `start_timer`, which may come after a signal was sent;
the contract says that afterwards nothing is reaped, signalled or decided any more, and that `close()`
still lets go of all that is held.

### Endpoint

One `IOEndpoint` of either derived class (`loop`), with the kernel on either side.
`table` is the process's descriptor table, whose numbers `Elsewhere` takes and
gives back: a number the endpoint has closed may be somebody else's at once. `0`
is one of them, and `True` is python's truth of a descriptor. `reader_key` and
`writer_key` are `SelectEndpoint`'s keys and `AIOEndpoint`'s `*_active`; the one
difference between the two, that the one unregisters the key's descriptor and the
other the current one, is `Watched`.

`calls` is the stack of callbacks that are running: `read()` and `write()` call
them before they close anything, and each may call the endpoint once itself.
`Read`, `ReadEof`, `Write`, `WriteError` and `WriteNothing` run up to the callback
and `Return` does what is left. A read takes any part of what has arrived, a write
any part that there is room for, which may be none. A `write()` after the writer
was closed raises TypeError, which the code turns into an error of the writer.
Bytes are numbered, so that order is visible.

### EndpointContract

What the owner of endpoints may rely on, with no descriptor, callback or byte: the
readers and writers that are open, the writers the loop reports, and how much waits
for each. Ends are closed for good (`Close`), a call of `write()` takes any part of
what waits and leaves the writer watched exactly if something is left (`Write`), and
one that fails loses nothing (`Fail`).

Two specifications that were written from different sides of the code implement it.
Endpoint does with one reader and one writer (`Contract`): a writer that failed is
closed to its owner before its callback has returned, and an end with number 0 is
none, as the loop cannot watch it. SelectCommand and AioCommand do with all the ends
of a command (`Channels`), whose `AfterRead`, `Written` and `Closed` are thereby held
to the promises that the proved endpoint keeps. The mapping there is the fields of
`ends`, with every end open before the fork.

### EventSources

`Owners` are threads with a select loop each, one of them may be the main thread.
`sources` are the eventfds they have opened, `table` who has which number, `ready`
those that are readable. `Open`, `Insert` and `Release` are the constructor of a
signal event, with the lock of the dispatcher held in between, `Pop`, `Release`
and `CloseSignal` its close; `Start`, `CloseTimer`, `Pass` and `Trigger` are a
TimerEvent and its thread, which having passed its wait cannot be cancelled any
more. The signal handler (`Interrupt`, `HandlerLock`, `Call`, `HandlerReturn`) runs
on top of the main thread, which does not run meanwhile (`Runs`), and a second
signal may interrupt it (`depth`).

`expired`, `chld_ready` and `stop_ready` of SelectCommand are three sources of this
module that belong to one thread; that they have one writer each, which
SelectCommand takes for granted, is what `RegisteredIsOpen` and
`OnlyLateTriggersStray` are about. The late trigger is the exception, and SelectCommand
has it (`LateTrigger`).

## 3. What the runs check

| run | question | result |
|---|---|---|
| `select_safety` | machine and select loop, with failures of fork, kill and timers: 8 invariants, 5 action properties, and that it implements CommandContract and its ends EndpointContract | holds |
| `select_live` | a cancel that found its event ends the command; the exit of the child is noticed without a timeout; with all timeouts `execute()` returns whatever the child does | holds, but for a main thread that waits for itself and, the last, an EXITED without a timer |
| `aio_safety` | machine and asyncio loop, a sudo challenge whose prompt may be split inside a character, SIGCHLDs that are not the exit's: the inductive invariant, 4 more and CommandContract | holds |
| `aio_timeouts` | `execute()` returns although SIGCHLD and cancels may be lost, with the dispatcher on an earlier loop | holds, but for an EXITED without a timer |
| `event_sources` | who is written to, who hears of a signal, and who is waited for, with two threads, late timers and reused descriptors | holds, but for a main thread that waits for itself |
| `endpoint` | registrations, descriptors and bytes of an endpoint whose callbacks call it again; pending input and output are delivered; it implements EndpointContract | holds, but for descriptor 0 |
| `stale_timeout` | a timeout is that of the state it ends | violated |
| `stdout_prompt` | a sudo prompt on stdout is answered | violated |
| `exec_failure` | the parent hears of a child whose exec failed | violated |
| `aio_lost_wakeup` | no event waits in the queue of a sleeping task | violated |
| `aio_lost_sigchld` | the exit of the child is reported although another SIGCHLD came first | violated |
| `dispatch_deadlock` | the signal handler never waits for the code it has interrupted | violated |

The six violations are disagreements of the code with its own comments and
docstrings; each is a finding in PROJECT.json with both lines:

1. `execute()` runs every event of a batch even when an earlier one moved the
   machine on. In the trace the sudo prompt on the master and the password timeout of
   SUDO_MASTER are ready together: the first is answered and leads to RUNNING, where
   the second is taken for the timeout of the command.
2. In SUDO_STDIO the challenge handler is bound to `E_MASTER_READ`; a prompt on
   stdout is collected by `read_stdout` and answered only if the master happens
   to become readable.
3. A failed `execvp` lets the child run `close()` on descriptors it shares.
4. A cancel between the empty queue and the new future wakes nobody.
5. The asyncio SIGCHLD callback is removed by its first signal, whichever child
   that was for, and although our own child may only have stopped or continued.
6. The handler of a signal takes a lock that is not re-entrant, in the main
   thread: on top of a registration, a deregistration or itself it waits for ever.

Where a property of a passing run has an exception, the exception is a thing to
know about the code too:

* `RaisesOnlyEarly` says where an exception leaves a child that runs and was never
  signalled: before the first `select()` (a failing `fork_and_exec`, the first timer, the
  stop event, an early cancel), where SIGTERM is refused, and where the state behind an
  answered challenge, SUDO_STDIO or RUNNING, gets no timer because the process is out
  of descriptors or threads. The early cancel is one that a signal handler calls between
  the fork and `setup_stop()`: `self.stop` is still None, an AttributeError leaves
  `execute()`, and `close()` leaves the child running.
* `TimeoutsBound`, `CancelHonoured` and `ExitNoticed` except a main thread that waits for
  itself on the dispatcher's lock (`stuck`, the last finding): every way to DONE
  deregisters SIGCHLD under that lock, so such an `execute()` never returns, and a
  handler that waits under another dispatches nothing any more.
* `TimeoutsBound` excepts an EXITED without a timer. The state has no entry action
  and the authentication states stop theirs on leaving, so a child that exits during
  a challenge while somebody else holds its stdout open leaves the command there;
  from RUNNING the command timer goes on running and leads to `no_close`.
* `OnlyLateTriggersStray` excepts a timer that had passed its wait when it was
  cancelled; its write may go to another source, which then reports an event that
  did not happen.
* `SelectIsBounded` and `AwaitIsBounded` except that same EXITED, and a state whose
  timeout is None.
* `LockMoves` excepts a main thread that waits for itself (the last finding).
* `FailedIsClosed` and `OutputDrains` except descriptor 0, which the endpoints
  neither watch nor close, since they test its truth and not whether it is None.
* `OnlyStraysLoseExit` excepts an exit that comes after another SIGCHLD has taken
  `add_event` out of the dispatcher (the fifth finding).
* The contract's `holding` leaves out `bare`: an exception between `openpty` and
  `setup_master` leaves the pty master open, as `self.master` is not set yet and
  PTYManager is not closed.

Two more were met on the way and are not the subject of a property. `io_endpoint.py`
says (30-33, 45-47) that the event is unregistered and the descriptor closed before
the EOF and the error callback is called; the code calls it first, and the model
follows the code. `PTYManager.set_nonblocking(True)` passes True on to
`os.set_blocking` and so makes the two ends blocking, the reverse of its docstring;
the master becomes non-blocking again in its endpoint.

**Bounds.** A command has no counters to cap: buffers are sets of kinds, eventfds are
zero or not, and `output` never exceeds the one password, as a challenge state is
left when it is answered (`ChallengesMet`, proved). `PasswordLength = 1` leaves
both outcomes of a write (nothing taken, all taken); longer passwords add partial
writes, which differ in nothing that a handler looks at, and the proofs are for
every length. `select_safety` starts from both challenges, from the one on the
master, and from an unchallenged command with and without its own stderr, each with a
different set of timeouts, with a child that may become another user's and timers that
may fail. The other runs use the smallest configuration in which the case happens:
`select_live` a sudo challenge with every timeout, and one with no timeouts but those of
TERM and KILL, as nothing else may end that command; `aio_timeouts` a sudo challenge with
every timeout; `aio_safety` a sudo challenge whose prompt may arrive `split`, with the
timeouts of TERM and KILL and refused kills. `select_live` leaves failing timers to the other runs, since what raises ends `execute()`
at once, and late triggers (`MayBeLate` is FALSE): each is one more timeout, and
`TimeoutEscalates` shows that a timeout only brings the end nearer.
Of what a command can meet, only the number of reads, cancels, late triggers and foreign
SIGCHLDs is not finite by nature, and none of these is counted.

The other two modules count. `event_sources` opens 3 descriptors, starts 2 timers, 4
of the two together (`Both`), and raises 2 signals: enough for a number to be closed
and given to the other thread under a late trigger, for a timer to be restarted, and
for a signal to interrupt the handler of another. `endpoint` has descriptors 0 to 2,
2 bytes in each direction and room for 1 in the kernel, so that a write is partial,
blocked or whole, and callbacks 2 deep, so that a callback is called by a callback.
The proofs have none of these bounds.

**Fairness.** `SelectCommand!FairSpec` is weakly fair for the thread of `execute()`
(the OS schedules it; `select()` returns when something is ready) only while the main
thread does not wait for itself (`~stuck /\ Thread`), for an armed timer
(`threading.Timer` runs in its thread) and for a pending signal (python runs handlers
between bytecodes), which is not dispatched once `stuck` either. Nothing obliges
`HandlerBlocks` or `LateTrigger` to happen. `AioCommand!FairSpec` needs strong fairness for timer
and dispatcher: their callbacks are enabled only while the task waits, and every
pass of the event loop runs the timers that are due and the signals that have
arrived. It also assumes that cancels come to an end, since a handler that adds
E_STOP at every pop would keep the inner loop of `execute()` from ever emptying the
queue. Nothing is assumed of the child: it may run, write or hold its ends for
ever, and ignore SIGTERM.

`EventSources!FairSpec` is weakly fair for a thread that registers or holds the lock
and for the handler, and obliges no loop to open, acknowledge or close anything; as
the bounds leave the lock finitely many owners, weak fairness is enough.
`Endpoint!FairSpec` lets callbacks return and the peer read, and is strongly fair for
the loop's two events, as a `select()` reports all that is ready each time round
while other calls of the program may disable and enable them in between.

`CHECK_DEADLOCK` is off in `event_sources` and `dispatch_deadlock`, whose threads may
stop anywhere and whose main thread really does deadlock; it is on in the others: a
closed command stutters in `Finished`, and the rest of the process goes on beside an
endpoint.

## 4. What is proved

For every `Options`, `Chunks`, `PasswordLength`, `OtherUser` and `MayRunOut` that satisfy
the named assumptions of CommandBase, every `MayBlock` and `MayBeLate` of SelectCommand, and
every `EarlierLoops` of AioCommand, where `MayRunOut` is FALSE:

* SelectCommand: `TypeOK`, `PidIsOurs`, `DoneHasVerdict`, `ExitedIsReading`,
  `ChallengesMet` with `MasterPromptAnswered`, `WriteEventsMatchOutput`,
  `TimeoutNotLost`, `SelectIsBounded`, `ExitNotLost`, the action properties
  `Escalation`, `VerdictIsFinal`, `SignalsOnlyOurChild`, `TimeoutEscalates` and
  `RaisesOnlyEarly`, and the refinements `MeetsContract` and `EndsMeetContract`.
* AioCommand: `IInv` itself, of which `TypeOK`, `PidIsOurs`, `DoneHasVerdict`,
  `ExitedIsReading`, `ChallengesMet`, `MasterPromptAnswered`, `WriteEventsMatchOutput`
  and `TimeoutNotLost` are parts; `AwaitIsBounded`, `OnlyStraysLoseExit`,
  `OnlyStopSleeps`, `Escalation`, `VerdictIsFinal`, `SignalsOnlyOurChild`, and the
  refinements `MeetsContract` and `EndsMeetContract`.

For every set of descriptors and every number of bytes, nested callbacks, threads,
events, timers and signals:

* Endpoint: `TypeOK`, `NumbersAreOurs`, `WatchedAreOurs`, `WriteEventWhilePending`,
  `FailedIsClosed`, `BytesInOrder`, and the refinement `MeetsContract`.
* EventSources: `TypeOK`, `LockMoves`, `RegisteredIsOpen`, `OnlyLateTriggersStray`,
  and that a main thread which waits for itself does so for ever (`DeadlockStays`).

Between them these are all the safety properties of the passing runs.

**The argument for a command.** None of these is inductive alone. That SIGTERM goes
to a child that is still there needs to know that a timed state has a pid
(`StateOfChild`); that a pid is a child not yet reaped (`PidIsOurs`) and that the
verdict at DONE is sound need which signals were sent in which state, and where the
entry raised instead (`thrown`); that the password is offered once needs that nothing has been written
before its prompt (`StateOfChallenge`); that no expiry is lost needs that the timer
is never that of a state ahead and that a machine in START is not yet looping
(`StateOfLoop`). Their conjunction

    IInv == TypeOK /\ BaseInv /\ LoopInv

is inductive, and TLC checks it: as an invariant in `aio_safety`, which therefore does
not list its conjuncts, and by most of its conjuncts in `select_safety`.
`WriteEventsMatchOutput` is a conjunct of it and, under the select loop, follows from
`EndsMeetContract`.

`CommandBaseProofs` does the part that both loops share. `HandlePreserves`: one
call of `run(e)`, whatever the event and whether stale or not, preserves
`BaseInv`. It rests on a lemma per handler, and these on `MoveFacts`,
`StayPreserves`, `EnteredFacts`, `AfterReadFacts` and `WrittenFacts`, which say what
leaving, keeping and entering a state and reading or writing an endpoint do.
`HandleOutcome` says how a handler leaves what the loops watch: either the machine
stays where it is and its timer runs on, or it moves forward and the timer is the
new state's or none. `WorldPreserves`, `ForkPreserves`, `ForkRaisesPreserves`,
`StartPreserves` and `ClosePreserves` are the steps outside the machine. The two
proof modules add one lemma per action of their loop, and `NextInv` collects them.
The action properties follow from `IInv` on both sides of a step.

**The safety core of `TimeoutsBound`.** That `execute()` returns whatever the child
does is a liveness property and stays with TLC. What it rests on, beside the fairness
of the timer, is proved for every configuration: a wait of the loop always has its
timer, with an expiry still to come or already reported (`SelectIsBounded`,
`AwaitIsBounded`, from `TimeoutNotLost`), every expiry that the machine is given
takes it to TERM or beyond (`TimeoutEscalates`, from `TimeoutOutcome`), and it never
comes back (`Escalation`). `TimeoutNotLost` had to be strengthened for that: an expiry
is on its way whenever the timer has fired, in EXITED too: `AdvanceTimer` shows that no
other state keeps the timer of the one before it.

**The refinement.** `MeetsContract` is proved for either loop from `IInv` and one
more invariant, `StateOfHolding`: the slave is held from the fork to the end, so
`holding` is true throughout an execution, the stop event adds nothing to it, and
nothing is held at DONE. `StepKinds`
divides the steps into those that leave the command as it is (they map to a stutter,
or to `Abandon` when they raise) and the fork, the start, the events and the exit;
`AdvanceFacts` of CommandBaseProofs says which pairs of phases an event can join and
with what evidence; `ContractStep` puts them together, `ContractStart` is the initial
states.

**The ends of a command.** `HandleEnds` of CommandBaseProofs shows that every event
does to `ends` what EndpointContract allows: `WrittenWrites` for the four outcomes of
a write, `ReadShrinks`, `ClosedShrinks` and `MoveShrinks` for what closes ends, and
`ChallengeMoves` for the answer to a prompt, which may read the end of the input, write
and change the state at once, but never to DONE, so that nothing is written and closed
in one step. It needs `WriteEventsMatchOutput`: a closed writer that was still watched
would be a step that the contract has not. `ChannelsStep` adds the steps of the loop.

**The endpoint.** `EndsInv` says that a registration is of the current descriptor,
which is the endpoint's own and not 0, and that the loop watches nothing else. It is
what `unregister` before `close` before `None` keeps true between any two calls,
including those of callbacks, and gives `NumbersAreOurs` and `WatchedAreOurs`.
`FailedInv` puts the failed end's callback on the stack for as long as the end is
open. `BytesInv` is `BytesInOrder` with the types that sequence reasoning needs;
`Parted`, `NumbersGrow` and `Associative` are its lemmas about sequences. `BoundsInv`
is what `TypeOK` needs beside them, the depth of the callbacks above all.

`MeetsContract` needs one more invariant, `FailsForGood`: a `write()` has failed only
when the writer is closed or its peer is gone, so no later one succeeds. A close by the
owner or by a callback that returns is a `Close` (`CloseMaps`), a call of `write()` a
`Write` (`WriteMaps`), one that fails a `Fail` (`ErrorMaps`), and all else stutters.

**Event sources.** `EventInv` is `LockInv` (a thread inside its `with` block has the
lock, and so has the handler from its first callback to its last), `CallbacksInv` (a
registered callback is that of an open event whose thread has not begun to close it)
and `TimersInv` (a timer that was not cancelled is the current one of its event). No
thread changes the callbacks while the handler goes through them, because it holds
the lock; so those it has still to call are open (`RegisteredIsOpen`). With `TypeInv`,
which bounds `holder` and `depth`, `LockInv` also says where the lock's holder stands:
a thread at the end of its `with` block, or a frame of the handler; the latter is the
innermost frame, and runs, or else the main thread waits for itself (`LockMoves`).

**Only model-checked.** The liveness properties (`CancelHonoured`, `ExitNoticed`,
`TimeoutsBound`, `EverySignalHeard`, `RegistrationEnds`, `OutputDrains`,
`InputArrives`: fairness and ENABLED are beyond TLAPS) and the six violations.

## 5. What is not modelled

* `make_command`, `add_arguments`, `create_command`, `arguments/`: they build lists
  and strings and keep no state the execution depends on.
* Terminal modes of the pty and the dup2s of `exec_child`: pure I/O. What remains
  of them is that the slave stays open in the parent, so that the master never
  meets EOF.
* `timer_aevent.py`: no command uses it.
* `close()` of the two dispatchers, which nobody calls, and the asyncio dispatcher's
  callbacks for other commands: it runs in one thread and has no lock.
* The AttributeError of a cancel that unwinds a handler of the main thread while
  `execute()` runs in another thread, or that comes out of `close()` itself.
* FSM exit methods that return a state: no machine has one. An empty prompt regex.
* Exceptions out of callbacks of an endpoint, which the code does not catch.

## 6. Where to go on

* The composition of SelectCommand with EventSources: two commands whose eventfds are
  sources of one table, with the late trigger of one as the `LateTrigger` of the other.
* EndpointContract leaves out the input and the bytes: what `fetch_input` returns of
  a command's ends, in which order, is known of Endpoint only.
* Several asyncio commands on one dispatcher, with the removal of a callback while
  the dispatcher goes through them.
