---------------------------- MODULE CommandBase ----------------------------
(***************************************************************************)
(* commands/command_base.py: the event driven execution of one child       *)
(* command, shared by the select loop and the asyncio implementations.     *)
(*                                                                         *)
(* The module holds the command's own state, the handlers of its finite    *)
(* state machine (one operator per method, driven by fsm.run) and the      *)
(* world they act on: the child process and the pipes and pty it shares    *)
(* with the command.  The two event loops compose Handle(e) with their own *)
(* queues; see SelectCommand and AioCommand.                               *)
(***************************************************************************)
EXTENDS Integers

CONSTANTS
  Options,         \* the configurations a command may be constructed with
  Chunks,          \* the kinds of output a child may write in one go to each end
  PasswordLength,  \* bytes of password.strip() + "\n"
  OtherUser,       \* whether the child may run as a user we may not signal
  MayRunOut        \* whether the process may be out of descriptors or threads
                   \* once the child runs

TimeoutNames == {"password_timeout", "command_timeout",
                 "term_timeout", "kill_timeout"}

\* The keyword arguments of CommandBase that steer control.  ssh and sudo are
\* use_ssh_password and use_sudo_password; timeouts names those not None.
OptionSet == [ssh : BOOLEAN, sudo : BOOLEAN, redirect : BOOLEAN,
              timeouts : SUBSET TimeoutNames]

ASSUME OptionsAssumption == Options \subseteq OptionSet

ASSUME PasswordAssumption == PasswordLength \in Nat \ {0}

ASSUME FailuresAssumption == OtherUser \in BOOLEAN /\ MayRunOut \in BOOLEAN

-----------------------------------------------------------------------------
(* States and events of the machine *)

Q_START == 0
Q_SSH_MASTER == 1
Q_SUDO_MASTER == 2
Q_SUDO_STDIO == 3
Q_RUNNING == 4
Q_EXITED == 5
Q_TERM == 6
Q_KILL == 7
Q_DONE == 8

States == Q_START .. Q_DONE
AuthStates == {Q_SSH_MASTER, Q_SUDO_MASTER, Q_SUDO_STDIO}
Active == States \ {Q_START, Q_DONE}

E_STDIN_WRITE == 0
E_STDOUT_READ == 1
E_STDERR_READ == 2
E_MASTER_READ == 3
E_MASTER_WRITE == 4
E_SIGCHLD == 5
E_TIMEOUT == 6
E_STOP == 7

Events == E_STDIN_WRITE .. E_STOP

Readers == {"stdout", "stderr", "master"}
Writers == {"stdin", "master"}
Ends == Readers \cup Writers

\* "prompt" completes a text the expected regex matches; "split" ends in the
\* middle of a character, so the data does not decode until more arrives.
Kinds == {"text", "prompt", "split"}

ASSUME ChunksAssumption == Chunks \in [Readers -> SUBSET Kinds]

Reasons == {"none", "SSH authentication timeout",
            "SUDO authentication timeout", "Command timeout",
            "Command canceled", "Command did not terminate",
            "Warning: stdout did not close as expected"}

VARIABLES
  options,    \* the constructor's arguments
  q_now,      \* FSM.q_now
  timer,      \* self.timer: NoTimer, or the state whose entry started it
  ends,       \* the endpoints and the SIGCHLD registration, see EndsType
  child_pid,  \* self.child_pid is not None
  status,     \* self.status
  reason,     \* self.reason
  signals,    \* the signals os.kill has sent to child_pid
  thrown,     \* os.kill or start_timer has raised, out of an entry method
  child,      \* the child process, as the kernel sees it
  held,       \* ends open in the child, a descendant or another command's child
  buf         \* what the kernel buffers hold for each of our readers

command == <<options, q_now, timer, ends, child_pid, status, reason, signals,
             thrown>>
world == <<child, held, buf>>

NoTimer == 0

\* sigchld: SIGCHLD events are enabled; slave: our copy of the pty slave is
\* open; armed: a write event is registered; input: what input_data holds
\* that a challenge tells apart; output: the bytes left in output_data; bare:
\* the pty master is open, but in no endpoint.
EndsType ==
  [reading : SUBSET Readers, writing : SUBSET Writers, armed : SUBSET Writers,
   input : [Readers -> SUBSET {"prompt", "split"}], output : [Writers -> Nat],
   sigchld : BOOLEAN, slave : BOOLEAN, bare : BOOLEAN]

BaseTypeOK ==
  /\ options \in OptionSet
  /\ q_now \in States
  /\ timer \in {NoTimer} \cup AuthStates \cup {Q_RUNNING, Q_TERM, Q_KILL}
  /\ ends \in EndsType
  /\ child_pid \in BOOLEAN
  /\ status \in {"none", "exit", "failed"}
  /\ reason \in Reasons
  /\ signals \in SUBSET {"SIGTERM", "SIGKILL"}
  /\ thrown \in BOOLEAN
  /\ child \in {"none", "forked", "running", "zombie", "reaped"}
  /\ held \in SUBSET Ends
  /\ buf \in [Readers -> SUBSET Kinds]

BaseInit ==
  /\ options \in Options
  /\ q_now = Q_START
  /\ timer = NoTimer
  /\ ends = [reading |-> {}, writing |-> {}, armed |-> {},
             input |-> [r \in Readers |-> {}], output |-> [w \in Writers |-> 0],
             sigchld |-> FALSE, slave |-> FALSE, bare |-> FALSE]
  /\ child_pid = FALSE
  /\ status = "none"
  /\ reason = "none"
  /\ signals = {}
  /\ thrown = FALSE
  /\ child = "none"
  /\ held = {}
  /\ buf = [r \in Readers |-> {}]

-----------------------------------------------------------------------------
(* Endpoints (events/io_endpoint.py) *)

\* Appending t to s: a character s left incomplete is completed by t, and mere
\* text next to anything else tells nothing.
Joined(s, t) ==
  LET all == IF t = {} THEN s ELSE (s \ {"split"}) \cup t
  IN IF all = {"text"} THEN all ELSE all \ {"text"}

\* input_data decodes and the prompt's regex finds a match in it.
Prompted(input) == "prompt" \in input /\ "split" \notin input

\* The kernel has data or EOF for r.  The master never meets EOF: the slave
\* is kept open in this process.
AtEOF(r) == r \in ends.reading \ {"master"} /\ r \notin held /\ buf[r] = {}
Readable(r) == AtEOF(r) \/ (r \in ends.reading /\ buf[r] # {})

\* IOEndpoint.read() on r; whatever data it takes, Drained(r) removes.
AfterRead(r) ==
  CASE ~Readable(r)  -> ends
    [] AtEOF(r)      -> [ends EXCEPT !.reading = @ \ {r}]
    [] OTHER         -> [ends EXCEPT !.input[r] = Joined(@, buf[r]) \ {"text"}]

Drained(r) == buf' = [buf EXCEPT ![r] = {}]

\* Mutant: the write event is left registered once everything is written.
WrittenStaysArmed(x, w, n) ==
  LET total == x.output[w] + n
  IN IF total = 0 \/ w \notin x.writing \/ w \notin held
       THEN {[x EXCEPT !.output[w] = total]}
       ELSE {[x EXCEPT !.output[w] = left, !.armed = @ \cup {w}] : left \in 0 .. total}

\* The outcomes of IOEndpoint.write(data) on w, with n bytes of new data:
\* nothing to write, a closed writer (EIO), EPIPE, or any part written.
Written(x, w, n) ==
  LET total == x.output[w] + n
      kept == [x EXCEPT !.output[w] = total]
  IN CASE total = 0 ->
            {[x EXCEPT !.armed = @ \ {w}]}
       [] total # 0 /\ w \notin x.writing ->
            {kept}
       [] total # 0 /\ w \in x.writing /\ w = "stdin" /\ w \notin held ->
            {[kept EXCEPT !.writing = @ \ {w}, !.armed = @ \ {w}]}
       [] OTHER ->
            {[x EXCEPT !.output[w] = left,
                       !.armed = IF left = 0 THEN @ \ {w} ELSE @ \cup {w}]
               : left \in 0 .. total}

\* close(): every endpoint, the SIGCHLD events and the slave, but not a master
\* that never came into an endpoint.
Closed(x) == [x EXCEPT !.reading = {}, !.writing = {}, !.armed = {},
                       !.sigchld = FALSE, !.slave = FALSE]

-----------------------------------------------------------------------------
(* fsm.run: the exit method of the state left, the entry methods of those  *)
(* entered                                                                 *)

\* The argument start_timer gets on entry to q.
Timeout(q) ==
  CASE q \in AuthStates -> "password_timeout"
    [] q = Q_RUNNING    -> "command_timeout"
    [] q = Q_TERM       -> "term_timeout"
    [] q = Q_KILL       -> "kill_timeout"

TimedStates == AuthStates \cup {Q_RUNNING, Q_TERM, Q_KILL}
StopsTimer == AuthStates \cup {Q_EXITED, Q_TERM, Q_KILL}   \* exit: stop_timer

Started(q) == IF Timeout(q) \in options.timeouts THEN q ELSE NoTimer

\* Mutant: EXITED starts a timer too.
TimerAfterAnyState(q) == IF q = Q_DONE THEN NoTimer ELSE q

\* Mutant: start_timer keeps a timer that is still running.
TimerAfterKept(q) ==
  IF q_now \notin StopsTimer /\ timer # NoTimer THEN timer
  ELSE IF q \in TimedStates THEN Started(q) ELSE NoTimer

TimerAfter(q) ==
  CASE q \in TimedStates -> Started(q)
    [] q = Q_DONE        -> NoTimer
    [] OTHER             -> IF q_now \in StopsTimer THEN NoTimer ELSE timer

\* Where the entry methods lead: term_child and kill_child go straight on to
\* DONE when there is no child left to signal.
Rest(p) == IF p \in {Q_TERM, Q_KILL} /\ ~child_pid THEN Q_DONE ELSE p

Sent(q) == CASE q = Q_TERM -> {"SIGTERM"}
             [] q = Q_KILL -> {"SIGKILL"}
             [] OTHER      -> {}

\* What entering q does: os.kill sends the signal of q and the timer of q is
\* started.  Either may raise out of run(), with the machine in q: os.kill for
\* the child of another user, and start_timer once the timer before is
\* cancelled, with no eventfd for a TimerEvent or no thread for the one it made.
Entered(q) ==
  \/ /\ timer' = TimerAfter(q)
     /\ signals' = signals \cup Sent(q)
     /\ UNCHANGED thrown
  \/ /\ OtherUser /\ Sent(q) # {} /\ child # "forked"
     /\ timer' = IF q_now \in StopsTimer THEN NoTimer ELSE timer
     /\ thrown' = TRUE
     /\ UNCHANGED signals
  \/ /\ MayRunOut /\ q \in TimedStates /\ Timeout(q) \in options.timeouts
     /\ timer' \in {NoTimer, q}
     /\ thrown' = TRUE
     /\ signals' = signals \cup Sent(q)

\* The action left the endpoints at x and returned p, another state.
Move(p, x) ==
  LET q == Rest(p) IN
  /\ q_now' = q
  /\ Entered(q)
  /\ ends' = IF q = Q_DONE THEN Closed(x) ELSE x

\* The action left the endpoints at x and returned None.
Stay(x) == ends' = x /\ UNCHANGED <<q_now, timer, signals, thrown>>

-----------------------------------------------------------------------------
(* The methods of the state matrix *)

initial_state == CASE options.ssh                    -> Q_SSH_MASTER
                   [] ~options.ssh /\ options.sudo   -> Q_SUDO_MASTER
                   [] OTHER                          -> Q_RUNNING

\* run() with no event enters START, whose entry method picks the next state.
start_fsm ==
  /\ Move(initial_state, ends)
  /\ UNCHANGED <<options, child_pid, status, reason, world>>

\* read_stdout, read_stderr, read_master
read(r) ==
  /\ Stay(AfterRead(r))
  /\ Drained(r)
  /\ UNCHANGED <<options, child_pid, status, reason, child, held>>

\* write_stdin, write_master
write(w) ==
  /\ \E x \in Written(ends, w, 0) : Stay(x)
  /\ UNCHANGED <<options, child_pid, status, reason, world>>

check_stdout ==
  LET x == AfterRead("stdout") IN
  /\ IF "stdout" \in x.reading THEN Stay(x) ELSE Move(Q_DONE, x)
  /\ Drained("stdout")
  /\ UNCHANGED <<options, child_pid, status, reason, child, held>>

\* Mutant: the prompt is looked for before the read.
ChallengeLate(r, w, q) ==
  LET x == AfterRead(r) IN
  /\ \/ /\ ~Prompted(ends.input[r])
        /\ Stay(x)
     \/ /\ Prompted(ends.input[r])
        /\ \E y \in Written(x, w, PasswordLength) : Move(q, y)
  /\ Drained(r)
  /\ UNCHANGED <<options, child_pid, status, reason, child, held>>

\* ssh_password and sudo_password: read from r and, once the prompt shows,
\* answer it on w and go to q.
Challenge(r, w, q) ==
  LET x == AfterRead(r) IN
  /\ \/ /\ ~Prompted(x.input[r])
        /\ Stay(x)
     \/ /\ Prompted(x.input[r])
        /\ \E y \in Written(x, w, PasswordLength) : Move(q, y)
  /\ Drained(r)
  /\ UNCHANGED <<options, child_pid, status, reason, child, held>>

\* Mutant: the sudo challenge behind an ssh one is forgotten.
ssh_password_skips_sudo == Challenge("master", "master", Q_RUNNING)

ssh_password ==
  Challenge("master", "master", IF options.sudo THEN Q_SUDO_STDIO ELSE Q_RUNNING)

sudo_password ==
  IF q_now = Q_SUDO_MASTER THEN Challenge("master", "master", Q_RUNNING)
                           ELSE Challenge("stdout", "stdin", Q_RUNNING)

\* Mutant: the reaped child's pid is kept.
reap_child_keeps_pid ==
  \/ /\ ~(child_pid /\ child = "zombie")
     /\ Stay(ends)
     /\ UNCHANGED <<options, child_pid, status, reason, world>>
  \/ /\ child_pid /\ child = "zombie"
     /\ child' = "reaped"
     /\ status' = "exit"
     /\ Move(IF "stdout" \notin ends.reading \/ q_now > Q_EXITED
               THEN Q_DONE ELSE Q_EXITED, [ends EXCEPT !.sigchld = FALSE])
     /\ UNCHANGED <<options, child_pid, reason, held, buf>>

\* Mutant: whether stdout is still read is not looked at.
reap_child_always_waits ==
  \/ /\ ~(child_pid /\ child = "zombie")
     /\ Stay(ends)
     /\ UNCHANGED <<options, child_pid, status, reason, world>>
  \/ /\ child_pid /\ child = "zombie"
     /\ child' = "reaped"
     /\ child_pid' = FALSE
     /\ status' = "exit"
     /\ Move(IF q_now > Q_EXITED THEN Q_DONE ELSE Q_EXITED,
             [ends EXCEPT !.sigchld = FALSE])
     /\ UNCHANGED <<options, reason, held, buf>>

reap_child ==
  \/ /\ ~(child_pid /\ child = "zombie")
     /\ Stay(ends)
     /\ UNCHANGED <<options, child_pid, status, reason, world>>
  \/ /\ child_pid /\ child = "zombie"
     /\ child' = "reaped"
     /\ child_pid' = FALSE
     /\ status' = "exit"
     /\ LET x == [ends EXCEPT !.sigchld = FALSE] IN
        Move(IF "stdout" \notin ends.reading \/ q_now > Q_EXITED
               THEN Q_DONE ELSE Q_EXITED, x)
     /\ UNCHANGED <<options, reason, held, buf>>

\* Mutant: a later reason replaces the first.
Give_up_overwrites(why, p) ==
  /\ reason' = why
  /\ Move(p, ends)
  /\ UNCHANGED <<options, child_pid, world>>

\* An event that ends the state: the reason is kept if there is one already.
Give_up(why, p) ==
  /\ reason' = IF reason = "none" THEN why ELSE reason
  /\ Move(p, ends)
  /\ UNCHANGED <<options, child_pid, world>>

ssh_timeout == Give_up("SSH authentication timeout", Q_TERM) /\ UNCHANGED status

\* Mutant: the handler forgets to return a state.
sudo_timeout_stays ==
  /\ reason' = IF reason = "none" THEN "SUDO authentication timeout" ELSE reason
  /\ Stay(ends)
  /\ UNCHANGED <<options, child_pid, status, world>>

sudo_timeout == Give_up("SUDO authentication timeout", Q_TERM) /\ UNCHANGED status

\* Mutant: SIGKILL without a SIGTERM.
run_timeout_kills == Give_up("Command timeout", Q_KILL) /\ UNCHANGED status

run_timeout == Give_up("Command timeout", Q_TERM) /\ UNCHANGED status

\* Mutant: the handler forgets to return a state.
stop_command_stays ==
  /\ reason' = IF reason = "none" THEN "Command canceled" ELSE reason
  /\ Stay(ends)
  /\ UNCHANGED <<options, child_pid, status, world>>

stop_command ==
  /\ Give_up("Command canceled", IF child_pid THEN Q_TERM ELSE Q_DONE)
  /\ UNCHANGED status

no_close ==
  /\ reason' = "Warning: stdout did not close as expected"
  /\ Move(Q_DONE, ends)
  /\ UNCHANGED <<options, child_pid, status, world>>

\* Mutant: the command is given up when the child survives SIGTERM.
term_failed_gives_up ==
  /\ Move(Q_DONE, ends)
  /\ UNCHANGED <<options, child_pid, status, reason, world>>

term_failed ==
  /\ Move(Q_KILL, ends)
  /\ UNCHANGED <<options, child_pid, status, reason, world>>

kill_failed ==
  /\ Give_up("Command did not terminate", Q_DONE)
  /\ status' = IF status = "none" THEN "failed" ELSE status

\* A None entry of the matrix.
ignore == UNCHANGED <<command, world>>

-----------------------------------------------------------------------------
(* setup_fsm: the action of every event in every state *)

timeout ==
  \/ q_now = Q_SSH_MASTER /\ ssh_timeout
  \/ q_now \in {Q_SUDO_MASTER, Q_SUDO_STDIO} /\ sudo_timeout
  \/ q_now = Q_RUNNING /\ run_timeout
  \/ q_now = Q_EXITED /\ no_close
  \/ q_now = Q_TERM /\ term_failed
  \/ q_now = Q_KILL /\ kill_failed

master_read ==
  \/ q_now = Q_SSH_MASTER /\ ssh_password
  \/ q_now \in {Q_SUDO_MASTER, Q_SUDO_STDIO} /\ sudo_password
  \/ q_now \notin AuthStates /\ read("master")

\* run(e)
Handle(e) ==
  \/ q_now \notin Active /\ ignore
  \/ /\ q_now \in Active
     /\ \/ e = E_STDIN_WRITE /\ write("stdin")
        \/ e = E_STDOUT_READ /\ q_now # Q_EXITED /\ read("stdout")
        \/ e = E_STDOUT_READ /\ q_now = Q_EXITED /\ check_stdout
        \/ e = E_STDERR_READ /\ read("stderr")
        \/ e = E_MASTER_READ /\ master_read
        \/ e = E_MASTER_WRITE /\ write("master")
        \/ e = E_SIGCHLD /\ q_now # Q_EXITED /\ reap_child
        \/ e = E_SIGCHLD /\ q_now = Q_EXITED /\ ignore
        \/ e = E_TIMEOUT /\ timeout
        \/ e = E_STOP /\ q_now \notin {Q_TERM, Q_KILL} /\ stop_command
        \/ e = E_STOP /\ q_now \in {Q_TERM, Q_KILL} /\ ignore

Opened == IF options.redirect THEN Readers \ {"stderr"} ELSE Readers

Forked ==
  /\ child_pid' = TRUE
  /\ child' = "forked"
  /\ held' = Opened \cup Writers
  /\ UNCHANGED <<options, q_now, timer, status, reason, signals, thrown, buf>>

\* fork_and_exec: the endpoints, the pty and the SIGCHLD events are set up,
\* then the child is forked holding the other end of each of them.
fork_and_exec ==
  /\ ends' = [ends EXCEPT !.reading = Opened, !.writing = Writers,
                          !.sigchld = TRUE, !.slave = TRUE]
  /\ Forked

\* fork_and_exec raises, out of descriptors or processes: in setup_endpoints or
\* openpty, with some pipes made; in enable_sigchld or os.fork, with a pty that
\* no endpoint has; or in the dup of setup_master, with the child forked.
fork_raises ==
  LET pipes == Opened \ {"master"}
      Made(reading, writing, pty, enabled) ==
        ends' = [ends EXCEPT !.reading = reading, !.writing = writing,
                             !.sigchld = enabled, !.slave = pty, !.bare = pty]
      parent == <<options, q_now, timer, child_pid, status, reason, signals, thrown>>
  IN \/ /\ \/ Made({}, {}, FALSE, FALSE)
           \/ \E r \in SUBSET pipes : Made(r, {"stdin"}, FALSE, FALSE)
           \/ \E enabled \in BOOLEAN : Made(pipes, {"stdin"}, TRUE, enabled)
        /\ UNCHANGED <<parent, world>>
     \/ /\ Made(pipes, {"stdin"}, TRUE, TRUE)
        /\ Forked

\* Command.close() outside the machine, from __exit__.
close ==
  /\ timer' = NoTimer
  /\ ends' = Closed(ends)
  /\ UNCHANGED <<options, q_now, child_pid, status, reason, signals, thrown,
                 world>>

-----------------------------------------------------------------------------
(* The world around the command: the child, its descendants, the kernel.   *)
(* SIGCHLD is left to the modules that deliver it.                          *)

ChildExecs ==
  /\ child = "forked"
  /\ child' = "running"
  /\ UNCHANGED <<command, held, buf>>

\* The child or a descendant of it writes.
ChildWrites(r, kind) ==
  /\ child \in {"running", "zombie", "reaped"}
  /\ r \in held /\ r \in ends.reading
  /\ buf' = [buf EXCEPT ![r] = Joined(@, {kind})]
  /\ UNCHANGED <<command, child, held>>

\* The last process that had end c open closes it (seen from here only while
\* our side is open).
ChildCloses(c) ==
  /\ child \in {"running", "zombie", "reaped"}
  /\ c \in held /\ c \in ends.reading \cup ends.writing
  /\ held' = held \ {c}
  /\ UNCHANGED <<command, child, buf>>

\* The child exits or is killed.  Its descendants may keep some ends open, and
\* so may the children other threads forked meanwhile, as the descriptors of
\* os.pipe2(O_NONBLOCK) are inherited through an exec.
ChildExits ==
  /\ \/ child = "running"
     \/ child = "forked" /\ signals # {}
  /\ child' = "zombie"
  /\ held' \in SUBSET held
  /\ UNCHANGED <<command, buf>>

\* execvp raises in the child: no exec, the forked python process unwinds.
ExecFails ==
  /\ child = "forked"
  /\ child' = "zombie"
  /\ held' \in SUBSET held
  /\ UNCHANGED <<command, buf>>

-----------------------------------------------------------------------------
(* Properties of the machine, whatever loop feeds it its events *)

\* A pid is kept exactly as long as it names a child that waitpid can still
\* reap: from the return of fork to the reaping, whatever signals, timeouts
\* and cancellations come in between (child_pid in fork_and_exec, reap_child).
PidIsOurs == child_pid <=> child \in {"forked", "running", "zombie"}

\* A command is done only with a verdict: its child was reaped and has an exit
\* status, or it was given both signals, outlived both, and says why.
DoneHasVerdict ==
  q_now = Q_DONE =>
    \/ child = "reaped" /\ status = "exit"
    \/ /\ child # "reaped" /\ status = "failed"
       /\ signals = {"SIGTERM", "SIGKILL"} /\ reason # "none"

\* EXITED waits for a stdout that can still report its closing, with the child
\* reaped and never signalled; with stdout closed it would wait for an event
\* that never comes.
ExitedIsReading ==
  q_now = Q_EXITED =>
    /\ child = "reaped" /\ status = "exit" /\ signals = {}
    /\ ends.slave => "stdout" \in ends.reading

\* A write event is registered exactly while there is output that its writer
\* can still take: none is forgotten, none spins (IOEndpoint.write).
WriteEventsMatchOutput ==
  \A w \in Writers : w \in ends.armed <=> w \in ends.writing /\ ends.output[w] > 0

\* RUNNING is reached through every configured challenge and in order; the
\* password is offered to an end only after its prompt came from there, and
\* once.
ChallengesMet ==
  /\ q_now \in {Q_SUDO_STDIO, Q_RUNNING} /\ (options.ssh \/ options.sudo) =>
       "prompt" \in ends.input["master"]
  /\ q_now = Q_RUNNING /\ options.ssh /\ options.sudo =>
       "prompt" \in ends.input["stdout"]
  /\ \A w \in Writers : ends.output[w] > 0 =>
       /\ "prompt" \in ends.input[IF w = "stdin" THEN "stdout" ELSE w]
       /\ ends.output[w] <= PasswordLength

\* A prompt that was read from the master is answered at once: no challenge on
\* the master waits with its prompt already in input_data.
MasterPromptAnswered ==
  q_now \in {Q_SSH_MASTER, Q_SUDO_MASTER} => ~Prompted(ends.input["master"])

\* os.kill is never called on a child already reaped, whose pid the kernel may
\* have given to another process (term_child, kill_child).
SignalsOnlyOurChild ==
  [][signals' # signals => child \in {"forked", "running", "zombie"}]_<<command, world>>

\* The verdict is final: no later event, stale or not, replaces a status or a
\* reason ("if not self.status", "if not self.reason", and no_close, which
\* does not look).
VerdictIsFinal ==
  [][/\ status # "none" => status' = status
     /\ reason # "none" => reason' = reason]_<<command, world>>

\* The machine only moves forward, and SIGKILL is the answer to a SIGTERM that
\* was sent before, never the first signal.
Escalation ==
  [][/\ q_now' >= q_now
     /\ "SIGKILL" \in signals' => q_now' # Q_TERM /\ "SIGTERM" \in signals]_<<command, world>>

AllTimeouts == options.timeouts = TimeoutNames

-----------------------------------------------------------------------------
(* The view of CommandContract *)

\* The command holds one of the things that close() of CommandBase gives back:
\* an endpoint, the SIGCHLD events, the slave or a timer.  A pty master in no
\* endpoint is none of them.
Holding ==
  \/ ends.reading # {} \/ ends.writing # {} \/ ends.armed # {}
  \/ ends.sigchld \/ ends.slave \/ timer # NoTimer

\* left: an exception has left execute().
Phase(left) ==
  CASE q_now = Q_DONE                            -> "done"
    [] q_now # Q_DONE /\ left                    -> "abandoned"
    [] ~left /\ q_now = Q_EXITED                 -> "draining"
    [] ~left /\ q_now \in {Q_TERM, Q_KILL}       -> "terminating"
    [] ~left /\ q_now = Q_START /\ ~child_pid    -> "idle"
    [] OTHER                                     -> "executing"

Process == IF child \in {"none", "reaped"} THEN child ELSE "unreaped"

-----------------------------------------------------------------------------
(* The inductive invariant behind them *)

\* What each state says of the child, the verdict and the signals sent.
StateOfChild ==
  /\ q_now = Q_START => status = "none"
  /\ q_now \in TimedStates => child_pid /\ status = "none"
  /\ q_now <= Q_EXITED => signals = {} /\ reason = "none"
  /\ q_now = Q_TERM =>
       /\ reason # "none"
       /\ signals \subseteq {"SIGTERM"} /\ (thrown \/ signals # {})
  /\ q_now = Q_KILL =>
       /\ reason # "none"
       /\ "SIGTERM" \in signals /\ (thrown \/ "SIGKILL" \in signals)
  /\ thrown => q_now \in TimedStates
  /\ "SIGKILL" \in signals => "SIGTERM" \in signals
  /\ ends.sigchld => q_now # Q_DONE /\ (q_now = Q_START \/ child_pid)

\* The challenge a state is for is a configured one, and its answer is not
\* written yet.
StateOfChallenge ==
  /\ q_now = Q_SSH_MASTER => options.ssh
  /\ q_now = Q_SUDO_MASTER => options.sudo /\ ~options.ssh
  /\ q_now = Q_SUDO_STDIO => options.sudo /\ options.ssh
  /\ q_now < Q_SUDO_STDIO => ends.output["master"] = 0
  /\ q_now <= Q_SUDO_STDIO => ends.output["stdin"] = 0
  /\ q_now = Q_START => \A r \in Readers : ends.input[r] = {}

ChildInv == PidIsOurs /\ DoneHasVerdict /\ ExitedIsReading /\ StateOfChild

ChannelInv ==
  /\ WriteEventsMatchOutput /\ ChallengesMet /\ MasterPromptAnswered
  /\ StateOfChallenge

BaseInv == BaseTypeOK /\ ChildInv /\ ChannelInv
=============================================================================
