-------------------------- MODULE CommandContract --------------------------
(***************************************************************************)
(* What a command promises its caller, whatever loop drives it: how the    *)
(* fields of commands/command_base.py (status, reason, child_pid) and the  *)
(* resources of the command go together from the fork to the verdict, with *)
(* no machine, event, timer or pipe in sight.                              *)
(***************************************************************************)

VARIABLES
  phase,      \* how far the execution has come
  process,    \* the child: none yet, one to be reaped, or reaped
  status,     \* the verdict
  explained,  \* a reason was given for it
  signals,    \* the signals the child was sent
  holding     \* descriptors, timers or callbacks are held

vars == <<phase, process, status, explained, signals, holding>>

Init ==
  /\ phase = "idle"
  /\ process = "none"
  /\ status = "none"
  /\ explained = FALSE
  /\ signals = {}
  /\ holding = FALSE

Fork ==
  /\ phase = "idle"
  /\ phase' = "executing"
  /\ process' = "unreaped"
  /\ holding' = TRUE
  /\ UNCHANGED <<status, explained, signals>>

\* A timeout or a cancel: the child is asked to end, and the caller told why.
Terminate ==
  /\ phase = "executing"
  /\ phase' = "terminating"
  /\ explained' = TRUE
  /\ signals' = {"SIGTERM"}
  /\ UNCHANGED <<process, status, holding>>

Escalate ==
  /\ phase = "terminating"
  /\ signals = {"SIGTERM"}
  /\ signals' = {"SIGTERM", "SIGKILL"}
  /\ UNCHANGED <<phase, process, status, explained, holding>>

\* The child is reaped: the verdict is its own.  What it left to be read is
\* still waited for, unless it was told to end.
Reap ==
  /\ phase \in {"executing", "terminating"}
  /\ process' = "reaped"
  /\ status' = "exit"
  /\ \/ phase = "executing" /\ phase' = "draining" /\ UNCHANGED holding
     \/ phase' = "done" /\ holding' = FALSE
  /\ UNCHANGED <<explained, signals>>

\* All is read, or it is no longer waited for, with a reason.
Drain ==
  /\ phase = "draining"
  /\ phase' = "done"
  /\ holding' = FALSE
  /\ explained' \in {explained, TRUE}
  /\ UNCHANGED <<process, status, signals>>

\* A child that outlives both signals is left behind.
GiveUp ==
  /\ phase = "terminating"
  /\ signals = {"SIGTERM", "SIGKILL"}
  /\ phase' = "done"
  /\ status' = "failed"
  /\ holding' = FALSE
  /\ UNCHANGED <<process, explained, signals>>

\* An exception leaves execute(): out of the fork, at an await, out of a cancel, of
\* os.kill, or of the timer that follows a signal, which is not sent without a
\* reason.
Abandon ==
  /\ phase \notin {"done", "abandoned"}
  /\ phase' = "abandoned"
  /\ \/ UNCHANGED process
     \/ phase = "idle" /\ process' = "unreaped"
  /\ phase = "idle" \/ UNCHANGED holding
  /\ explained' \in {explained, TRUE}
  /\ \/ UNCHANGED signals
     \/ phase = "executing" /\ signals' = {"SIGTERM"} /\ explained'
     \/ /\ phase = "terminating" /\ signals = {"SIGTERM"}
        /\ signals' = {"SIGTERM", "SIGKILL"}
  /\ UNCHANGED status

\* close() after an exception: the child, if any, is left as it is.
Close ==
  /\ phase = "abandoned"
  /\ holding' = FALSE
  /\ UNCHANGED <<phase, process, status, explained, signals>>

Next == Fork \/ Terminate \/ Escalate \/ Reap \/ Drain \/ GiveUp \/ Abandon \/ Close

Spec == Init /\ [][Next]_vars
=============================================================================
