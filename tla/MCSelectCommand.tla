-------------------------- MODULE MCSelectCommand --------------------------
(***************************************************************************)
(* Instances of SelectCommand for TLC: the configurations each run starts  *)
(* from.                                                                   *)
(***************************************************************************)
EXTENDS SelectCommand

Configured(ssh, sudo, redirect, timeouts) ==
  [ssh : ssh, sudo : sudo, redirect : redirect, timeouts : timeouts]

\* What the timers of TERM and KILL need, and nothing else.
Ending == {"term_timeout", "kill_timeout"}

\* Both challenges with their timeout, one on the master with the timeout of the
\* command, and none at all, with the timeouts behind a cancel or with no timeout
\* and a stderr of its own.
MCSafety ==
  Configured({TRUE}, {TRUE}, {TRUE}, {{"password_timeout"}})
    \cup Configured({FALSE}, {TRUE}, {TRUE}, {{"command_timeout"}})
    \cup Configured({FALSE}, {FALSE}, {TRUE}, {Ending})
    \cup Configured({FALSE}, {FALSE}, {FALSE}, {{}})

\* One challenge on the master, every timeout.
MCSudo == Configured({FALSE}, {TRUE}, {TRUE}, {TimeoutNames})

\* The same, and also with no limit to the challenge and the command.
MCLive == Configured({FALSE}, {TRUE}, {TRUE}, {TimeoutNames, Ending})

\* A challenge on the master and one on stdin/stdout.
MCBoth == Configured({TRUE}, {TRUE}, {TRUE}, {TimeoutNames})

\* Nothing but the prompt on the master.
MCOnlyPrompt == [r \in Readers |-> IF r = "master" THEN {"prompt"} ELSE {}]

\* The ends a challenge reads may show a prompt.
MCPrompts == [r \in Readers |-> IF r = "stderr" THEN {"text"} ELSE {"prompt"}]
=============================================================================
