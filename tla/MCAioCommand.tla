---------------------------- MODULE MCAioCommand ----------------------------
(***************************************************************************)
(* Instances of AioCommand for TLC: the configurations each run starts     *)
(* from.                                                                   *)
(***************************************************************************)
EXTENDS AioCommand

Configured(ssh, sudo, redirect, timeouts) ==
  [ssh : ssh, sudo : sudo, redirect : redirect, timeouts : timeouts]

\* One challenge on the master, every timeout.
MCSudo == Configured({FALSE}, {TRUE}, {TRUE}, {TimeoutNames})

\* The same with the timeouts of a child that is told to end.
MCEnded == Configured({FALSE}, {TRUE}, {TRUE}, {{"term_timeout", "kill_timeout"}})

\* The ends a challenge reads may show a prompt.
MCPrompts == [r \in Readers |-> IF r = "stderr" THEN {"text"} ELSE {"prompt"}]

\* Nothing but the prompt on the master.
MCOnlyPrompt == [r \in Readers |-> IF r = "master" THEN {"prompt"} ELSE {}]

\* The prompt on the master arrives in pieces.
MCPieces ==
  [r \in Readers |-> IF r = "master" THEN {"prompt", "split"} ELSE {"text"}]
=============================================================================
