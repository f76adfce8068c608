-------------------------- MODULE EndpointContract --------------------------
(***************************************************************************)
(* What I/O endpoints promise whoever owns them, whatever loop watches     *)
(* them and whatever is at the other side (events/io_endpoint.py): an end  *)
(* is closed for good, what waits for a writer is taken by nobody but its  *)
(* peer, and the loop reports a writer as long as something waits for it.  *)
(* Endpoint has descriptors, callbacks and bytes behind this, CommandBase  *)
(* has the ends of a command.                                              *)
(***************************************************************************)
EXTENDS Naturals

CONSTANTS Readers, Writers

VARIABLES
  reading,    \* the readers that are open
  writing,    \* the writers that are open and have not failed
  armed,      \* the writers the loop reports when they can be written
  output      \* how much waits for each writer

vars == <<reading, writing, armed, output>>

Init ==
  /\ reading \in SUBSET Readers
  /\ writing \in SUBSET Writers
  /\ armed = {}
  /\ output = [w \in Writers |-> 0]

\* Ends are closed, by the owner or at the end of the input.
Close ==
  /\ reading' \subseteq reading
  /\ writing' \subseteq writing
  /\ armed' = armed \cap writing'
  /\ UNCHANGED output

Changes(w) ==
  /\ reading' \subseteq reading
  /\ output'[w] \in Nat
  /\ output' = [output EXCEPT ![w] = output'[w]]

\* Any part of what waits, and of what is added to it, is written.
Write(w) ==
  /\ w \in writing
  /\ Changes(w)
  /\ armed' = IF output'[w] = 0 THEN armed \ {w} ELSE armed \cup {w}
  /\ UNCHANGED writing

\* The writer is closed or its peer is gone: all that waited still waits.
Fail(w) ==
  /\ Changes(w)
  /\ output'[w] >= output[w]
  /\ armed' = armed \ {w}
  /\ writing' = writing \ {w}

Next == Close \/ \E w \in Writers : Write(w) \/ Fail(w)

Spec == Init /\ [][Next]_vars
=============================================================================
