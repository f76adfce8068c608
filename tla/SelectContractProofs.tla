------------------------ MODULE SelectContractProofs ------------------------
(***************************************************************************)
(* The select loop implements CommandContract, and the ends of its command *)
(* EndpointContract, for every configuration, password and child.          *)
(***************************************************************************)
EXTENDS SelectCommandProofs

\* What the contract calls holding.
Held == Holding \/ stop

\* What the command holds, from the fork to the verdict or to close().
StateOfHolding ==
  /\ pc = "forked" \/ (q_now \in Active /\ pc # "closed") => ends.slave
  /\ q_now = Q_DONE => ~Held

\* The steps that leave the machine and what it holds, but for the stop event, and
\* at most raise an exception.
Passive ==
  /\ UNCHANGED command
  /\ stop' = stop \/ pc = "started"
  /\ pc' = "forked" => pc = "forked"
  /\ pc' = "new" => pc = "new"
  /\ pc' = "closed" <=> pc = "closed"
  /\ pc = "raised" => pc' = "raised"
  /\ UNCHANGED Process

\* The steps that matter to the contract.
LEMMA StepKinds ==
  ASSUME IInv, [Next]_vars
  PROVE  \/ Passive \/ ForkAndExec \/ ForkRaises \/ StartFsm \/ Exit
         \/ \E e \in Events : RunEvent(e)
<1>1. CASE UNCHANGED vars
  BY <1>1 DEF vars, loop, world, Passive, Process
<1>2. CASE SetupStop \/ SetupStopRaises
  BY <1>2 DEF SetupStop, SetupStopRaises, world, Passive, Process
<1>3. CASE Select
  BY <1>3 DEF Select, world, Passive, Process
<1>4. CASE TimerExpires \/ LateTrigger \/ DispatchSigchld \/ HandlerBlocks \/ OtherSigchld
  BY <1>4 DEF TimerExpires, LateTrigger, DispatchSigchld, HandlerBlocks, OtherSigchld,
              world, Passive, Process
<1>5. CASE Cancel
  BY <1>5 DEF Cancel, world, Passive, Process
<1>6. CASE ChildStep
  <2>1. UNCHANGED command /\ (child' = child \/ (child = "forked" /\ child' = "running"))
    BY <1>6 DEF ChildStep, ChildExecs, ChildWrites, ChildCloses
  <2>2. UNCHANGED <<pc, stop>>
    BY <1>6 DEF ChildStep, loop
  <2> QED BY <2>1, <2>2 DEF Passive, Process
<1>7. CASE ChildExit
  BY <1>7 DEF ChildExit, ChildExits, Passive, Process
<1>8. CASE ExecFailure
  BY <1>8 DEF ExecFailure, ExecFails, Passive, Process
<1>9. CASE Finished
  BY <1>1, <1>9 DEF Finished
<1> QED BY <1>1, <1>2, <1>3, <1>4, <1>5, <1>6, <1>7, <1>8, <1>9 DEF Next

\* No step lets go of the slave early, or holds anything after the end.
LEMMA HoldingStep ==
  ASSUME IInv, StateOfHolding, [Next]_vars
  PROVE  StateOfHolding'
<1>0. /\ BaseInv /\ StateOfLoop /\ q_now \in 0 .. 8 /\ ends \in EndsType
  BY InvFacts DEF BaseTypeOK
<1>1. CASE Passive
  <2>1. UNCHANGED <<q_now, ends, timer>> /\ Holding' = Holding
    BY <1>1 DEF Passive, command, Holding
  <2>2. pc = "started" => q_now # Q_DONE
    BY <1>0, StateFacts DEF StateOfLoop, Q_DONE
  <2> QED BY <1>1, <2>1, <2>2 DEF Passive, StateOfHolding, Held
<1>2. CASE ForkAndExec
  <2>1. q_now' = Q_START /\ pc' = "forked" /\ ends'.slave
    BY <1>0, <1>2 DEF ForkAndExec, fork_and_exec, Forked, StateOfLoop, EndsType
  <2> QED BY <2>1 DEF StateOfHolding, Q_START, Q_DONE
<1>3. CASE ForkRaises
  <2>1. q_now' = Q_START /\ pc' = "raised"
    BY <1>0, <1>3 DEF ForkRaises, fork_raises, Forked, StateOfLoop
  <2> QED BY <2>1, StateFacts DEF StateOfHolding, Q_START, Q_DONE
<1>4. CASE StartFsm
  <2>1. q_now = Q_START
    BY <1>0, <1>4 DEF StartFsm, StateOfLoop
  <2>2. q_now' \in {1, 2, 4} /\ ends' = ends /\ pc = "forked"
    BY <1>0, <1>4, <2>1, StartFacts DEF StartFsm
  <2> QED BY <2>2 DEF StateOfHolding, Q_DONE
<1>5. CASE Exit
  <2>1. pc' = "closed" /\ ends' = Closed(ends) /\ timer' = NoTimer /\ stop' = FALSE
    BY <1>5 DEF Exit, close
  <2>2. ~Held'
    BY <1>0, <2>1 DEF Held, Holding, Closed, EndsType
  <2> QED BY <2>1, <2>2 DEF StateOfHolding
<1>6. ASSUME NEW e \in Events, RunEvent(e)
      PROVE  StateOfHolding'
  <2>1. /\ pc = "batch" /\ ~thrown /\ Handle(e) /\ pc' \notin {"forked", "closed"}
        /\ stop' => stop
        /\ q_now' = Q_DONE => ~stop'
    BY <1>0, <1>6 DEF RunEvent, StateOfLoop, AfterEvent
  <2>2. CASE Waits
    <3>1. UNCHANGED <<q_now, timer>> /\ ends'.slave = ends.slave
      BY <2>2 DEF Waits
    <3>2. q_now = Q_DONE => ends' = ends
      BY <1>0, <2>1, HandleOutcome DEF Active
    <3> QED BY <2>1, <3>1, <3>2 DEF StateOfHolding, Held, Holding
  <2>3. CASE Advances
    <3>1. /\ q_now' # Q_DONE => ends'.slave = ends.slave
          /\ q_now' = Q_DONE => ~Holding'
      BY <2>3 DEF Advances
    <3>2. q_now \in Active
      BY <1>0, <2>1, <2>3, StateFacts
         DEF Advances, StateOfLoop, RunEvent, Q_START, Q_DONE
    <3> QED BY <2>1, <3>1, <3>2 DEF StateOfHolding, Held, Active
  <2> QED BY <1>0, <2>1, <2>2, <2>3, HandleOutcome
<1> QED BY <1>1, <1>2, <1>3, <1>4, <1>5, <1>6, StepKinds

-----------------------------------------------------------------------------
(* Every step maps to a step of the contract or to a stutter *)

\* The phase of the contract, by the number of the state.
Gone == pc \in {"raised", "closed"}
PhaseOf == Phase(Gone)

PhaseTable ==
  /\ q_now = 8 => PhaseOf = "done"
  /\ q_now # 8 /\ Gone => PhaseOf = "abandoned"
  /\ q_now \in 1 .. 4 /\ ~Gone => PhaseOf = "executing"
  /\ q_now = 5 /\ ~Gone => PhaseOf = "draining"
  /\ q_now \in {6, 7} /\ ~Gone => PhaseOf = "terminating"
  /\ q_now = 0 /\ ~Gone => PhaseOf = IF child_pid THEN "executing" ELSE "idle"

\* What the mapping is made of, on both sides of a step.
LEMMA Mapping ==
  ASSUME IInv, IInv'
  PROVE  PhaseFact /\ PhaseFact' /\ PhaseTable /\ PhaseTable'
<1>1. PhaseFact /\ PhaseFact'
  BY PhaseFacts DEF IInv
<1>2. PhaseTable
  BY DEF PhaseTable, PhaseOf, Phase, Q_START, Q_EXITED, Q_TERM, Q_KILL, Q_DONE
<1>3. PhaseTable'
  BY DEF PhaseTable, PhaseOf, Phase, Q_START, Q_EXITED, Q_TERM, Q_KILL, Q_DONE
<1> QED BY <1>1, <1>2, <1>3

\* Every step is one of the contract or stutters.
LEMMA ContractStep ==
  ASSUME IInv, IInv', StateOfHolding, StateOfHolding', [Next]_vars
  PROVE  [Contract!Next]_(Contract!vars)
<1>0. /\ BaseInv /\ BaseInv' /\ StateOfLoop /\ q_now \in 0 .. 8 /\ ends \in EndsType
      /\ PhaseFact /\ PhaseFact' /\ PhaseTable /\ PhaseTable'
  BY InvFacts, Mapping DEF IInv, BaseTypeOK
<1>1. /\ Contract!vars = <<PhaseOf, Process, status, reason # "none", signals, Held>>
      /\ Contract!vars' = <<PhaseOf', Process', status', reason' # "none", signals', Held'>>
      /\ Held \in BOOLEAN /\ Held' \in BOOLEAN
  BY DEF Contract!vars, PhaseOf, Gone, Held
<1>2. CASE Passive
  <2>1. UNCHANGED <<q_now, child_pid, status, reason, signals, ends, timer, Process>>
    BY <1>2 DEF Passive, command
  <2>2. Held' = Held
    <3>1. pc = "started" => ends.slave
      BY <1>0 DEF StateOfLoop, StateOfHolding
    <3>2. CASE pc = "started"
      BY <2>1, <3>1, <3>2 DEF Held, Holding
    <3>3. CASE pc # "started"
      BY <1>2, <2>1, <3>3 DEF Passive, Held, Holding
    <3> QED BY <3>2, <3>3
  <2>3. CASE Gone' <=> Gone
    <3>1. PhaseOf' = PhaseOf
      BY <2>1, <2>3 DEF PhaseOf, Phase
    <3> QED BY <1>1, <2>1, <2>2, <3>1
  <2>4. CASE ~(Gone' <=> Gone)
    <3>1. ~Gone /\ Gone'
      BY <1>2, <2>4 DEF Passive, Gone
    <3>2. CASE q_now = 8
      <4>1. PhaseOf' = PhaseOf
        BY <1>0, <2>1, <3>2 DEF PhaseTable
      <4> QED BY <1>1, <2>1, <2>2, <4>1
    <3>3. CASE q_now # 8
      <4>1. PhaseOf \notin {"done", "abandoned"} /\ PhaseOf' = "abandoned"
        BY <1>0, <2>1, <3>1, <3>3 DEF PhaseTable
      <4>2. Contract!Abandon
        BY <2>1, <2>2, <4>1 DEF Contract!Abandon, PhaseOf, Gone, Held
      <4> QED BY <4>2 DEF Contract!Next
    <3> QED BY <3>2, <3>3
  <2> QED BY <2>3, <2>4
<1>3. CASE ForkAndExec
  <2>1. /\ q_now = 0 /\ q_now' = 0 /\ ~child_pid /\ child_pid' /\ ~Gone /\ ~Gone'
        /\ UNCHANGED <<status, reason, signals>> /\ child' = "forked"
    BY <1>0, <1>3 DEF ForkAndExec, fork_and_exec, Forked, StateOfLoop, Gone, Q_START
  <2>2. PhaseOf = "idle" /\ PhaseOf' = "executing" /\ Process' = "unreaped"
    BY <1>0, <2>1 DEF PhaseTable, Process
  <2>3. Held' = TRUE
    BY <1>3 DEF ForkAndExec, StateOfHolding, Held, Holding
  <2>4. Contract!Fork
    BY <2>1, <2>2, <2>3 DEF Contract!Fork, PhaseOf, Gone, Held
  <2> QED BY <2>4 DEF Contract!Next
<1>4. CASE ForkRaises
  <2>1. /\ q_now = 0 /\ q_now' = 0 /\ ~child_pid /\ ~Gone /\ Gone'
        /\ UNCHANGED <<status, reason, signals>>
        /\ child' = "forked" \/ child' = child
    BY <1>0, <1>4 DEF ForkRaises, fork_raises, Forked, world, StateOfLoop, Gone, Q_START
  <2>2. /\ PhaseOf = "idle" /\ PhaseOf' = "abandoned"
        /\ Process' = "unreaped" \/ Process' = Process
    BY <1>0, <2>1 DEF PhaseTable, Process
  <2>3. Contract!Abandon
    BY <2>1, <2>2 DEF Contract!Abandon, PhaseOf, Gone
  <2> QED BY <2>3 DEF Contract!Next
<1>5. CASE StartFsm
  <2>1. q_now = Q_START /\ pc = "forked" /\ pc' = (IF thrown' THEN "raised" ELSE "started")
    BY <1>0, <1>5 DEF StartFsm, StateOfLoop
  <2>2. /\ q_now = 0 /\ q_now' \in {1, 2, 4} /\ child_pid /\ ~Gone
        /\ UNCHANGED <<ends, status, reason, signals, child, child_pid, stop>>
    BY <1>0, <1>5, <2>1, StartFacts
       DEF StartFsm, StateOfLoop, Gone, Q_START, Q_EXITED, Q_DONE
  <2>3. Process' = Process
    BY <2>2 DEF Process
  <2>4. Held /\ Held' = Held
    BY <2>1, <2>2 DEF StateOfHolding, Held, Holding
  <2>5. PhaseOf = "executing"
    BY <1>0, <2>2 DEF PhaseTable
  <2>6. CASE thrown'
    <3>1. PhaseOf' = "abandoned"
      BY <1>0, <2>1, <2>2, <2>6 DEF PhaseTable, Gone
    <3>2. Contract!Abandon
      BY <2>2, <2>3, <2>4, <2>5, <3>1 DEF Contract!Abandon, PhaseOf, Gone, Held
    <3> QED BY <3>2 DEF Contract!Next
  <2>7. CASE ~thrown'
    <3>1. PhaseOf' = "executing"
      BY <1>0, <2>1, <2>2, <2>7 DEF PhaseTable, Gone
    <3> QED BY <1>1, <2>2, <2>3, <2>4, <2>5, <3>1
  <2> QED BY <2>6, <2>7
<1>6. CASE Exit
  <2>1. /\ UNCHANGED <<q_now, status, reason, signals, child>> /\ Gone'
        /\ ends' = Closed(ends) /\ timer' = NoTimer /\ pc \in {"returned", "raised"}
        /\ stop' = FALSE
    BY <1>6 DEF Exit, close, world, Gone
  <2>2. Held' = FALSE /\ Process' = Process
    BY <1>0, <2>1 DEF Held, Holding, Closed, EndsType, Process
  <2>3. CASE q_now = 8
    <3>1. PhaseOf' = PhaseOf /\ ~Held
      BY <1>0, <2>1, <2>3 DEF PhaseTable, StateOfHolding, Q_DONE
    <3>2. Held' = Held
      BY <1>1, <2>2, <3>1
    <3> QED BY <1>1, <2>1, <2>2, <3>1, <3>2
  <2>4. CASE q_now # 8
    <3>1. Gone
      BY <1>0, <1>6, <2>1, <2>4 DEF StateOfLoop, Gone, Q_DONE
    <3>2. PhaseOf = "abandoned" /\ PhaseOf' = "abandoned"
      BY <1>0, <2>1, <2>4, <3>1 DEF PhaseTable
    <3>3. Contract!Close
      BY <2>1, <2>2, <3>2 DEF Contract!Close, PhaseOf, Gone, Held
    <3> QED BY <3>3 DEF Contract!Next
  <2> QED BY <2>3, <2>4
<1>7. ASSUME NEW e \in Events, RunEvent(e)
      PROVE  [Contract!Next]_(Contract!vars)
  <2>1. /\ pc = "batch" /\ ~thrown /\ Handle(e) /\ ~Gone /\ pc' # "closed"
        /\ pc' = "raised" <=> thrown'
        /\ stop' = (stop /\ q_now' # Q_DONE)
    BY <1>0, <1>7 DEF RunEvent, StateOfLoop, AfterEvent, Gone
  <2>2. Gone' <=> thrown'
    BY <2>1 DEF Gone
  <2>3. CASE Waits
    <3>1. /\ UNCHANGED <<q_now, status, reason, signals, child, thrown, timer>>
          /\ ends'.slave = ends.slave
      BY <2>3 DEF Waits
    <3>2. PhaseOf' = PhaseOf /\ Process' = Process
      <4>1. Gone' <=> Gone
        BY <2>1, <2>2, <3>1
      <4>2. child_pid' = child_pid
        BY <1>0, <3>1 DEF BaseInv, BaseTypeOK, ChildInv, PidIsOurs
      <4> QED BY <3>1, <4>1, <4>2 DEF PhaseOf, Phase, Process
    <3>3. Held' = Held
      <4>1. CASE q_now \in Active
        BY <2>1, <3>1, <4>1 DEF StateOfHolding, Held, Holding
      <4>2. CASE q_now = Q_DONE
        <5>1. UNCHANGED ends
          BY <1>0, <2>1, <4>2, StateFacts, HandleOutcome DEF Q_DONE
        <5> QED BY <2>1, <3>1, <4>2, <5>1 DEF StateOfHolding, Held, Holding
      <4> QED BY <1>0, <2>1, <4>1, <4>2, StateFacts
              DEF StateOfLoop, Q_START, Q_DONE
    <3> QED BY <1>1, <3>1, <3>2, <3>3
  <2>4. CASE Advances
    <3>1. q_now \in Active
      BY <1>0, <2>1, <2>4, StateFacts
         DEF Advances, StateOfLoop, Q_START, Q_DONE
    <3>2. Held = TRUE /\ Held' = (q_now' # 8)
      <4>1. Held /\ (q_now' # Q_DONE => Held') /\ (q_now' = Q_DONE => ~Held')
        BY <1>0, <2>1, <2>4, <3>1 DEF Advances, StateOfHolding, Held, Holding
      <4> QED BY <1>1, <4>1 DEF Q_DONE
    <3>3. /\ q_now \in 1 .. 7
          /\ Sent(6) = {"SIGTERM"} /\ Sent(7) = {"SIGKILL"}
      BY <3>1, StateFacts DEF Sent, Q_TERM, Q_KILL
    <3>4. /\ thrown' => q_now' \in {1, 2, 3, 4, 6, 7}
          /\ ~thrown' => signals' = signals \cup Sent(q_now')
          /\ signals' \in {signals, signals \cup Sent(q_now')}
          /\ status = "none" \/ status' = status
          /\ reason = "none" \/ reason' = reason
      BY <2>4, StateFacts DEF Advances, Q_TERM, Q_KILL
    <3>5. CASE thrown'
      <4>1. /\ \/ q_now \in 1 .. 4 /\ q_now' \in {1, 2, 3, 4, 6}
               \/ q_now = 6 /\ q_now' = 7
            /\ PhaseOf' = "abandoned" /\ Process' = Process /\ status' = status
        BY <1>0, <2>1, <2>2, <2>4, <3>1, <3>3, <3>4, <3>5, AdvanceFacts
           DEF PhaseTable, PhaseFact
      <4>2. Held' = Held /\ (reason' # "none") \in {reason # "none", TRUE}
        <5>1. Held' = Held
          <6>1. q_now' # 8
            BY <4>1
          <6> QED BY <3>2, <6>1
        <5>2. CASE reason = "none"
          <6>1. (reason # "none") = FALSE /\ (reason' # "none") \in {FALSE, TRUE}
            BY <5>2
          <6> QED BY <5>1, <6>1
        <5>3. CASE reason # "none"
          <6>1. (reason' # "none") = TRUE
            BY <3>4, <5>3
          <6> QED BY <5>1, <6>1
        <5> QED BY <5>2, <5>3
      <4>3. CASE q_now \in 1 .. 4
        <5>1. PhaseOf = "executing"
          BY <1>0, <2>1, <4>3 DEF PhaseTable
        <5>2. signals' = signals \/ (signals' = {"SIGTERM"} /\ reason' # "none")
          <6>1. q_now' \in 1 .. 4 => signals' = {} /\ signals = {}
            BY <1>0, <4>3 DEF PhaseFact
          <6>2. q_now' = 6 => signals = {} /\ signals' \in {{}, {"SIGTERM"}} /\ reason' # "none"
            BY <1>0, <3>3, <3>4, <4>3 DEF PhaseFact
          <6> QED BY <4>1, <4>3, <6>1, <6>2
        <5>3. Contract!Abandon
          BY <4>1, <4>2, <5>1, <5>2 DEF Contract!Abandon, PhaseOf, Gone, Held
        <5> QED BY <5>3 DEF Contract!Next
      <4>4. CASE q_now = 6 /\ q_now' = 7
        <5>1. PhaseOf = "terminating" /\ signals = {"SIGTERM"}
          BY <1>0, <2>1, <4>4 DEF PhaseTable, PhaseFact
        <5>2. signals' = signals \/ signals' = {"SIGTERM", "SIGKILL"}
          BY <3>3, <3>4, <4>4, <5>1
        <5>3. Contract!Abandon
          BY <4>1, <4>2, <5>1, <5>2 DEF Contract!Abandon, PhaseOf, Gone, Held
        <5> QED BY <5>3 DEF Contract!Next
      <4> QED BY <4>1, <4>3, <4>4
    <3>6. CASE ~thrown' /\ q_now \in 1 .. 4 /\ q_now' \in 1 .. 4
      <4>1. PhaseOf' = PhaseOf /\ Process' = Process
        BY <1>0, <2>1, <2>2, <3>6 DEF PhaseTable, PhaseFact
      <4>2. UNCHANGED <<status, reason, signals>> /\ Held' = Held
        BY <1>0, <3>2, <3>6 DEF PhaseFact
      <4> QED BY <1>1, <4>1, <4>2
    <3>7. CASE ~thrown' /\ q_now \in 1 .. 4 /\ q_now' = 5
      <4>1. PhaseOf = "executing" /\ PhaseOf' = "draining"
        BY <1>0, <2>1, <2>2, <3>7 DEF PhaseTable
      <4>2. Contract!Reap
        BY <1>0, <3>2, <3>7, <4>1 DEF Contract!Reap, PhaseOf, Gone, Held, PhaseFact
      <4> QED BY <4>2 DEF Contract!Next
    <3>8. CASE ~thrown' /\ q_now \in 1 .. 4 /\ q_now' = 6
      <4>1. PhaseOf = "executing" /\ PhaseOf' = "terminating"
        BY <1>0, <2>1, <2>2, <3>8 DEF PhaseTable
      <4>2. Contract!Terminate
        BY <1>0, <3>2, <3>8, <4>1 DEF Contract!Terminate, PhaseOf, Gone, Held, PhaseFact
      <4> QED BY <4>2 DEF Contract!Next
    <3>9. CASE ~thrown' /\ q_now = 6 /\ q_now' = 7
      <4>1. PhaseOf = "terminating" /\ PhaseOf' = "terminating" /\ ~thrown
        BY <1>0, <2>1, <2>2, <3>9 DEF PhaseTable
      <4>2. Contract!Escalate
        BY <1>0, <3>2, <3>9, <4>1 DEF Contract!Escalate, PhaseOf, Gone, Held, PhaseFact
      <4> QED BY <4>2 DEF Contract!Next
    <3>10. CASE q_now' = 8
      <4>1. PhaseOf' = "done" /\ Held' = FALSE /\ UNCHANGED signals
        <5>1. UNCHANGED signals
          BY <1>0, <2>1, <2>4, <3>1, <3>10, AdvanceFacts
        <5> QED BY <1>0, <3>2, <3>10, <5>1 DEF PhaseTable
      <4>2. \/ /\ Process' = "reaped" /\ status' = "exit"
               /\ q_now = 5 \/ reason' = reason
            \/ q_now = 7 /\ Process' = Process /\ status' = "failed"
        BY <1>0, <2>1, <2>4, <3>1, <3>10, AdvanceFacts
      <4>3. CASE q_now = 5
        <5>1. PhaseOf = "draining" /\ Contract!Drain
          BY <1>0, <2>1, <3>4, <4>1, <4>2, <4>3
             DEF PhaseTable, PhaseFact, Contract!Drain, PhaseOf, Gone, Held
        <5> QED BY <5>1 DEF Contract!Next
      <4>4. CASE q_now # 5 /\ status' = "exit"
        <5>1. PhaseOf \in {"executing", "terminating"}
          BY <1>0, <2>1, <3>3, <4>4 DEF PhaseTable
        <5>2. Contract!Reap
          BY <1>0, <4>1, <4>2, <4>4, <5>1 DEF PhaseFact, Contract!Reap, PhaseOf, Gone, Held
        <5> QED BY <5>2 DEF Contract!Next
      <4>5. CASE q_now = 7 /\ Process' = Process /\ status' = "failed"
        <5>1. PhaseOf = "terminating"
          BY <1>0, <2>1, <4>5 DEF PhaseTable
        <5>2. Contract!GiveUp
          BY <1>0, <2>1, <3>4, <4>1, <4>5, <5>1
             DEF PhaseFact, Contract!GiveUp, PhaseOf, Gone, Held
        <5> QED BY <5>2 DEF Contract!Next
      <4> QED BY <4>2, <4>3, <4>4, <4>5
    <3>11. \/ q_now \in 1 .. 4 /\ q_now' \in 1 .. 6
           \/ q_now' = 8
           \/ q_now = 6 /\ q_now' = 7
      BY <1>0, <2>1, <2>4, <3>1, AdvanceFacts
    <3> QED BY <3>5, <3>6, <3>7, <3>8, <3>9, <3>10, <3>11
  <2> QED BY <1>0, <2>1, <2>3, <2>4, HandleOutcome
<1> QED BY <1>2, <1>3, <1>4, <1>5, <1>6, <1>7, StepKinds

\* The initial states are those of the contract.
LEMMA ContractStart == Init => StateOfHolding /\ Contract!Init
<1> SUFFICES ASSUME Init PROVE StateOfHolding /\ Contract!Init
  OBVIOUS
<1>1. /\ q_now = Q_START /\ ~child_pid /\ pc = "new" /\ Process = "none" /\ ~Held
      /\ status = "none" /\ reason = "none" /\ signals = {}
  BY DEF Init, BaseInit, Process, Held, Holding
<1>2. Phase(pc \in {"raised", "closed"}) = "idle"
  BY <1>1 DEF Phase, Q_START, Q_EXITED, Q_TERM, Q_KILL, Q_DONE
<1>3. Held = FALSE
  BY <1>1 DEF Held
<1> QED BY <1>1, <1>2, <1>3, StateFacts
        DEF StateOfHolding, Contract!Init, Held, Q_START, Q_DONE

\* Driven by the select loop a command keeps the contract: no verdict without
\* its evidence, and nothing held after it (run, reap_child, close).
THEOREM ContractKept == Spec => MeetsContract
<1>1. Init => IInv /\ StateOfHolding /\ Contract!Init
  BY InitInv, ContractStart
<1>2. IInv /\ StateOfHolding /\ [Next]_vars => IInv' /\ StateOfHolding'
  BY NextInv, HoldingStep
<1>3. IInv /\ IInv' /\ StateOfHolding /\ StateOfHolding' /\ [Next]_vars =>
        [Contract!Next]_(Contract!vars)
  BY ContractStep
<1> QED BY <1>1, <1>2, <1>3, PTL DEF Spec, MeetsContract, Contract!Spec

-----------------------------------------------------------------------------
(* The ends of the command *)

\* Nothing is closed, registered or written before the fork.
LEMMA NewEnds ==
  ASSUME IInv, pc = "new"
  PROVE  ends.armed = {}
<1>1. q_now < Q_SUDO_STDIO /\ q_now <= Q_SUDO_STDIO
  BY InvFacts DEF StateOfLoop, Q_START, Q_SUDO_STDIO
<1>2. ends.output["master"] = 0 /\ ends.output["stdin"] = 0
  BY <1>1, InvFacts DEF BaseInv, ChannelInv, StateOfChallenge
<1>3. \A w \in ends.armed : w \in Writers /\ ends.output[w] > 0
  BY InvFacts DEF BaseInv, BaseTypeOK, EndsType, ChannelInv, WriteEventsMatchOutput
<1> QED BY <1>2, <1>3 DEF Writers

\* Every step does to the ends what EndpointContract allows, or nothing.
LEMMA ChannelsStep ==
  ASSUME IInv, IInv', [Next]_vars
  PROVE  [Channels!Next]_(Channels!vars)
<1>0. /\ BaseInv /\ StateOfLoop /\ ends \in EndsType /\ ends' \in EndsType
      /\ Shrinks(ends, ends)
  BY InvFacts, ReadShrinks DEF IInv, BaseInv, BaseTypeOK, Readers
<1>1. ASSUME pc = "new", UNCHANGED <<ends.armed, ends.output>>
      PROVE  [Channels!Next]_(Channels!vars)
  <2>1. ends.armed = {} /\ ends'.reading \subseteq Readers /\ ends'.writing \subseteq Writers
    BY <1>0, <1>1, NewEnds DEF EndsType
  <2>2. Channels!Close
    BY <1>1, <2>1 DEF Channels!Close
  <2> QED BY <2>2 DEF Channels!Next
<1>2. ASSUME pc # "new", pc' # "new", EndsMove(ends, ends')
      PROVE  [Channels!Next]_(Channels!vars)
  <2>1. CASE Shrinks(ends, ends')
    <3>1. Channels!Close
      BY <1>2, <2>1 DEF Shrinks, Channels!Close
    <3> QED BY <3>1 DEF Channels!Next
  <2>2. ASSUME NEW w \in Writers, Writes(ends, ends', w)
        PROVE  [Channels!Next]_(Channels!vars)
    <3>1. Channels!Write(w) \/ Channels!Fail(w)
      BY <1>2, <2>2 DEF Writes, Channels!Write, Channels!Fail, Channels!Changes
    <3> QED BY <3>1 DEF Channels!Next
  <2> QED BY <1>2, <2>1, <2>2 DEF EndsMove
<1>3. CASE Passive
  <2>1. UNCHANGED ends /\ (pc' = "new" => pc = "new")
    BY <1>3 DEF Passive, command
  <2> QED BY <1>0, <1>1, <1>2, <2>1 DEF EndsMove
<1>4. CASE ForkAndExec
  <2>1. pc = "new" /\ UNCHANGED <<ends.armed, ends.output>>
    BY <1>0, <1>4 DEF ForkAndExec, fork_and_exec, EndsType
  <2> QED BY <1>1, <2>1
<1>5. CASE ForkRaises
  <2>1. pc = "new" /\ UNCHANGED <<ends.armed, ends.output>>
    BY <1>0, <1>5 DEF ForkRaises, fork_raises, EndsType
  <2> QED BY <1>1, <2>1
<1>6. CASE StartFsm
  <2>1. pc = "forked" /\ pc' # "new" /\ q_now = Q_START
    BY <1>0, <1>6 DEF StartFsm, StateOfLoop
  <2>2. ends' = ends
    BY <1>0, <1>6, <2>1, StartFacts DEF StartFsm
  <2> QED BY <1>0, <1>2, <2>1, <2>2 DEF EndsMove
<1>7. CASE Exit
  <2>1. pc # "new" /\ pc' # "new" /\ ends' = Closed(ends)
    BY <1>7 DEF Exit, close
  <2> QED BY <1>0, <1>2, <2>1, ClosedShrinks DEF EndsMove
<1>8. ASSUME NEW e \in Events, RunEvent(e)
      PROVE  [Channels!Next]_(Channels!vars)
  <2>1. pc # "new" /\ pc' # "new" /\ Handle(e)
    BY <1>8 DEF RunEvent, AfterEvent
  <2> QED BY <1>0, <1>2, <2>1, HandleEnds
<1> QED BY <1>3, <1>4, <1>5, <1>6, <1>7, <1>8, StepKinds

\* Under the select loop too the ends of a command keep the contract that an endpoint
\* keeps: what was closed is not opened again, no output is dropped by a timeout, a
\* cancel or a failed write, and a writer is watched while output waits for it
\* (IOEndpoint.write, close).
THEOREM EndsContractKept == Spec => EndsMeetContract
<1>1. Init => Channels!Init
  BY DEF Init, BaseInit, Channels!Init
<1>2. IInv /\ IInv' /\ [Next]_vars => [Channels!Next]_(Channels!vars)
  BY ChannelsStep
<1> QED BY <1>1, <1>2, InitInv, NextInv, PTL DEF Spec, EndsMeetContract, Channels!Spec
=============================================================================
