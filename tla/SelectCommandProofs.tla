------------------------ MODULE SelectCommandProofs ------------------------
(***************************************************************************)
(* What the select loop guarantees for every configuration, password and   *)
(* child: its type and safety invariants, and what a step never does.      *)
(***************************************************************************)
EXTENDS SelectCommand, CommandBaseProofs

\* The facts every step of the loop starts from.
LEMMA InvFacts ==
  IInv => /\ TypeOK /\ BaseTypeOK /\ BaseInv /\ StateOfLoop
          /\ TimeoutNotLost /\ ExitNotLost
          /\ q_now \in 0 .. 8 /\ timer \in 0 .. 7
  BY StateFacts DEF IInv, LoopInv, BaseInv, BaseTypeOK, TypeOK, NoTimer, Q_RUNNING,
                    Q_TERM, Q_KILL

\* The invariant holds of a command that was just constructed (__init__).
THEOREM InitInv == Init => IInv
<1> SUFFICES ASSUME Init PROVE IInv
  OBVIOUS
<1>1. BaseInv
  BY InitHolds DEF Init
<1>2. TypeOK
  BY <1>1 DEF Init, TypeOK, BaseInv
<1>3. LoopInv
  BY StateFacts DEF Init, BaseInit, LoopInv, StateOfLoop, TimeoutNotLost, ExitNotLost,
     Executing, NoTimer, Q_START, Q_EXITED, Q_DONE
<1> QED BY <1>1, <1>2, <1>3 DEF IInv

\* A step that leaves the machine, the endpoints and the child alone.
LEMMA LoopStep ==
  ASSUME IInv, UNCHANGED <<command, world>>, TypeOK', LoopInv'
  PROVE  IInv'
  BY IgnorePreserves DEF IInv

-----------------------------------------------------------------------------
(* The machine's part of RunEvent *)

\* A configured timer is the one of the state the machine is in, and no event
\* of its expiry is dropped, when the machine waits and when it moves on: what
\* leaves the timer alone is not a timeout.
LEMMA RunEventTimeout ==
  ASSUME IInv, NEW e \in Events, RunEvent(e)
  PROVE  TimeoutNotLost' /\ timer' <= q_now' /\ (q_now' = Q_DONE => timer' = NoTimer)
<1>0. /\ q_now \in 0 .. 8 /\ timer <= q_now /\ (q_now = Q_DONE => timer = NoTimer)
      /\ BaseInv /\ q_now # Q_START /\ ~thrown
      /\ fired => timer # NoTimer
  BY InvFacts DEF StateOfLoop, RunEvent
<1>1. /\ Waits \/ Advances
      /\ e = E_TIMEOUT /\ q_now \in Active => Advances /\ q_now' >= Q_TERM
      /\ batch' = batch \ {e} /\ expired' = (expired /\ e # E_TIMEOUT /\ timer' = timer)
      /\ fired' = (fired /\ timer' = timer)
  BY <1>0, HandleOutcome DEF RunEvent
<1>2. q_now # Q_DONE => q_now \in Active
  BY <1>0, StateFacts DEF Q_START, Q_DONE
<1>3. CASE Waits
  <2>1. UNCHANGED <<options, q_now, timer>>
    BY <1>3 DEF Waits
  <2>2. fired' => fired /\ e # E_TIMEOUT
    <3>1. q_now \in Active => e # E_TIMEOUT
      BY <1>0, <1>1, <2>1 DEF Advances
    <3>2. fired' => fired
      BY <1>1
    <3>3. fired => q_now # Q_DONE
      BY <1>0
    <3> QED BY <1>2, <3>1, <3>2, <3>3
  <2>3. Executing' => Executing
    BY <2>1 DEF Executing, RunEvent
  <2>4. TimeoutNotLost
    BY InvFacts
  <2> QED BY <1>0, <1>1, <2>1, <2>2, <2>3, <2>4 DEF TimeoutNotLost
<1>4. CASE Advances
  <2>1. /\ timer' <= q_now' /\ (q_now' = Q_DONE => timer' = NoTimer)
        /\ ~thrown' /\ q_now' \in TimedStates /\ Timeout(q_now') \in options'.timeouts =>
             timer' = q_now'
        /\ ~thrown' /\ timer # NoTimer /\ timer' = timer => q_now' < Q_TERM
    BY <1>0, <1>4, AdvanceTimer
  <2>2. Executing' => ~thrown' /\ Executing
    BY DEF Executing, RunEvent, AfterEvent
  <2>3. ASSUME Executing', fired'
        PROVE  expired' \/ E_TIMEOUT \in batch'
    <3>1. fired /\ timer' = timer /\ timer # NoTimer /\ q_now' < Q_TERM
      BY <1>0, <1>1, <2>1, <2>2, <2>3
    <3>2. e # E_TIMEOUT
      BY <1>0, <1>1, <1>2, <1>4, <3>1, StateFacts DEF Advances, Q_TERM
    <3>3. expired \/ E_TIMEOUT \in batch
      BY <2>2, <2>3, <3>1, InvFacts DEF TimeoutNotLost
    <3> QED BY <1>1, <3>1, <3>2, <3>3
  <2> QED BY <2>1, <2>2, <2>3 DEF TimeoutNotLost
<1> QED BY <1>1, <1>3, <1>4

\* The exit of the child stays on its way until the machine has reaped it.
LEMMA RunEventExit ==
  ASSUME IInv, NEW e \in Events, RunEvent(e)
  PROVE  ExitNotLost'
<1>0. /\ BaseInv /\ ExitNotLost /\ q_now # Q_START /\ ~thrown
  BY InvFacts DEF StateOfLoop, RunEvent
<1>1. /\ Waits \/ Advances
      /\ e = E_SIGCHLD /\ q_now \in Active /\ child = "zombie" => child' = "reaped"
      /\ batch' = batch \ {e} /\ raised' = raised
      /\ chld_ready' = (chld_ready /\ e # E_SIGCHLD /\ ends'.sigchld)
  BY <1>0, HandleOutcome DEF RunEvent
<1>2. (child' = child \/ child' = "reaped") /\ (ends'.sigchld => ends.sigchld)
  BY <1>1 DEF Waits, Advances
<1>3. ASSUME child' = "zombie", ends'.sigchld
      PROVE  raised' \/ chld_ready' \/ E_SIGCHLD \in batch'
  <2>1. child = "zombie" /\ ends.sigchld
    BY <1>2, <1>3
  <2>2. q_now \in Active
    BY <1>0, <2>1, StateFacts
       DEF BaseInv, BaseTypeOK, ChildInv, StateOfChild, Q_START, Q_DONE
  <2>3. e # E_SIGCHLD
    BY <1>1, <1>3, <2>1, <2>2
  <2> QED BY <1>0, <1>1, <1>3, <2>1, <2>3 DEF ExitNotLost
<1> QED BY <1>3 DEF ExitNotLost

LEMMA RunEventPreserves ==
  ASSUME IInv, NEW e \in Events, RunEvent(e)
  PROVE  IInv'
<1>0. /\ TypeOK /\ BaseInv /\ StateOfLoop /\ pc = "batch" /\ q_now \in 0 .. 8
      /\ q_now # Q_START /\ ~thrown
  BY InvFacts DEF RunEvent, StateOfLoop
<1>1. BaseInv'
  BY <1>0, HandlePreserves DEF RunEvent
<1>2. /\ batch' = batch \ {e}
      /\ pc' = AfterEvent
  BY DEF RunEvent
<1>3. /\ pc' \in {"batch", "select", "returned", "raised"}
      /\ pc' = "raised" <=> thrown'
      /\ pc' # "raised" => (pc' = "batch" <=> batch' # {})
      /\ pc' = "select" => q_now' # Q_DONE
      /\ pc' = "returned" => q_now' = Q_DONE
  BY <1>2 DEF AfterEvent
<1>4. TypeOK'
  <2>1. BaseTypeOK'
    BY <1>1 DEF BaseInv
  <2>2. batch' \in SUBSET Events
    BY <1>0, <1>2 DEF TypeOK
  <2> QED BY <1>0, <1>3, <2>1, <2>2 DEF RunEvent, TypeOK
<1>5. q_now' \in 0 .. 8 /\ q_now' >= q_now
  <2>1. Waits \/ Advances
    BY <1>0, HandleOutcome DEF RunEvent
  <2> QED BY <1>0, <2>1, StateFacts DEF Waits, Advances
<1>6. q_now' # Q_START /\ (q_now' # Q_DONE => q_now' \in Active)
  BY <1>0, <1>5, StateFacts DEF Q_START, Q_DONE
<1>7. child_pid' \/ q_now' \in {Q_EXITED, Q_DONE}
  BY <1>1, <1>6, StateFacts DEF BaseInv, ChildInv, StateOfChild, Q_EXITED, Q_DONE
<1>8. /\ TimeoutNotLost' /\ timer' <= q_now' /\ ExitNotLost'
      /\ q_now' = Q_DONE => timer' = NoTimer
  BY RunEventTimeout, RunEventExit
<1>9. fired' => timer' # NoTimer
  BY <1>0 DEF RunEvent, StateOfLoop
<1>10. stop' \/ q_now' = Q_DONE
  <2>1. stop' = (stop /\ q_now' # Q_DONE)
    BY DEF RunEvent
  <2>2. stop \/ q_now = Q_DONE
    BY <1>0 DEF StateOfLoop
  <2>3. q_now = Q_DONE => q_now' = Q_DONE
    BY <1>5 DEF Q_DONE
  <2> QED BY <2>1, <2>2, <2>3
<1>11. StateOfLoop'
  BY <1>3, <1>6, <1>7, <1>8, <1>9, <1>10 DEF StateOfLoop
<1> QED BY <1>1, <1>4, <1>8, <1>11 DEF IInv, LoopInv

-----------------------------------------------------------------------------
(* The other steps of the thread *)

LEMMA ForkAndExecPreserves ==
  ASSUME IInv, ForkAndExec
  PROVE  IInv'
<1>0. /\ TypeOK /\ BaseInv /\ StateOfLoop /\ q_now = Q_START /\ batch = {}
      /\ ~thrown
  BY InvFacts DEF ForkAndExec, StateOfLoop
<1>1. BaseInv'
  BY <1>0, ForkPreserves DEF ForkAndExec
<1>2. /\ child' = "forked" /\ child_pid' /\ pc' = "forked" /\ watched'
      /\ UNCHANGED <<q_now, timer, thrown, batch, expired, fired, raised, chld_ready,
                     stop, stop_ready, stuck>>
  BY DEF ForkAndExec, fork_and_exec, Forked
<1>3. TypeOK'
  BY <1>0, <1>1, <1>2 DEF TypeOK, BaseInv
<1>4. LoopInv'
  BY <1>0, <1>2 DEF LoopInv, StateOfLoop, TimeoutNotLost, ExitNotLost, Executing
<1> QED BY <1>1, <1>3, <1>4 DEF IInv

LEMMA ForkRaisesPreserved ==
  ASSUME IInv, ForkRaises
  PROVE  IInv'
<1>0. /\ TypeOK /\ BaseInv /\ StateOfLoop /\ q_now = Q_START /\ batch = {}
      /\ timer <= q_now /\ ~fired
  BY InvFacts DEF ForkRaises, StateOfLoop, NoTimer, Q_START
<1>1. BaseInv'
  BY <1>0, ForkRaisesPreserves DEF ForkRaises
<1>2. /\ pc' = "raised" /\ watched' = TRUE
      /\ UNCHANGED <<batch, expired, fired, raised, chld_ready, stop, stop_ready,
                     stuck>>
  BY DEF ForkRaises
<1>3. /\ UNCHANGED <<q_now, timer, thrown>>
      /\ child' = "zombie" => child = "zombie" /\ UNCHANGED <<child_pid, child>>
  BY DEF ForkRaises, fork_raises, Forked, world
<1>4. ~thrown /\ child # "zombie"
  BY <1>0 DEF StateOfLoop, ForkRaises, BaseInv, ChildInv, PidIsOurs
<1>5. TypeOK'
  BY <1>0, <1>1, <1>2 DEF TypeOK, BaseInv
<1>6. LoopInv'
  BY <1>0, <1>2, <1>3, <1>4 DEF LoopInv, StateOfLoop, TimeoutNotLost, ExitNotLost,
                                Executing, Q_START
<1> QED BY <1>1, <1>5, <1>6 DEF IInv

LEMMA StartFsmPreserves ==
  ASSUME IInv, StartFsm
  PROVE  IInv'
<1>0. /\ TypeOK /\ BaseInv /\ StateOfLoop /\ ExitNotLost /\ q_now = Q_START
      /\ timer = 0 /\ batch = {} /\ child_pid /\ ~thrown
  BY InvFacts DEF StartFsm, StateOfLoop, Q_START, Q_EXITED, Q_DONE
<1>1. BaseInv'
  BY <1>0, StartPreserves DEF StartFsm
<1>2. /\ pc' = IF thrown' THEN "raised" ELSE "started"
      /\ UNCHANGED <<batch, expired, fired, raised, chld_ready, watched, stop,
                     stop_ready, stuck>>
  BY DEF StartFsm
<1>3. /\ q_now' \in {1, 2, 4} /\ (~thrown' => timer' = Started(q_now'))
      /\ timer' \in {NoTimer, q_now'}
      /\ UNCHANGED <<ends, options, child_pid, child>>
  BY <1>0, StartFacts DEF StartFsm, Started
<1>5. TypeOK'
  BY <1>0, <1>1, <1>2 DEF TypeOK, BaseInv
<1>6. StateOfLoop'
  BY <1>0, <1>2, <1>3, StateFacts DEF StateOfLoop, NoTimer, Q_START, Q_DONE
<1>7. TimeoutNotLost'
  <2>1. ~fired'
    BY <1>0, <1>2 DEF StateOfLoop, NoTimer
  <2>2. q_now' \in TimedStates /\ Timeout(q_now') \in options'.timeouts =>
          Started(q_now') = q_now'
    BY <1>3 DEF Started
  <2>3. Executing' => ~thrown'
    BY <1>2 DEF Executing
  <2> QED BY <1>3, <2>1, <2>2, <2>3 DEF TimeoutNotLost
<1>8. ExitNotLost'
  BY <1>0, <1>2, <1>3 DEF ExitNotLost
<1> QED BY <1>1, <1>5, <1>6, <1>7, <1>8 DEF IInv, LoopInv

LEMMA SetupStopPreserves ==
  ASSUME IInv, SetupStop
  PROVE  IInv'
<1>1. /\ TypeOK /\ StateOfLoop /\ TimeoutNotLost /\ ExitNotLost /\ pc = "started"
      /\ UNCHANGED <<command, world>> /\ pc' = "select" /\ stop'
      /\ UNCHANGED <<batch, expired, fired, raised, chld_ready, watched, stop_ready,
                     stuck>>
  BY InvFacts DEF SetupStop
<1>2. BaseInv'
  BY <1>1, IgnorePreserves DEF IInv
<1>3. TypeOK'
  BY <1>1, <1>2 DEF TypeOK, BaseInv
<1>4. LoopInv'
  BY <1>1 DEF command, world, LoopInv, StateOfLoop, TimeoutNotLost, ExitNotLost, Executing
<1> QED BY <1>1, <1>3, <1>4, LoopStep

LEMMA SetupStopRaisesPreserves ==
  ASSUME IInv, SetupStopRaises
  PROVE  IInv'
<1>1. /\ TypeOK /\ StateOfLoop /\ TimeoutNotLost /\ ExitNotLost /\ pc = "started"
      /\ UNCHANGED <<command, world>> /\ pc' = "raised"
      /\ UNCHANGED <<batch, expired, fired, raised, chld_ready, watched, stop, stop_ready, stuck>>
  BY InvFacts DEF SetupStopRaises
<1>2. BaseInv'
  BY <1>1, IgnorePreserves DEF IInv
<1>3. TypeOK'
  BY <1>1, <1>2 DEF TypeOK, BaseInv
<1>4. LoopInv'
  BY <1>1 DEF command, world, LoopInv, StateOfLoop, TimeoutNotLost, ExitNotLost, Executing
<1> QED BY <1>1, <1>3, <1>4, LoopStep

LEMMA SelectPreserves ==
  ASSUME IInv, Select
  PROVE  IInv'
<1>1. /\ TypeOK /\ StateOfLoop /\ TimeoutNotLost /\ ExitNotLost /\ pc = "select"
      /\ UNCHANGED <<command, world>> /\ pc' = "batch" /\ batch' \in SUBSET Events
      /\ UNCHANGED <<expired, fired, raised, chld_ready, watched, stop, stop_ready,
                     stuck>>
  BY InvFacts DEF Select
<1>2. q_now # Q_START /\ batch = {}
  BY <1>1, StateFacts DEF StateOfLoop, Q_START
<1>3. BaseInv'
  BY <1>1, IgnorePreserves DEF IInv
<1>4. TypeOK'
  BY <1>1, <1>3 DEF TypeOK, BaseInv
<1>5. LoopInv'
  BY <1>1, <1>2 DEF command, world, LoopInv, StateOfLoop, TimeoutNotLost, ExitNotLost,
                    Executing
<1> QED BY <1>1, <1>4, <1>5, LoopStep

LEMMA ExitPreserves ==
  ASSUME IInv, Exit
  PROVE  IInv'
<1>1. /\ TypeOK /\ BaseInv /\ StateOfLoop /\ q_now \in 0 .. 8 /\ close
      /\ pc' = "closed" /\ batch' = {} /\ ~expired' /\ ~fired' /\ ~chld_ready'
      /\ ~stop' /\ ~stop_ready' /\ UNCHANGED <<raised, watched, stuck>>
      /\ expired' \in BOOLEAN /\ fired' \in BOOLEAN /\ chld_ready' \in BOOLEAN
      /\ stop' \in BOOLEAN /\ stop_ready' \in BOOLEAN
  BY InvFacts DEF Exit
<1>2. BaseInv'
  BY <1>1, ClosePreserves
<1>3. q_now' = q_now /\ timer' = 0 /\ ~ends'.sigchld
  <2>1. ends \in EndsType /\ ends' = Closed(ends)
    BY <1>1 DEF close, BaseInv, BaseTypeOK
  <2> QED BY <1>1, <2>1, ClosedFacts DEF close, NoTimer
<1>4. TypeOK'
  BY <1>1, <1>2 DEF TypeOK, BaseInv
<1>5. LoopInv'
  BY <1>1, <1>3 DEF NoTimer, LoopInv, StateOfLoop, TimeoutNotLost, ExitNotLost, Executing
<1> QED BY <1>2, <1>4, <1>5 DEF IInv

-----------------------------------------------------------------------------
(* Timers, signals and the child *)

LEMMA OutsidePreserves ==
  ASSUME IInv,
         \/ TimerExpires \/ LateTrigger \/ DispatchSigchld \/ HandlerBlocks \/ Cancel
         \/ OtherSigchld
  PROVE  IInv'
<1>0. /\ TypeOK /\ StateOfLoop /\ TimeoutNotLost /\ ExitNotLost
  BY InvFacts
<1>1. UNCHANGED <<command, world>>
  BY DEF TimerExpires, LateTrigger, DispatchSigchld, HandlerBlocks, Cancel, OtherSigchld
<1>2. BaseInv'
  BY <1>1, IgnorePreserves DEF IInv
<1>3. CASE TimerExpires
  <2>1. /\ timer # NoTimer /\ expired' /\ fired' /\ expired' = TRUE /\ fired' = TRUE
        /\ UNCHANGED <<pc, batch, raised, chld_ready, watched, stop, stop_ready,
                       stuck>>
    BY <1>3 DEF TimerExpires
  <2>2. TypeOK'
    BY <1>0, <1>2, <2>1 DEF TypeOK, BaseInv
  <2>3. LoopInv'
    BY <1>0, <1>1, <2>1 DEF command, world, LoopInv, StateOfLoop, TimeoutNotLost,
                            ExitNotLost, Executing
  <2> QED BY <1>1, <2>2, <2>3, LoopStep
<1>4. CASE DispatchSigchld
  <2>1. /\ chld_ready' = (chld_ready \/ ends.sigchld) /\ raised' = FALSE
        /\ UNCHANGED <<pc, batch, expired, fired, watched, stop, stop_ready, stuck>>
    BY <1>4 DEF DispatchSigchld
  <2>2. TypeOK'
    BY <1>0, <1>2, <2>1 DEF TypeOK, BaseInv
  <2>3. LoopInv'
    BY <1>0, <1>1, <2>1 DEF command, world, LoopInv, StateOfLoop, TimeoutNotLost,
                            ExitNotLost, Executing
  <2> QED BY <1>1, <2>2, <2>3, LoopStep
<1>5. CASE Cancel
  <2>1. /\ pc' = pc \/ pc' = "raised"
        /\ stop_ready' = stop_ready \/ stop_ready' = TRUE
        /\ stuck' = stuck \/ stuck' = FALSE
        /\ UNCHANGED <<batch, expired, fired, raised, chld_ready, watched, stop>>
    BY <1>5 DEF Cancel
  <2>2. TypeOK'
    BY <1>0, <1>2, <2>1 DEF TypeOK, BaseInv
  <2>3. LoopInv'
    BY <1>0, <1>1, <2>1 DEF command, world, LoopInv, StateOfLoop, TimeoutNotLost,
                            ExitNotLost, Executing
  <2> QED BY <1>1, <2>2, <2>3, LoopStep
<1>6. CASE OtherSigchld
  <2>1. /\ chld_ready' = TRUE
        /\ UNCHANGED <<pc, batch, expired, fired, raised, watched, stop, stop_ready,
                       stuck>>
    BY <1>6 DEF OtherSigchld
  <2>2. TypeOK'
    BY <1>0, <1>2, <2>1 DEF TypeOK, BaseInv
  <2>3. LoopInv'
    BY <1>0, <1>1, <2>1 DEF command, world, LoopInv, StateOfLoop, TimeoutNotLost,
                            ExitNotLost, Executing
  <2> QED BY <1>1, <2>2, <2>3, LoopStep
<1>7. CASE LateTrigger
  <2>1. /\ expired' \in BOOLEAN /\ (fired /\ expired => expired')
        /\ UNCHANGED <<pc, batch, fired, raised, chld_ready, watched, stop, stop_ready,
                       stuck>>
    BY <1>0, <1>7 DEF LateTrigger, TypeOK, StateOfLoop
  <2>2. TypeOK'
    BY <1>0, <1>2, <2>1 DEF TypeOK, BaseInv
  <2>3. LoopInv'
    BY <1>0, <1>1, <2>1 DEF command, world, LoopInv, StateOfLoop, TimeoutNotLost,
                            ExitNotLost, Executing
  <2> QED BY <1>1, <2>2, <2>3, LoopStep
<1>8. CASE HandlerBlocks
  <2>1. /\ stuck' = TRUE
        /\ UNCHANGED <<pc, batch, expired, fired, raised, chld_ready, watched, stop,
                       stop_ready>>
    BY <1>8 DEF HandlerBlocks
  <2>2. TypeOK'
    BY <1>0, <1>2, <2>1 DEF TypeOK, BaseInv
  <2>3. LoopInv'
    BY <1>0, <1>1, <2>1 DEF command, world, LoopInv, StateOfLoop, TimeoutNotLost,
                            ExitNotLost, Executing
  <2> QED BY <1>1, <2>2, <2>3, LoopStep
<1> QED BY <1>3, <1>4, <1>5, <1>6, <1>7, <1>8

LEMMA ChildPreserves ==
  ASSUME IInv, ChildStep \/ ChildExit \/ ExecFailure
  PROVE  IInv'
<1>0. TypeOK /\ BaseInv /\ StateOfLoop /\ TimeoutNotLost /\ ExitNotLost
  BY InvFacts
<1>1. BaseInv'
  BY <1>0, WorldPreserves DEF ChildStep, ChildExit, ExecFailure
<1>2. /\ UNCHANGED command
      /\ UNCHANGED <<pc, batch, expired, fired, chld_ready, stop, stop_ready, stuck>>
      /\ raised' = raised \/ raised' = TRUE
      /\ watched' \in {watched, TRUE, FALSE}
      /\ child' = "zombie" => child = "zombie" \/ raised'
      /\ raised => raised'
  <2>1. CASE ChildStep
    <3>1. UNCHANGED command /\ (child' = child \/ child' = "running")
      BY <2>1 DEF ChildStep, ChildExecs, ChildWrites, ChildCloses
    <3>2. UNCHANGED <<pc, batch, expired, fired, raised, chld_ready, watched, stop,
                      stop_ready, stuck>>
      BY <2>1 DEF ChildStep, loop
    <3> QED BY <3>1, <3>2
  <2>2. CASE ChildExit
    BY <2>2 DEF ChildExit, ChildExits
  <2>3. CASE ExecFailure
    BY <2>3 DEF ExecFailure, ExecFails
  <2> QED BY <2>1, <2>2, <2>3
<1>3. TypeOK'
  <2>1. BaseTypeOK'
    BY <1>1 DEF BaseInv
  <2>2. raised' \in BOOLEAN /\ watched' \in BOOLEAN
    BY <1>0, <1>2 DEF TypeOK
  <2> QED BY <1>0, <1>2, <2>1, <2>2 DEF TypeOK
<1>4. LoopInv'
  BY <1>0, <1>2 DEF command, LoopInv, StateOfLoop, TimeoutNotLost, ExitNotLost, Executing
<1> QED BY <1>1, <1>3, <1>4 DEF IInv

-----------------------------------------------------------------------------
(* The theorems *)

\* Every step of the select loop and of the world around it preserves the invariant.
THEOREM NextInv == IInv /\ [Next]_vars => IInv'
<1> SUFFICES ASSUME IInv, [Next]_vars PROVE IInv'
  OBVIOUS
<1>1. CASE UNCHANGED vars
  <2>1. /\ UNCHANGED <<command, world>>
        /\ UNCHANGED <<pc, batch, expired, fired, raised, chld_ready, watched, stop,
                       stop_ready, stuck>>
    BY <1>1 DEF vars, loop
  <2>2. BaseInv' /\ TypeOK /\ LoopInv
    BY <2>1, IgnorePreserves DEF IInv
  <2>3. TypeOK'
    BY <2>1, <2>2 DEF TypeOK, BaseInv
  <2>4. LoopInv'
    BY <2>1, <2>2 DEF command, world, LoopInv, StateOfLoop, TimeoutNotLost,
                      ExitNotLost, Executing
  <2> QED BY <2>2, <2>3, <2>4 DEF IInv
<1>2. CASE ForkAndExec BY <1>2, ForkAndExecPreserves
<1>11. CASE ForkRaises BY <1>11, ForkRaisesPreserved
<1>3. CASE StartFsm BY <1>3, StartFsmPreserves
<1>4. CASE SetupStop BY <1>4, SetupStopPreserves
<1>12. CASE SetupStopRaises BY <1>12, SetupStopRaisesPreserves
<1>5. CASE Select BY <1>5, SelectPreserves
<1>6. CASE \E e \in Events : RunEvent(e) BY <1>6, RunEventPreserves
<1>7. CASE Exit BY <1>7, ExitPreserves
<1>8. CASE \/ TimerExpires \/ LateTrigger \/ DispatchSigchld \/ HandlerBlocks \/ Cancel
           \/ OtherSigchld
  BY <1>8, OutsidePreserves
<1>9. CASE ChildStep \/ ChildExit \/ ExecFailure BY <1>9, ChildPreserves
<1>10. CASE Finished BY <1>1, <1>10 DEF Finished
<1> QED BY <1>1, <1>2, <1>3, <1>4, <1>5, <1>6, <1>7, <1>8, <1>9, <1>10, <1>11,
           <1>12 DEF Next

\* The inductive invariant holds in every state of every execution.
THEOREM Invariance == Spec => []IInv
<1>1. Init => IInv
  BY InitInv
<1>2. IInv /\ [Next]_vars => IInv'
  BY NextInv
<1> QED BY <1>1, <1>2, PTL DEF Spec

\* Every variable of the command, the loop and the world keeps its type.
THEOREM TypeCorrect == Spec => []TypeOK
<1>1. IInv => TypeOK
  BY DEF IInv
<1> QED BY <1>1, Invariance, PTL

\* The pid is that of a child not yet reaped (fork_and_exec, reap_child).
THEOREM PidCorrect == Spec => []PidIsOurs
<1>1. IInv => PidIsOurs
  BY DEF IInv, BaseInv, ChildInv
<1> QED BY <1>1, Invariance, PTL

\* Every verdict has its evidence (reap_child, kill_failed).
THEOREM VerdictCorrect == Spec => []DoneHasVerdict
<1>1. IInv => DoneHasVerdict
  BY DEF IInv, BaseInv, ChildInv
<1> QED BY <1>1, Invariance, PTL

\* EXITED is never entered with nothing left to wait for (reap_child).
THEOREM ExitedCorrect == Spec => []ExitedIsReading
<1>1. IInv => ExitedIsReading
  BY DEF IInv, BaseInv, ChildInv
<1> QED BY <1>1, Invariance, PTL

\* The password goes only where its prompt came from, whatever order the
\* events arrive in (ssh_password, sudo_password).
THEOREM ChallengesCorrect == Spec => [](ChallengesMet /\ MasterPromptAnswered)
<1>1. IInv => ChallengesMet /\ MasterPromptAnswered
  BY DEF IInv, BaseInv, ChannelInv
<1> QED BY <1>1, Invariance, PTL

\* Write events follow the output that is left (IOEndpoint.write).
THEOREM WriteEventsCorrect == Spec => []WriteEventsMatchOutput
<1>1. IInv => WriteEventsMatchOutput
  BY DEF IInv, BaseInv, ChannelInv
<1> QED BY <1>1, Invariance, PTL

\* No expiry of a configured timer is lost (start_timer, TimerEvent, execute).
THEOREM TimeoutsCorrect == Spec => []TimeoutNotLost
<1>1. IInv => TimeoutNotLost
  BY DEF IInv, LoopInv
<1> QED BY <1>1, Invariance, PTL

\* Whatever the child does, a select() returns by itself: its timer is still to fire or
\* has made its eventfd readable, unless none is configured or the state is EXITED.
THEOREM SelectBounded == Spec => []SelectIsBounded
<1>1. ASSUME IInv, pc = "select" PROVE SelectIsBounded
  <2>1. /\ batch = {} /\ q_now \in Active /\ Executing /\ (fired => timer # NoTimer)
        /\ TimeoutNotLost
    BY <1>1, InvFacts DEF StateOfLoop, Executing
  <2>2. q_now \in TimedStates \/ q_now = Q_EXITED
    BY <2>1, StateFacts DEF Q_EXITED
  <2>3. TimedStates \subseteq 1 .. 7
    BY StateFacts
  <2> QED BY <2>1, <2>2, <2>3 DEF SelectIsBounded, TimeoutNotLost, NoTimer
<1>2. IInv => SelectIsBounded
  BY <1>1 DEF SelectIsBounded
<1> QED BY <1>2, Invariance, PTL

\* A timeout the machine is given brings the command nearer to its end, to a signal
\* not sent yet or to its verdict (timeout and the actions it calls).
THEOREM TimeoutsEscalate == Spec => TimeoutEscalates
<1>1. ASSUME IInv, [Next]_vars, pc = "batch", q_now \in Active, E_TIMEOUT \in batch \ batch'
      PROVE  q_now' > q_now /\ q_now' >= Q_TERM
  <2>1. ASSUME NEW e \in Events, RunEvent(e)
        PROVE  e = E_TIMEOUT /\ Handle(e)
    BY <1>1, <2>1 DEF RunEvent
  <2>2. RunEvent(E_TIMEOUT)
    BY <1>1, <2>1
       DEF Next, ForkAndExec, ForkRaises, StartFsm, SetupStop, SetupStopRaises, Select,
           Exit, TimerExpires, LateTrigger, DispatchSigchld, HandlerBlocks, Cancel,
           OtherSigchld, ChildStep, ChildExit, ExecFailure,
           Finished, vars, loop
  <2>3. BaseInv /\ ~thrown /\ E_TIMEOUT \in Events /\ Handle(E_TIMEOUT)
    BY <1>1, <2>2, InvFacts DEF RunEvent, StateOfLoop, TypeOK
  <2> QED BY <1>1, <2>3, HandleOutcome DEF Advances
<1>2. IInv /\ [Next]_vars =>
        [pc = "batch" /\ q_now \in Active /\ E_TIMEOUT \in batch \ batch' =>
           q_now' > q_now /\ q_now' >= Q_TERM]_vars
  BY <1>1
<1> QED BY <1>2, Invariance, PTL DEF Spec, TimeoutEscalates

\* No exit of the child is lost while its events are enabled (SignalEvent).
THEOREM ExitsCorrect == Spec => []ExitNotLost
<1>1. IInv => ExitNotLost
  BY DEF IInv, LoopInv
<1> QED BY <1>1, Invariance, PTL

\* What one step does to the machine, the signals and the verdict.
LEMMA StepFacts ==
  ASSUME IInv, [Next]_vars
  PROVE  \/ UNCHANGED <<q_now, signals, status, reason>>
         \/ Advances
         \/ /\ UNCHANGED <<status, reason>> /\ q_now = Q_START /\ q_now' \in {1, 2, 4}
            /\ UNCHANGED signals
<1>1. CASE \E e \in Events : RunEvent(e)
  BY <1>1, InvFacts, HandleOutcome DEF RunEvent, Waits, StateOfLoop
<1>2. CASE StartFsm
  <2>1. q_now = Q_START
    BY <1>2, InvFacts DEF StartFsm, StateOfLoop
  <2> QED BY <1>2, <2>1, InvFacts, StartFacts DEF StartFsm
<1>3. CASE \/ ForkAndExec \/ SetupStop \/ SetupStopRaises \/ Select \/ Exit
           \/ TimerExpires \/ LateTrigger \/ DispatchSigchld \/ HandlerBlocks \/ Cancel
           \/ OtherSigchld \/ ChildStep \/ ChildExit \/ ExecFailure \/ Finished \/ ForkRaises \/ UNCHANGED vars
  BY <1>3 DEF ForkRaises, fork_raises, Forked, ForkAndExec, fork_and_exec, SetupStop,
     SetupStopRaises, Select, Exit, close, TimerExpires, LateTrigger, DispatchSigchld,
     HandlerBlocks, Cancel, OtherSigchld, ChildStep, ChildExit, ExecFailure, Finished,
     ChildExecs, ChildWrites, ChildCloses, ChildExits, ExecFails, vars, command
<1> QED BY <1>1, <1>2, <1>3 DEF Next

\* The invariants on both sides of a step, as the action theorems use them.
LEMMA BothSides ==
  ASSUME IInv, [Next]_vars
  PROVE  /\ q_now \in 0 .. 8 /\ q_now' \in 0 .. 8
         /\ StateOfChild /\ StateOfChild' /\ PidIsOurs'
<1>1. IInv'
  BY NextInv
<1>2. q_now' \in States
  BY <1>1 DEF IInv, BaseInv, BaseTypeOK
<1> QED BY <1>1, <1>2, InvFacts, StateFacts DEF IInv, BaseInv, ChildInv

\* The machine never goes back, and SIGKILL never comes before SIGTERM.
THEOREM EscalationCorrect == Spec => Escalation
<1>1. ASSUME IInv, [Next]_vars
      PROVE  /\ q_now' >= q_now
             /\ "SIGKILL" \in signals' => q_now' # Q_TERM /\ "SIGTERM" \in signals
  <2>1. q_now' >= q_now
    BY <1>1, BothSides, StepFacts DEF Advances, Q_START
  <2>2. ASSUME "SIGKILL" \in signals', "SIGKILL" \notin signals
        PROVE  "SIGTERM" \in signals
    <3>1. signals' = signals \cup Sent(q_now')
      BY <1>1, <2>2, StepFacts DEF Advances
    <3>2. Sent(q_now') = {"SIGKILL"} /\ q_now' = Q_KILL
      BY <2>2, <3>1 DEF Sent
    <3>3. "SIGTERM" \in signals'
      BY <1>1, <3>2, BothSides DEF StateOfChild
    <3> QED BY <3>1, <3>2, <3>3
  <2>3. "SIGKILL" \in signals' => q_now' # Q_TERM /\ "SIGTERM" \in signals
    BY <1>1, <2>2, BothSides DEF StateOfChild
  <2> QED BY <2>1, <2>3
<1>2. IInv /\ [Next]_vars =>
        [/\ q_now' >= q_now
         /\ "SIGKILL" \in signals' => q_now' # Q_TERM /\ "SIGTERM" \in signals]_<<command, world>>
  BY <1>1
<1> QED BY <1>2, Invariance, PTL DEF Spec, Escalation

\* A status or a reason, once given, is the one the caller sees.
THEOREM VerdictFinal == Spec => VerdictIsFinal
<1>1. IInv /\ [Next]_vars =>
        [/\ status # "none" => status' = status
         /\ reason # "none" => reason' = reason]_<<command, world>>
  BY StepFacts DEF Advances
<1> QED BY <1>1, Invariance, PTL DEF Spec, VerdictIsFinal

\* No signal is sent to a pid that may be another process's by now.
THEOREM SignalsCorrect == Spec => SignalsOnlyOurChild
<1>1. ASSUME IInv, [Next]_vars, signals' # signals
      PROVE  child \in {"forked", "running", "zombie"}
  <2>1. /\ signals' = signals \cup Sent(q_now')
        /\ child' = child \/ child' = "reaped"
    BY <1>1, StepFacts DEF Advances
  <2>2. signals \cup {} = signals
    BY <1>1, InvFacts DEF BaseTypeOK
  <2>3. q_now' \in {Q_TERM, Q_KILL}
    BY <1>1, <2>1, <2>2 DEF Sent
  <2>4. child' \in {"forked", "running", "zombie"}
    BY <1>1, <2>3, BothSides DEF StateOfChild, PidIsOurs, TimedStates
  <2> QED BY <2>1, <2>4
<1>2. IInv /\ [Next]_vars =>
        [signals' # signals => child \in {"forked", "running", "zombie"}]_<<command, world>>
  BY <1>1
<1> QED BY <1>2, Invariance, PTL DEF Spec, SignalsOnlyOurChild

\* From its first select() on an exception leaves a child that runs and was never
\* signalled only where SIGTERM is refused, or where the state behind an answered
\* challenge gets no timer (cancel, setup_stop, disable_stop, start_timer).
THEOREM RaisesEarly == Spec => RaisesOnlyEarly
<1> DEFINE Refused == thrown' /\ q_now' = Q_TERM
           Untimed == /\ thrown' /\ q_now \in AuthStates
                      /\ q_now' \in {Q_SUDO_STDIO, Q_RUNNING}
<1>1. ASSUME IInv, [Next]_vars, pc # "raised", pc' = "raised",
             child' \in {"forked", "running"}, signals' = {},
             pc \notin {"new", "forked", "started"}
      PROVE  Refused \/ Untimed
  <2>1. ASSUME NEW e \in Events, RunEvent(e)
        PROVE  Refused \/ Untimed
    <3>1. /\ BaseInv /\ ~thrown /\ q_now # Q_START /\ Handle(e) /\ BaseInv' /\ thrown'
      BY <1>1, <2>1, InvFacts, NextInv DEF RunEvent, AfterEvent, StateOfLoop, IInv
    <3>2. Advances
      BY <3>1, HandleOutcome DEF Waits
    <3>3. /\ q_now' \in TimedStates /\ q_now' > q_now /\ UNCHANGED options
          /\ q_now \in 1 .. 8 /\ q_now' \in 0 .. 8
      BY <3>1, <3>2, StateFacts DEF Advances, BaseInv, BaseTypeOK, Q_START
    <3>4. q_now' # Q_KILL
      BY <1>1, <3>1 DEF BaseInv, ChildInv, StateOfChild
    <3>5. ~(q_now = Q_SSH_MASTER /\ q_now' = Q_SUDO_MASTER)
      BY <3>1, <3>3 DEF BaseInv, ChannelInv, StateOfChallenge, Q_SSH_MASTER, Q_SUDO_MASTER
    <3> QED BY <3>1, <3>3, <3>4, <3>5, StateFacts
            DEF Q_SSH_MASTER, Q_SUDO_MASTER, Q_SUDO_STDIO, Q_RUNNING, Q_TERM, Q_KILL
  <2>2. CASE Cancel
    <3>1. /\ ~stop /\ pc # "closed" /\ UNCHANGED <<command, world>>
          /\ pc \in {"select", "batch", "returned"}
      BY <1>1, <2>2, InvFacts DEF Cancel, TypeOK
    <3>2. q_now = Q_DONE /\ DoneHasVerdict
      BY <1>1, <3>1, InvFacts DEF StateOfLoop, IInv, BaseInv, ChildInv
    <3> QED BY <1>1, <3>1, <3>2 DEF DoneHasVerdict, command, world
  <2>3. CASE ChildStep \/ ChildExit \/ ExecFailure \/ Finished \/ UNCHANGED vars
    BY <1>1, <2>3 DEF ChildStep, ChildExit, ExecFailure, Finished, vars, loop
  <2> QED BY <1>1, <2>1, <2>2, <2>3
          DEF Next, ForkAndExec, ForkRaises, StartFsm, SetupStop, SetupStopRaises, Select,
              Exit, TimerExpires, LateTrigger, DispatchSigchld, HandlerBlocks, OtherSigchld
<1>2. IInv /\ [Next]_vars =>
        [pc # "raised" /\ pc' = "raised"
           /\ child' \in {"forked", "running"} /\ signals' = {} =>
           pc \in {"new", "forked", "started"} \/ Refused \/ Untimed]_vars
  BY <1>1
<1> QED BY <1>2, Invariance, PTL DEF Spec, RaisesOnlyEarly
=============================================================================
