-------------------------- MODULE AioCommandProofs --------------------------
(***************************************************************************)
(* What the asyncio loop guarantees for every configuration, password,     *)
(* child and process around it.                                            *)
(***************************************************************************)
EXTENDS AioCommand, CommandBaseProofs

\* The facts every step of the loop starts from.
LEMMA InvFacts ==
  IInv => /\ TypeOK /\ BaseTypeOK /\ BaseInv /\ StateOfLoop
          /\ TimeoutNotLost /\ StateOfSigchld /\ OnlyStraysLoseExit /\ OnlyStopSleeps
          /\ q_now \in 0 .. 8 /\ timer \in 0 .. 7
  BY StateFacts DEF IInv, LoopInv, BaseInv, BaseTypeOK, TypeOK, NoTimer, Q_RUNNING,
                    Q_TERM, Q_KILL

\* The invariant holds of a command that was just constructed (__init__).
THEOREM InitInv == Init => IInv
<1> SUFFICES ASSUME Init PROVE IInv
  OBVIOUS
<1>1. BaseInv
  BY InitHolds DEF Init
<1>2. TypeOK
  BY <1>1 DEF Init, TypeOK, BaseInv
<1>3. LoopInv
  BY StateFacts DEF Init, BaseInit, LoopInv, StateOfLoop, OnlyStopSleeps, StateOfSigchld,
                    TimeoutNotLost,
     OnlyStraysLoseExit, ExitNotLost, Executing, NoTimer, Q_START, Q_DONE
<1> QED BY <1>1, <1>2, <1>3 DEF IInv

-----------------------------------------------------------------------------
(* One pass of the inner loop *)

\* A configured timer is the one of the state the machine is in, and no event
\* of its expiry is dropped, when the machine waits and when it moves on: what
\* leaves the timer alone is not a timeout.
LEMMA RunEventTimeout ==
  ASSUME IInv, NEW e \in Events, RunEvent(e)
  PROVE  TimeoutNotLost' /\ timer' <= q_now' /\ (q_now' = Q_DONE => timer' = NoTimer)
<1>0. /\ q_now \in 0 .. 8 /\ timer <= q_now /\ (q_now = Q_DONE => timer = NoTimer)
      /\ BaseInv /\ q_now # Q_START /\ ~thrown
      /\ fired => timer # NoTimer
  BY InvFacts DEF StateOfLoop, RunEvent
<1>1. /\ Waits \/ Advances
      /\ e = E_TIMEOUT /\ q_now \in Active => Advances /\ q_now' >= Q_TERM
      /\ next_events' = next_events \ {e}
      /\ fired' = (fired /\ timer' = timer)
  BY <1>0, HandleOutcome DEF RunEvent
<1>2. q_now # Q_DONE => q_now \in Active
  BY <1>0, StateFacts DEF Q_START, Q_DONE
<1>3. CASE Waits
  <2>1. UNCHANGED <<options, q_now, timer>>
    BY <1>3 DEF Waits
  <2>2. fired' => fired /\ e # E_TIMEOUT
    <3>1. q_now \in Active => e # E_TIMEOUT
      BY <1>0, <1>1, <2>1 DEF Advances
    <3>2. fired' => fired
      BY <1>1
    <3>3. fired => q_now # Q_DONE
      BY <1>0
    <3> QED BY <1>2, <3>1, <3>2, <3>3
  <2>3. Executing' => Executing
    BY <2>1 DEF Executing, RunEvent
  <2>4. TimeoutNotLost
    BY InvFacts
  <2> QED BY <1>0, <1>1, <2>1, <2>2, <2>3, <2>4 DEF TimeoutNotLost
<1>4. CASE Advances
  <2>1. /\ timer' <= q_now' /\ (q_now' = Q_DONE => timer' = NoTimer)
        /\ ~thrown' /\ q_now' \in TimedStates /\ Timeout(q_now') \in options'.timeouts =>
             timer' = q_now'
        /\ ~thrown' /\ timer # NoTimer /\ timer' = timer => q_now' < Q_TERM
    BY <1>0, <1>4, AdvanceTimer
  <2>0. q_now' # Q_DONE => q_now # Q_DONE
    BY <1>0, <1>4, StateFacts DEF Advances, Q_DONE
  <2>2. Executing' => ~thrown' /\ Executing
    BY <1>0, <2>0 DEF Executing, RunEvent
  <2>3. ASSUME Executing', fired'
        PROVE  E_TIMEOUT \in next_events'
    <3>1. fired /\ timer' = timer /\ timer # NoTimer /\ q_now' < Q_TERM
      BY <1>0, <1>1, <2>1, <2>2, <2>3
    <3>2. e # E_TIMEOUT
      BY <1>0, <1>1, <1>2, <1>4, <3>1, StateFacts DEF Advances, Q_TERM
    <3>3. E_TIMEOUT \in next_events
      BY <2>2, <2>3, <3>1, InvFacts DEF TimeoutNotLost
    <3> QED BY <1>1, <3>1, <3>2, <3>3
  <2> QED BY <2>1, <2>2, <2>3 DEF TimeoutNotLost
<1> QED BY <1>1, <1>3, <1>4

\* The machine that looks at a SIGCHLD nothing came before reaps the child.
LEMMA RunEventSigchld ==
  ASSUME IInv, NEW e \in Events, RunEvent(e)
  PROVE  StateOfSigchld' /\ OnlyStraysLoseExit'
<1>0. /\ BaseInv /\ StateOfSigchld /\ q_now # Q_START
      /\ registered \in BOOLEAN /\ e \in next_events /\ ~thrown
  BY InvFacts DEF StateOfLoop, RunEvent, TypeOK
<1>1. /\ Waits \/ Advances
      /\ e = E_SIGCHLD /\ q_now \in Active /\ child = "zombie" => child' = "reaped"
      /\ next_events' = next_events \ {e} /\ raised' = raised /\ strayed' = strayed
      /\ registered' = (registered /\ ends'.sigchld)
  BY <1>0, HandleOutcome DEF RunEvent
<1>2. /\ child' = child \/ child' = "reaped"
      /\ ends'.sigchld => ends.sigchld
  BY <1>1 DEF Waits, Advances
<1>3. ASSUME ends'.sigchld
      PROVE  child' = child /\ q_now \in Active
  <2>1. BaseInv'
    BY <1>0, HandlePreserves DEF RunEvent
  <2>2. child' \in {"forked", "running", "zombie"}
    <3>1. q_now \in 1 .. 8 /\ q_now' \in 1 .. 8
      BY <1>0, <1>1, StateFacts
         DEF Waits, Advances, BaseInv, BaseTypeOK, Q_START
    <3> QED BY <1>3, <2>1, <3>1 DEF BaseInv, ChildInv, StateOfChild, PidIsOurs, Q_START
  <2>3. q_now # Q_DONE
    BY <1>0, <1>2, <1>3 DEF BaseInv, ChildInv, StateOfChild
  <2> QED BY <1>0, <1>2, <2>2, <2>3, StateFacts
             DEF BaseInv, BaseTypeOK, Q_START, Q_DONE
<1>4. registered' => ends'.sigchld /\ (child' = "zombie" => raised')
  BY <1>0, <1>1, <1>3 DEF StateOfSigchld
<1>5. ASSUME ~strayed', ends'.sigchld
      PROVE  /\ raised' \/ E_SIGCHLD \in next_events' => child' = "zombie"
             /\ ~registered' => E_SIGCHLD \in next_events'
  <2>1. /\ ends.sigchld /\ child' = child /\ q_now \in Active
        /\ registered' = registered
    BY <1>0, <1>1, <1>2, <1>3, <1>5
  <2>2. e # E_SIGCHLD
    <3>1. SUFFICES ASSUME e = E_SIGCHLD PROVE FALSE
      OBVIOUS
    <3>2. child = "zombie"
      BY <1>0, <1>1, <1>5, <2>1, <3>1 DEF StateOfSigchld
    <3> QED BY <1>1, <2>1, <3>1, <3>2
  <2>3. E_SIGCHLD \in next_events' <=> E_SIGCHLD \in next_events
    BY <1>1, <2>2
  <2> QED BY <1>0, <1>1, <1>5, <2>1, <2>3 DEF StateOfSigchld
<1>6. StateOfSigchld'
  BY <1>4, <1>5 DEF StateOfSigchld
<1> QED BY <1>6 DEF StateOfSigchld, OnlyStraysLoseExit, ExitNotLost

LEMMA RunEventPreserves ==
  ASSUME IInv, NEW e \in Events, RunEvent(e)
  PROVE  IInv'
<1>0. /\ TypeOK /\ BaseInv /\ StateOfLoop /\ pc = "running" /\ q_now \in 0 .. 8
      /\ q_now # Q_START /\ ~thrown
  BY InvFacts DEF RunEvent, StateOfLoop
<1>1. BaseInv'
  BY <1>0, HandlePreserves DEF RunEvent
<1>2. /\ next_events' = next_events \ {e}
      /\ pc' \in {"running", "drained", "raised"}
      /\ pc' = "running" => next_events' # {}
      /\ pc' = "raised" <=> thrown'
      /\ pc' = "drained" => next_events' = {}
      /\ fired' = (fired /\ timer' = timer)
      /\ registered' = (registered /\ ends'.sigchld)
      /\ UNCHANGED <<woken, raised, watched, strayed>>
  BY DEF RunEvent
<1>3. TypeOK'
  <2>1. BaseTypeOK'
    BY <1>1 DEF BaseInv
  <2>2. fired' \in BOOLEAN /\ registered' \in BOOLEAN
    BY <1>2
  <2> QED BY <1>0, <1>2, <2>1, <2>2 DEF TypeOK
<1>4. q_now' # Q_START
  <2>1. Waits \/ Advances
    BY <1>0, HandleOutcome DEF RunEvent
  <2> QED BY <1>0, <2>1, StateFacts DEF Waits, Advances, Q_START
<1>5. /\ TimeoutNotLost' /\ timer' <= q_now' /\ StateOfSigchld' /\ OnlyStraysLoseExit'
      /\ q_now' = Q_DONE => timer' = NoTimer
  BY RunEventTimeout, RunEventSigchld
<1>6. fired' => timer' # NoTimer
  BY <1>0, <1>2 DEF StateOfLoop
<1>7. StateOfLoop'
  BY <1>2, <1>4, <1>5, <1>6 DEF StateOfLoop
<1>8. OnlyStopSleeps'
  BY <1>2 DEF OnlyStopSleeps
<1> QED BY <1>1, <1>3, <1>5, <1>7, <1>8 DEF IInv, LoopInv

-----------------------------------------------------------------------------
(* The other steps of the task *)

LEMMA ForkAndExecPreserves ==
  ASSUME IInv, ForkAndExec
  PROVE  IInv'
<1>0. /\ TypeOK /\ BaseInv /\ StateOfLoop /\ StateOfSigchld /\ q_now = Q_START
      /\ ~raised /\ next_events = {} /\ ~woken /\ ~thrown
  BY InvFacts DEF ForkAndExec, StateOfLoop
<1>1. BaseInv'
  BY <1>0, ForkPreserves DEF ForkAndExec
<1>2. /\ child' = "forked" /\ child_pid' /\ pc' = "forked" /\ watched' \in BOOLEAN
      /\ registered' = TRUE
      /\ UNCHANGED <<q_now, timer, thrown, next_events, woken, fired, raised, strayed>>
  BY EarlierLoopsAssumption DEF ForkAndExec, Dispatched, fork_and_exec, Forked
<1>3. ends'.sigchld
  <2>1. ends \in EndsType
    BY <1>0 DEF BaseInv, BaseTypeOK
  <2> QED BY <2>1 DEF ForkAndExec, fork_and_exec, EndsType
<1>4. TypeOK'
  BY <1>0, <1>1, <1>2 DEF TypeOK, BaseInv
<1>5. LoopInv'
  BY <1>0, <1>2, <1>3 DEF LoopInv, StateOfLoop, OnlyStopSleeps, StateOfSigchld, TimeoutNotLost,
     OnlyStraysLoseExit, ExitNotLost, Executing
<1> QED BY <1>1, <1>4, <1>5 DEF IInv

LEMMA ForkRaisesPreserved ==
  ASSUME IInv, ForkRaises
  PROVE  IInv'
<1>0. /\ TypeOK /\ BaseInv /\ StateOfLoop /\ q_now = Q_START /\ ~thrown
      /\ ~raised /\ next_events = {} /\ timer <= q_now /\ ~fired
      /\ child # "zombie" /\ ends \in EndsType
  BY InvFacts DEF ForkRaises, StateOfLoop, NoTimer, Q_START, BaseInv, ChildInv, PidIsOurs,
     BaseTypeOK
<1>1. BaseInv'
  BY <1>0, ForkRaisesPreserves DEF ForkRaises
<1>2. /\ pc' = "raised" /\ watched' \in BOOLEAN /\ registered' = ends'.sigchld
      /\ UNCHANGED <<next_events, woken, fired, raised, strayed>>
  BY EarlierLoopsAssumption DEF ForkRaises, Dispatched
<1>3. UNCHANGED <<q_now, timer, thrown>> /\ child' # "zombie"
  BY <1>0 DEF ForkRaises, fork_raises, Forked, world
<1>4. ends'.sigchld \in BOOLEAN
  BY <1>1 DEF BaseInv, BaseTypeOK, EndsType
<1>5. TypeOK'
  BY <1>0, <1>1, <1>2, <1>4 DEF TypeOK, BaseInv
<1>6. LoopInv'
  BY <1>0, <1>2, <1>3 DEF LoopInv, StateOfLoop, OnlyStopSleeps, StateOfSigchld, TimeoutNotLost,
     OnlyStraysLoseExit, ExitNotLost, Executing, Q_START
<1> QED BY <1>1, <1>5, <1>6 DEF IInv

LEMMA StartFsmPreserves ==
  ASSUME IInv, StartFsm
  PROVE  IInv'
<1>0. /\ TypeOK /\ BaseInv /\ StateOfLoop /\ StateOfSigchld /\ OnlyStraysLoseExit
      /\ q_now = Q_START /\ timer = 0 /\ child_pid /\ ~thrown
  BY InvFacts DEF StartFsm, StateOfLoop, Q_START
<1>1. BaseInv'
  BY <1>0, StartPreserves DEF StartFsm
<1>2. /\ pc' = "waiting"
      /\ UNCHANGED <<next_events, woken, fired, raised, watched, registered, strayed>>
  BY DEF StartFsm
<1>3. /\ q_now' \in {1, 2, 4} /\ timer' = Started(q_now') /\ ~thrown'
      /\ UNCHANGED <<ends, options, child_pid, child>>
  BY <1>0, StartFacts, TimersAssumption DEF StartFsm
<1>5. TypeOK'
  BY <1>0, <1>1, <1>2 DEF TypeOK, BaseInv
<1>6. ~fired'
  BY <1>0, <1>2 DEF StateOfLoop, NoTimer
<1>7. StateOfLoop'
  <2>1. woken => next_events # {}
    BY <1>0 DEF StartFsm, StateOfLoop
  <2>2. timer' <= q_now'
    BY <1>3 DEF Started, NoTimer
  <2> QED BY <1>0, <1>2, <1>3, <1>6, <2>1, <2>2
             DEF StateOfLoop, Q_START, Q_DONE
<1>8. TimeoutNotLost'
  <2>1. q_now' \in TimedStates /\ Timeout(q_now') \in options'.timeouts =>
          Started(q_now') = q_now'
    BY <1>3 DEF Started
  <2> QED BY <1>3, <1>6, <2>1 DEF TimeoutNotLost
<1>9. StateOfSigchld' /\ OnlyStraysLoseExit'
  BY <1>0, <1>2, <1>3 DEF StateOfSigchld, OnlyStraysLoseExit, ExitNotLost
<1>10. OnlyStopSleeps'
  BY <1>0, <1>2 DEF StartFsm, StateOfLoop, OnlyStopSleeps
<1> QED BY <1>1, <1>5, <1>7, <1>8, <1>9, <1>10 DEF IInv, LoopInv

\* The steps of the task around its inner loop.
LEMMA TaskPreserves ==
  ASSUME IInv, Wake \/ NewFuture \/ CancelTask
  PROVE  IInv'
<1>0. TypeOK /\ LoopInv
  BY DEF IInv
<1>1. UNCHANGED <<command, world>>
  BY DEF Wake, NewFuture, CancelTask
<1>2. BaseInv'
  BY <1>1, IgnorePreserves DEF IInv
<1>3. CASE Wake
  <2>1. pc = "waiting" /\ woken /\ pc' = "running"
        /\ UNCHANGED <<next_events, woken, fired, raised, watched, registered, strayed>>
    BY <1>3 DEF Wake
  <2>2. TypeOK'
    BY <1>0, <1>2, <2>1 DEF TypeOK, BaseInv
  <2>3. LoopInv'
    BY <1>0, <1>1, <2>1 DEF command, world, LoopInv, StateOfLoop, OnlyStopSleeps, StateOfSigchld,
       TimeoutNotLost, OnlyStraysLoseExit, ExitNotLost, Executing
  <2> QED BY <1>2, <2>2, <2>3 DEF IInv
<1>4. CASE NewFuture
  <2>1. /\ pc = "drained" /\ woken' = FALSE /\ pc' \in {"returned", "waiting"}
        /\ pc' = "waiting" => q_now # Q_DONE
        /\ pc' = "returned" => q_now = Q_DONE
        /\ UNCHANGED <<next_events, fired, raised, watched, registered, strayed>>
    BY <1>4 DEF NewFuture
  <2>2. TypeOK'
    BY <1>0, <1>2, <2>1 DEF TypeOK, BaseInv
  <2>3. LoopInv'
    BY <1>0, <1>1, <2>1 DEF command, world, LoopInv, StateOfLoop, OnlyStopSleeps, StateOfSigchld,
       TimeoutNotLost, OnlyStraysLoseExit, ExitNotLost, Executing
  <2> QED BY <1>2, <2>2, <2>3 DEF IInv
<1>5. CASE CancelTask
  <2>1. pc' = "raised"
        /\ UNCHANGED <<next_events, woken, fired, raised, watched, registered, strayed>>
    BY <1>5 DEF CancelTask
  <2>2. TypeOK'
    BY <1>0, <1>2, <2>1 DEF TypeOK, BaseInv
  <2>3. LoopInv'
    BY <1>0, <1>1, <2>1 DEF command, world, LoopInv, StateOfLoop, OnlyStopSleeps, StateOfSigchld,
       TimeoutNotLost, OnlyStraysLoseExit, ExitNotLost, Executing
  <2> QED BY <1>2, <2>2, <2>3 DEF IInv
<1> QED BY <1>3, <1>4, <1>5

LEMMA ExitPreserves ==
  ASSUME IInv, Exit
  PROVE  IInv'
<1>1. /\ TypeOK /\ BaseInv /\ StateOfLoop /\ q_now \in 0 .. 8 /\ close
      /\ pc' = "closed" /\ next_events' = {} /\ woken' = FALSE /\ fired' = FALSE
      /\ registered' = FALSE /\ UNCHANGED <<raised, watched, strayed>>
  BY InvFacts DEF Exit
<1>2. BaseInv'
  BY <1>1, ClosePreserves
<1>3. q_now' = q_now /\ timer' = 0 /\ ~ends'.sigchld
  <2>1. ends \in EndsType /\ ends' = Closed(ends)
    BY <1>1 DEF close, BaseInv, BaseTypeOK
  <2> QED BY <1>1, <2>1, ClosedFacts DEF close, NoTimer
<1>4. TypeOK'
  BY <1>1, <1>2 DEF TypeOK, BaseInv
<1>5. LoopInv'
  BY <1>1, <1>3 DEF NoTimer, LoopInv, StateOfLoop, OnlyStopSleeps, StateOfSigchld, TimeoutNotLost,
     OnlyStraysLoseExit, ExitNotLost, Executing
<1> QED BY <1>2, <1>4, <1>5 DEF IInv

-----------------------------------------------------------------------------
(* The callbacks of the event loop, signal handlers and the child *)

\* An event that joins the queue, whether it is an endpoint's, the timer's or
\* a cancel, and is not E_SIGCHLD.
LEMMA AddEvent ==
  ASSUME IInv, UNCHANGED <<command, world>>, NEW e \in Events \ {E_SIGCHLD},
         add_event(e), UNCHANGED <<raised, watched, registered, strayed>>,
         pc' = pc, pc # "new", pc = "waiting" \/ e = E_STOP,
         fired' \in BOOLEAN, fired' => timer # NoTimer,
         fired' => fired \/ e = E_TIMEOUT
  PROVE  IInv'
<1>0. TypeOK /\ LoopInv
  BY DEF IInv
<1>1. BaseInv'
  BY IgnorePreserves DEF IInv
<1>2. next_events' = next_events \cup {e} /\ woken' = TRUE
  BY DEF add_event
<1>3. TypeOK'
  BY <1>0, <1>1, <1>2 DEF TypeOK, BaseInv
<1>4. StateOfLoop' /\ OnlyStopSleeps' /\ TimeoutNotLost'
  BY <1>0, <1>2 DEF command, world, LoopInv, StateOfLoop, OnlyStopSleeps, TimeoutNotLost,
                    Executing
<1>5. E_SIGCHLD \in next_events' <=> E_SIGCHLD \in next_events
  BY <1>2
<1>6. StateOfSigchld' /\ OnlyStraysLoseExit'
  BY <1>0, <1>5 DEF command, world, LoopInv, StateOfSigchld, OnlyStraysLoseExit, ExitNotLost
<1> QED BY <1>1, <1>3, <1>4, <1>6 DEF IInv, LoopInv

LEMMA EndpointReadyPreserves ==
  ASSUME IInv, NEW e \in E_STDIN_WRITE .. E_MASTER_WRITE, EndpointReady(e)
  PROVE  IInv'
<1>1. e \in Events \ {E_SIGCHLD}
  BY DEF Events, E_STDIN_WRITE, E_MASTER_WRITE, E_SIGCHLD, E_STOP
<1>2. /\ UNCHANGED <<command, world>> /\ add_event(e) /\ pc = "waiting"
      /\ UNCHANGED <<pc, fired, raised, watched, registered, strayed>>
  BY DEF EndpointReady
<1>3. fired' \in BOOLEAN /\ (fired' => timer # NoTimer)
  BY <1>2, InvFacts DEF TypeOK, StateOfLoop
<1> QED BY <1>1, <1>2, <1>3, AddEvent

LEMMA TimerExpiresPreserves ==
  ASSUME IInv, TimerExpires
  PROVE  IInv'
<1>1. E_TIMEOUT \in Events \ {E_SIGCHLD}
  BY DEF Events, E_STDIN_WRITE, E_TIMEOUT, E_SIGCHLD, E_STOP
<1>2. /\ UNCHANGED <<command, world>> /\ add_event(E_TIMEOUT) /\ pc = "waiting"
      /\ UNCHANGED <<pc, raised, watched, registered, strayed>>
      /\ fired' = TRUE /\ timer # NoTimer
  BY DEF TimerExpires
<1> QED BY <1>1, <1>2, AddEvent

LEMMA DispatchPreserves ==
  ASSUME IInv, DispatchSigchld
  PROVE  IInv'
<1>0. TypeOK /\ LoopInv
  BY DEF IInv
<1>1. /\ UNCHANGED <<command, world>> /\ raised /\ raised' = FALSE
      /\ registered' = FALSE /\ UNCHANGED <<pc, fired, watched, strayed>> /\ pc = "waiting"
  BY DEF DispatchSigchld
<1>2. BaseInv'
  BY <1>1, IgnorePreserves DEF IInv
<1>3. /\ registered => next_events' = next_events \cup {E_SIGCHLD} /\ woken' = TRUE
      /\ ~registered => UNCHANGED <<next_events, woken>>
  BY DEF DispatchSigchld, add_event
<1>4. E_SIGCHLD \in Events
  BY DEF Events, E_STDIN_WRITE, E_SIGCHLD, E_STOP
<1>5. TypeOK'
  BY <1>0, <1>1, <1>2, <1>3, <1>4 DEF TypeOK, BaseInv
<1>6. StateOfLoop'
  BY <1>0, <1>1, <1>3 DEF command, world, LoopInv, StateOfLoop
<1>7. TimeoutNotLost'
  BY <1>0, <1>1, <1>3 DEF command, world, LoopInv, TimeoutNotLost, Executing
<1>8. StateOfSigchld' /\ OnlyStraysLoseExit'
  BY <1>0, <1>1, <1>3 DEF command, world, LoopInv, StateOfSigchld, OnlyStraysLoseExit,
     ExitNotLost
<1>9. OnlyStopSleeps'
  BY <1>0, <1>1, <1>3 DEF LoopInv, OnlyStopSleeps
<1> QED BY <1>2, <1>5, <1>6, <1>7, <1>8, <1>9 DEF IInv, LoopInv

LEMMA CancelPreserves ==
  ASSUME IInv, Cancel
  PROVE  IInv'
<1>0. TypeOK /\ LoopInv
  BY DEF IInv
<1>1. /\ UNCHANGED <<command, world>>
      /\ UNCHANGED <<fired, raised, watched, registered, strayed>>
  BY DEF Cancel
<1>2. BaseInv'
  BY <1>1, IgnorePreserves DEF IInv
<1>3. CASE pc = "new"
  <2>1. pc' = "raised" /\ UNCHANGED <<next_events, woken>>
    BY <1>3 DEF Cancel
  <2>2. TypeOK'
    BY <1>0, <1>1, <1>2, <2>1 DEF TypeOK, BaseInv
  <2>3. LoopInv'
    BY <1>0, <1>1, <2>1 DEF command, world, LoopInv, StateOfLoop, OnlyStopSleeps, StateOfSigchld,
       TimeoutNotLost, OnlyStraysLoseExit, ExitNotLost, Executing
  <2> QED BY <1>2, <2>2, <2>3 DEF IInv
<1>4. CASE pc # "new"
  <2>1. add_event(E_STOP) /\ pc' = pc
    BY <1>4 DEF Cancel
  <2>2. E_STOP \in Events \ {E_SIGCHLD}
    BY DEF Events, E_STDIN_WRITE, E_SIGCHLD, E_STOP
  <2>3. fired' \in BOOLEAN /\ (fired' => timer # NoTimer)
    BY <1>1, InvFacts DEF TypeOK, StateOfLoop
  <2> QED BY <1>1, <1>4, <2>1, <2>2, <2>3, AddEvent
<1> QED BY <1>3, <1>4

\* A SIGCHLD arrives: while none has come before the exit, because our child exited.
LEMMA SignalPreserves ==
  ASSUME IInv, OtherSigchld \/ ChildStep \/ ChildExit \/ ExecFailure
  PROVE  IInv'
<1>0. TypeOK /\ BaseInv /\ LoopInv
  BY DEF IInv
<1>1. /\ UNCHANGED command
      /\ UNCHANGED <<pc, next_events, woken, fired, registered>>
      /\ watched' \in {watched, TRUE, FALSE}
      /\ raised' \in {raised, TRUE}
      /\ raised => raised'
      /\ strayed' = strayed \/ strayed' = (strayed \/ child # "zombie")
  <2>1. CASE OtherSigchld
    BY <2>1 DEF OtherSigchld
  <2>2. CASE ChildStep
    <3>1. UNCHANGED command
      BY <2>2 DEF ChildStep, ChildExecs, ChildWrites, ChildCloses
    <3>2. UNCHANGED <<pc, next_events, woken, fired, raised, watched, registered, strayed>>
      BY <2>2 DEF ChildStep, loop
    <3> QED BY <3>1, <3>2
  <2>3. CASE ChildExit
    BY <2>3 DEF ChildExit, ChildExits
  <2>4. CASE ExecFailure
    BY <2>4 DEF ExecFailure, ExecFails
  <2> QED BY <2>1, <2>2, <2>3, <2>4
<1>2. /\ child = "zombie" => child' = "zombie"
      /\ child' = "zombie" => child = "zombie" \/ raised'
  <2>1. CASE OtherSigchld
    BY <2>1 DEF OtherSigchld, world
  <2>2. CASE ChildStep
    BY <2>2 DEF ChildStep, ChildExecs, ChildWrites, ChildCloses
  <2>3. CASE ChildExit
    BY <2>3 DEF ChildExit, ChildExits
  <2>4. CASE ExecFailure
    BY <2>4 DEF ExecFailure, ExecFails
  <2> QED BY <2>1, <2>2, <2>3, <2>4
<1>3. BaseInv'
  <2>1. CASE OtherSigchld
    BY <2>1, IgnorePreserves DEF OtherSigchld, IInv
  <2>2. CASE ChildStep \/ ChildExit \/ ExecFailure
    BY <1>0, <2>2, WorldPreserves DEF ChildStep, ChildExit, ExecFailure
  <2> QED BY <2>1, <2>2
<1>4. TypeOK'
  <2>1. BaseTypeOK'
    BY <1>3 DEF BaseInv
  <2>2. raised' \in BOOLEAN /\ watched' \in BOOLEAN /\ strayed' \in BOOLEAN
    BY <1>0, <1>1 DEF TypeOK
  <2> QED BY <1>0, <1>1, <2>1, <2>2 DEF TypeOK
<1>5. StateOfLoop' /\ TimeoutNotLost'
  <2>1. pc = "new" => ~raised'
    <3>1. pc = "new" => ~ends.sigchld /\ child \notin {"forked", "running", "zombie"}
      BY <1>0 DEF LoopInv, StateOfLoop, BaseInv, ChildInv, StateOfChild, PidIsOurs
    <3>2. ends.sigchld \/ child \in {"forked", "running"} \/ raised' = raised
      BY DEF OtherSigchld, ChildStep, ChildExit, ExecFailure, ChildExits, ExecFails, loop
    <3> QED BY <1>0, <3>1, <3>2 DEF LoopInv, StateOfLoop
  <2> QED BY <1>0, <1>1, <2>1 DEF command, LoopInv, StateOfLoop, OnlyStopSleeps,
                                  TimeoutNotLost, Executing
<1>6. ASSUME ~strayed', ends.sigchld, raised' \/ E_SIGCHLD \in next_events'
      PROVE  child' = "zombie" /\ ~strayed
  <2>1. ~strayed
    BY <1>1, <1>6
  <2>2. CASE raised \/ E_SIGCHLD \in next_events
    BY <1>0, <1>2, <1>6, <2>1, <2>2 DEF LoopInv, StateOfSigchld
  <2>3. CASE ~raised /\ E_SIGCHLD \notin next_events
    <3>1. raised' /\ ~raised
      BY <1>1, <1>6, <2>3
    <3>2. child' = "zombie"
      BY <1>2, <1>6, <3>1 DEF OtherSigchld, ChildStep, ChildExit, ExecFailure, ChildExits,
                              ExecFails, loop
    <3> QED BY <2>1, <3>2
  <2> QED BY <2>2, <2>3
<1>7. StateOfSigchld' /\ OnlyStraysLoseExit'
  <2>1. UNCHANGED <<ends, registered, next_events>> /\ StateOfSigchld
    BY <1>0, <1>1 DEF command, LoopInv
  <2>2. registered => ends.sigchld /\ (child' = "zombie" => raised')
    BY <1>1, <1>2, <2>1 DEF StateOfSigchld
  <2>3. ~strayed' => ~strayed
    BY <1>1
  <2>4. StateOfSigchld'
    BY <1>6, <2>1, <2>2, <2>3 DEF StateOfSigchld
  <2> QED BY <2>4 DEF StateOfSigchld, OnlyStraysLoseExit, ExitNotLost
<1>8. OnlyStopSleeps'
  BY <1>0, <1>1 DEF LoopInv, OnlyStopSleeps
<1> QED BY <1>3, <1>4, <1>5, <1>7, <1>8 DEF IInv, LoopInv

-----------------------------------------------------------------------------
(* The theorems *)

\* Every step of the asyncio loop and of the world around it preserves the invariant.
THEOREM NextInv == IInv /\ [Next]_vars => IInv'
<1> SUFFICES ASSUME IInv, [Next]_vars PROVE IInv'
  OBVIOUS
<1>1. CASE UNCHANGED vars
  <2>1. /\ UNCHANGED <<command, world>>
        /\ UNCHANGED <<pc, next_events, woken, fired, raised, watched, registered, strayed>>
    BY <1>1 DEF vars, loop
  <2>2. BaseInv' /\ TypeOK /\ LoopInv
    BY <2>1, IgnorePreserves DEF IInv
  <2>3. TypeOK'
    BY <2>1, <2>2 DEF TypeOK, BaseInv
  <2>4. LoopInv'
    BY <2>1, <2>2 DEF command, world, LoopInv, StateOfLoop, OnlyStopSleeps, StateOfSigchld,
       TimeoutNotLost, OnlyStraysLoseExit, ExitNotLost, Executing
  <2> QED BY <2>2, <2>3, <2>4 DEF IInv
<1>2. CASE ForkAndExec BY <1>2, ForkAndExecPreserves
<1>13. CASE ForkRaises BY <1>13, ForkRaisesPreserved
<1>3. CASE StartFsm BY <1>3, StartFsmPreserves
<1>4. CASE Wake \/ NewFuture \/ CancelTask BY <1>4, TaskPreserves
<1>5. CASE \E e \in Events : RunEvent(e) BY <1>5, RunEventPreserves
<1>6. CASE Exit BY <1>6, ExitPreserves
<1>7. CASE \E e \in E_STDIN_WRITE .. E_MASTER_WRITE : EndpointReady(e)
  BY <1>7, EndpointReadyPreserves
<1>8. CASE TimerExpires BY <1>8, TimerExpiresPreserves
<1>9. CASE DispatchSigchld BY <1>9, DispatchPreserves
<1>10. CASE Cancel BY <1>10, CancelPreserves
<1>11. CASE OtherSigchld \/ ChildStep \/ ChildExit \/ ExecFailure
  BY <1>11, SignalPreserves
<1>12. CASE Finished BY <1>1, <1>12 DEF Finished
<1> QED BY <1>1, <1>2, <1>3, <1>4, <1>5, <1>6, <1>7, <1>8, <1>9, <1>10, <1>11, <1>12,
           <1>13 DEF Next

\* The inductive invariant holds in every state of every execution.
THEOREM Invariance == Spec => []IInv
<1>1. Init => IInv
  BY InitInv
<1>2. IInv /\ [Next]_vars => IInv'
  BY NextInv
<1> QED BY <1>1, <1>2, PTL DEF Spec

\* Every variable of the command, the loop and the world keeps its type.
THEOREM TypeCorrect == Spec => []TypeOK
<1>1. IInv => TypeOK
  BY DEF IInv
<1> QED BY <1>1, Invariance, PTL

\* Whatever order next_events is popped in, a command is done only with a
\* verdict (reap_child, kill_failed).
THEOREM VerdictCorrect == Spec => []DoneHasVerdict
<1>1. IInv => DoneHasVerdict
  BY DEF IInv, BaseInv, ChildInv
<1> QED BY <1>1, Invariance, PTL

\* No expiry of a configured timer is lost (start_timer, add_event, execute).
THEOREM TimeoutsCorrect == Spec => []TimeoutNotLost
<1>1. IInv => TimeoutNotLost
  BY DEF IInv, LoopInv
<1> QED BY <1>1, Invariance, PTL

\* Whatever the child does, an await ends by itself: its future is done or its timer
\* is still to fire, unless none is configured or the state is EXITED.
THEOREM AwaitBounded == Spec => []AwaitIsBounded
<1>1. ASSUME IInv, pc = "waiting", ~woken PROVE AwaitIsBounded
  <2>1. /\ q_now \in 1 .. 7 /\ Executing /\ next_events \subseteq {E_STOP}
        /\ TimeoutNotLost /\ (fired => timer # NoTimer)
    BY <1>1, InvFacts DEF StateOfLoop, Executing, OnlyStopSleeps, Q_START, Q_DONE
  <2>2. q_now \in TimedStates \/ q_now = Q_EXITED
    BY <2>1, StateFacts DEF Q_EXITED
  <2>3. E_TIMEOUT \notin next_events
    BY <2>1 DEF E_TIMEOUT, E_STOP
  <2> QED BY <2>1, <2>2, <2>3 DEF AwaitIsBounded, TimeoutNotLost, NoTimer
<1>2. IInv => AwaitIsBounded
  BY <1>1 DEF AwaitIsBounded
<1> QED BY <1>2, Invariance, PTL

\* The exit of the child is lost only where another SIGCHLD came before it, of another
\* child or of ours when it stopped or continued, and took add_event out of the
\* dispatcher (add_event, SignalHandler.handler).
THEOREM ExitCorrect == Spec => []OnlyStraysLoseExit
<1>1. IInv => OnlyStraysLoseExit
  BY DEF IInv, LoopInv
<1> QED BY <1>1, Invariance, PTL

\* No event but a cancel waits in the queue of a task nothing is going to wake
\* (execute, add_event).
THEOREM QueueCorrect == Spec => []OnlyStopSleeps
<1>1. IInv => OnlyStopSleeps
  BY DEF IInv, LoopInv
<1> QED BY <1>1, Invariance, PTL

\* The pid is that of a child not yet reaped (fork_and_exec, reap_child).
THEOREM PidCorrect == Spec => []PidIsOurs
<1>1. IInv => PidIsOurs
  BY DEF IInv, BaseInv, ChildInv
<1> QED BY <1>1, Invariance, PTL

\* Write events follow the output that is left (IOEndpoint.write), also where the
\* callback of an endpoint runs after the task has taken what there was.
THEOREM WriteEventsCorrect == Spec => []WriteEventsMatchOutput
<1>1. IInv => WriteEventsMatchOutput
  BY DEF IInv, BaseInv, ChannelInv
<1> QED BY <1>1, Invariance, PTL

\* The password goes only where its prompt came from, whatever order next_events is
\* popped in (ssh_password, sudo_password).
THEOREM ChallengesCorrect == Spec => []ChallengesMet
<1>1. IInv => ChallengesMet
  BY DEF IInv, BaseInv, ChannelInv
<1> QED BY <1>1, Invariance, PTL

\* EXITED is never entered with nothing left to wait for (reap_child).
THEOREM ExitedCorrect == Spec => []ExitedIsReading
<1>1. IInv => ExitedIsReading
  BY DEF IInv, BaseInv, ChildInv
<1> QED BY <1>1, Invariance, PTL

\* A prompt read from the master is answered although its text may arrive in
\* pieces that do not decode (ssh_password, sudo_password).
THEOREM PromptsCorrect == Spec => []MasterPromptAnswered
<1>1. IInv => MasterPromptAnswered
  BY DEF IInv, BaseInv, ChannelInv
<1> QED BY <1>1, Invariance, PTL

\* What one step does to the machine, the signals and the verdict.
LEMMA StepFacts ==
  ASSUME IInv, [Next]_vars
  PROVE  \/ UNCHANGED <<q_now, signals, status, reason>>
         \/ Advances
         \/ /\ UNCHANGED <<status, reason>> /\ q_now = Q_START /\ q_now' \in {1, 2, 4}
            /\ UNCHANGED signals
<1>1. CASE \E e \in Events : RunEvent(e)
  BY <1>1, InvFacts, HandleOutcome DEF RunEvent, Waits, StateOfLoop
<1>2. CASE StartFsm
  <2>1. q_now = Q_START
    BY <1>2, InvFacts DEF StartFsm, StateOfLoop
  <2> QED BY <1>2, <2>1, InvFacts, StartFacts DEF StartFsm
<1>3. CASE \/ ForkAndExec \/ ForkRaises \/ Wake \/ NewFuture \/ CancelTask \/ Exit
           \/ (\E e \in E_STDIN_WRITE .. E_MASTER_WRITE : EndpointReady(e))
           \/ TimerExpires \/ DispatchSigchld \/ Cancel \/ OtherSigchld \/ ChildStep
           \/ ChildExit \/ ExecFailure \/ Finished \/ UNCHANGED vars
  BY <1>3 DEF ForkAndExec, fork_and_exec, ForkRaises, fork_raises, Forked, Wake, NewFuture,
     CancelTask, Exit, close, EndpointReady, TimerExpires, DispatchSigchld, Cancel,
     OtherSigchld, ChildStep, ChildExit, ExecFailure, ChildExecs, ChildWrites, ChildCloses,
     ChildExits, ExecFails, Finished, vars, command
<1> QED BY <1>1, <1>2, <1>3 DEF Next

\* The invariants on both sides of a step, as the action theorems use them.
LEMMA BothSides ==
  ASSUME IInv, [Next]_vars
  PROVE  /\ q_now \in 0 .. 8 /\ q_now' \in 0 .. 8
         /\ StateOfChild /\ StateOfChild' /\ PidIsOurs'
<1>1. IInv'
  BY NextInv
<1>2. q_now' \in States
  BY <1>1 DEF IInv, BaseInv, BaseTypeOK
<1> QED BY <1>1, <1>2, InvFacts, StateFacts DEF IInv, BaseInv, ChildInv

\* The machine never goes back, and SIGKILL never comes before SIGTERM.
THEOREM EscalationCorrect == Spec => Escalation
<1>1. ASSUME IInv, [Next]_vars
      PROVE  /\ q_now' >= q_now
             /\ "SIGKILL" \in signals' => q_now' # Q_TERM /\ "SIGTERM" \in signals
  <2>1. q_now' >= q_now
    BY <1>1, BothSides, StepFacts DEF Advances, Q_START
  <2>2. ASSUME "SIGKILL" \in signals', "SIGKILL" \notin signals
        PROVE  "SIGTERM" \in signals
    <3>1. signals' = signals \cup Sent(q_now')
      BY <1>1, <2>2, StepFacts DEF Advances
    <3>2. Sent(q_now') = {"SIGKILL"} /\ q_now' = Q_KILL
      BY <2>2, <3>1 DEF Sent
    <3>3. "SIGTERM" \in signals'
      BY <1>1, <3>2, BothSides DEF StateOfChild
    <3> QED BY <3>1, <3>2, <3>3
  <2>3. "SIGKILL" \in signals' => q_now' # Q_TERM /\ "SIGTERM" \in signals
    BY <1>1, <2>2, BothSides DEF StateOfChild
  <2> QED BY <2>1, <2>3
<1>2. IInv /\ [Next]_vars =>
        [/\ q_now' >= q_now
         /\ "SIGKILL" \in signals' => q_now' # Q_TERM /\ "SIGTERM" \in signals]_<<command, world>>
  BY <1>1
<1> QED BY <1>2, Invariance, PTL DEF Spec, Escalation

\* A status or a reason, once given, is the one the caller sees.
THEOREM VerdictFinal == Spec => VerdictIsFinal
<1>1. IInv /\ [Next]_vars =>
        [/\ status # "none" => status' = status
         /\ reason # "none" => reason' = reason]_<<command, world>>
  BY StepFacts DEF Advances
<1> QED BY <1>1, Invariance, PTL DEF Spec, VerdictIsFinal

\* No signal is sent to a pid that may be another process's by now (term_child,
\* kill_child), whatever order the events are popped in.
THEOREM SignalsCorrect == Spec => SignalsOnlyOurChild
<1>1. ASSUME IInv, [Next]_vars, signals' # signals
      PROVE  child \in {"forked", "running", "zombie"}
  <2>1. /\ signals' = signals \cup Sent(q_now')
        /\ child' = child \/ child' = "reaped"
    BY <1>1, StepFacts DEF Advances
  <2>2. signals \cup {} = signals
    BY <1>1, InvFacts DEF BaseTypeOK
  <2>3. q_now' \in {Q_TERM, Q_KILL}
    BY <1>1, <2>1, <2>2 DEF Sent
  <2>4. child' \in {"forked", "running", "zombie"}
    BY <1>1, <2>3, BothSides DEF StateOfChild, PidIsOurs, TimedStates
  <2> QED BY <2>1, <2>4
<1>2. IInv /\ [Next]_vars =>
        [signals' # signals => child \in {"forked", "running", "zombie"}]_<<command, world>>
  BY <1>1
<1> QED BY <1>2, Invariance, PTL DEF Spec, SignalsOnlyOurChild
=============================================================================
