------------------------- MODULE EventSourcesProofs -------------------------
(***************************************************************************)
(* Signals and timers write to no descriptor that was closed, and only the *)
(* main thread can be stuck on the lock, whatever the threads, the         *)
(* descriptors and the signals are.                                        *)
(***************************************************************************)
EXTENDS EventSources, TLAPS

LEMMA EventInit == Init => EventInv
  BY BoundsAssumption, OwnersAssumption DEF Init, EventInv, LockInv, CallbacksInv, TimersInv, Own

-----------------------------------------------------------------------------
(* Sources are opened and closed *)

LEMMA OpenKeeps ==
  ASSUME EventInv, NEW t \in Owners, NEW kind \in Kinds, Open(t, kind)
  PROVE  EventInv'
<1>1. PICK n \in Fds :
        /\ table[n] = 0
        /\ sources' = [s \in 1 .. opened + 1 |->
                         IF s \in 1 .. opened THEN sources[s]
                         ELSE [kind |-> kind, owner |-> t, fd |-> n]]
        /\ table' = [table EXCEPT ![n] = opened + 1]
  BY DEF Open, Lowest
<1>2. /\ pc[t] = "running" /\ Mine(t, kind) = {}
      /\ opened' = opened + 1
      /\ pc' = [pc EXCEPT ![t] = IF kind = "signal" THEN "opened" ELSE "running"]
      /\ UNCHANGED <<callbacks, lock, depth, holder, todo, timers, started, current>>
  BY DEF Open, At, dispatch, clocks
<1>3. \A s \in 1 .. opened : /\ sources'[s] = sources[s]
                             /\ Own(s) => Own(s)'
  <2> TAKE s \in 1 .. opened
  <2>1. opened \in Nat /\ s \in 1 .. opened + 1 /\ s # 0
    BY DEF EventInv
  <2>2. sources'[s] = sources[s] /\ sources[s].fd \in Fds
    BY <1>1, <2>1 DEF EventInv
  <2> QED BY <1>1, <2>1, <2>2 DEF EventInv, Own
<1>4. LockInv'
  BY <1>2 DEF EventInv, LockInv
<1>5. CallbacksInv'
  <2> SUFFICES ASSUME NEW s \in callbacks
               PROVE  /\ s \in 1 .. opened' /\ sources'[s].kind = "signal" /\ Own(s)'
                      /\ pc'[sources'[s].owner] \notin {"opened", "popped", "closing"}
    BY <1>2 DEF CallbacksInv
  <2>1. /\ s \in 1 .. opened /\ sources[s].kind = "signal" /\ Own(s)
        /\ pc[sources[s].owner] \notin {"opened", "popped", "closing"}
        /\ sources[s].owner \in Owners
    BY DEF EventInv, CallbacksInv
  <2>2. kind = "signal" => sources[s].owner # t
    BY <1>2, <2>1 DEF Mine
  <2> QED BY <1>2, <1>3, <2>1, <2>2 DEF EventInv
<1>6. TimersInv'
  <2>1. /\ opened' \in Nat /\ \A m \in 1 .. opened : m \in 1 .. opened'
    BY <1>2 DEF EventInv
  <2>2. UNCHANGED <<timers, started, current>>
    BY <1>2
  <2>3. TimersInv
    BY DEF EventInv
  <2> QED BY <1>3, <2>1, <2>2, <2>3 DEF TimersInv
<1>7. /\ opened' \in Nat
      /\ sources' \in [1 .. opened' -> [kind : Kinds, owner : Owners, fd : Fds]]
      /\ table' \in [Fds -> 0 .. opened']
      /\ timers' \in [1 .. started' -> [id : 1 .. opened', cancelled : BOOLEAN,
                                        state : {"waiting", "passed", "ended"}]]
  <2>1. opened \in Nat /\ opened + 1 \in Nat /\ \A m \in 1 .. opened : m \in 1 .. opened + 1
    BY DEF EventInv
  <2>2. sources' \in [1 .. opened' -> [kind : Kinds, owner : Owners, fd : Fds]]
    BY <1>1, <1>2, <2>1 DEF EventInv
  <2>3. table' \in [Fds -> 0 .. opened']
    BY <1>1, <1>2, <2>1 DEF EventInv
  <2>4. timers' \in [1 .. started' -> [id : 1 .. opened', cancelled : BOOLEAN,
                                       state : {"waiting", "passed", "ended"}]]
    BY <1>2, <2>1 DEF EventInv
  <2> QED BY <1>2, <2>1, <2>2, <2>3, <2>4
<1> QED BY <1>2, <1>4, <1>5, <1>6, <1>7 DEF EventInv

\* Closing one source leaves the others where they are.
LEMMA OthersStay ==
  ASSUME EventInv, NEW s \in 1 .. opened, Own(s), Released(s), UNCHANGED <<sources, opened>>
  PROVE  /\ \A r \in 1 .. opened : r # s /\ Own(r) => Own(r)'
         /\ table' \in [Fds -> 0 .. opened']
<1>1. table' = [table EXCEPT ![sources[s].fd] = 0] /\ table \in [Fds -> 0 .. opened]
  BY DEF Released, EventInv
<1>2. \A r \in 1 .. opened : sources[r].fd \in Fds
  BY DEF EventInv
<1>3. \A r \in 1 .. opened : r # s /\ Own(r) => sources[r].fd # sources[s].fd
  BY DEF Own
<1> QED BY <1>1, <1>2, <1>3 DEF Own, EventInv

LEMMA CloseSignalKeeps ==
  ASSUME EventInv, NEW t \in Owners, CloseSignal(t)
  PROVE  EventInv'
<1>1. PICK s \in Mine(t, "signal") : Released(s)
  BY DEF CloseSignal
<1>2. /\ pc[t] = "closing" /\ pc' = [pc EXCEPT ![t] = "running"]
      /\ UNCHANGED <<sources, opened, callbacks, lock, depth, holder, todo, timers, started,
                     current>>
  BY DEF CloseSignal, At, dispatch, clocks
<1>3. s \in 1 .. opened /\ Own(s) /\ sources[s].owner = t /\ sources[s].kind = "signal"
  BY DEF Mine
<1>4. /\ \A r \in 1 .. opened : r # s /\ Own(r) => Own(r)'
      /\ table' \in [Fds -> 0 .. opened']
  BY <1>1, <1>2, <1>3, OthersStay
<1>5. LockInv'
  BY <1>2 DEF EventInv, LockInv
<1>6. s \notin callbacks
  BY <1>2, <1>3 DEF EventInv, CallbacksInv
<1>7. CallbacksInv'
  BY <1>2, <1>4, <1>6 DEF EventInv, CallbacksInv
<1>8. TimersInv'
  BY <1>2, <1>3, <1>4 DEF EventInv, TimersInv
<1> QED BY <1>2, <1>4, <1>5, <1>7, <1>8 DEF EventInv

\* Cancelling a thread's timer changes no other timer, nor what any of them is for.
LEMMA CancelledFacts ==
  ASSUME EventInv, NEW t \in Owners, NEW k \in 1 .. started
  PROVE  /\ Cancelled(t)[k].id = timers[k].id
         /\ Cancelled(t)[k].state = timers[k].state
         /\ ~Cancelled(t)[k].cancelled => ~timers[k].cancelled /\ k # current[t]
         /\ Cancelled(t)[k] \in [id : 1 .. opened, cancelled : BOOLEAN,
                                 state : {"waiting", "passed", "ended"}]
<1>1. timers[k] \in [id : 1 .. opened, cancelled : BOOLEAN,
                     state : {"waiting", "passed", "ended"}]
  BY DEF EventInv
<1>2. CASE k = current[t]
  BY <1>1, <1>2 DEF Cancelled
<1>3. CASE k # current[t]
  BY <1>1, <1>3 DEF Cancelled
<1> QED BY <1>2, <1>3

LEMMA CloseTimerKeeps ==
  ASSUME EventInv, NEW t \in Owners, CloseTimer(t)
  PROVE  EventInv'
<1>1. PICK s \in Mine(t, "timer") : Released(s)
  BY DEF CloseTimer
<1>2. /\ timers' = Cancelled(t) /\ current' = [current EXCEPT ![t] = 0]
      /\ UNCHANGED <<pc, sources, opened, callbacks, lock, depth, holder, todo, started>>
  BY DEF CloseTimer, dispatch
<1>3. s \in 1 .. opened /\ Own(s) /\ sources[s].owner = t /\ sources[s].kind = "timer"
  BY DEF Mine
<1>4. /\ \A r \in 1 .. opened : r # s /\ Own(r) => Own(r)'
      /\ table' \in [Fds -> 0 .. opened']
  BY <1>1, <1>2, <1>3, OthersStay
<1>5. LockInv'
  BY <1>2 DEF EventInv, LockInv
<1>6. CallbacksInv'
  BY <1>2, <1>3, <1>4 DEF EventInv, CallbacksInv
<1>7. TimersInv'
  <2> SUFFICES ASSUME NEW k \in 1 .. started, timers'[k].state # "ended",
                      ~timers'[k].cancelled
               PROVE  /\ timers'[k].id \in 1 .. opened
                      /\ sources[timers'[k].id].kind = "timer"
                      /\ table'[sources[timers'[k].id].fd] = timers'[k].id
                      /\ current'[sources[timers'[k].id].owner] = k
    BY <1>2 DEF TimersInv, Own
  <2>1. /\ timers'[k].id = timers[k].id /\ timers[k].state # "ended"
        /\ ~timers[k].cancelled /\ k # current[t]
    BY <1>2, CancelledFacts
  <2>2. /\ timers[k].id \in 1 .. opened /\ sources[timers[k].id].kind = "timer"
        /\ Own(timers[k].id) /\ current[sources[timers[k].id].owner] = k
    BY <2>1 DEF EventInv, TimersInv
  <2>3. sources[timers[k].id].owner \in Owners \ {t}
    BY <2>1, <2>2 DEF EventInv
  <2>4. timers[k].id # s
    BY <1>3, <2>3
  <2>5. table'[sources[timers[k].id].fd] = timers[k].id
    BY <1>2, <1>4, <2>2, <2>4 DEF Own
  <2> QED BY <1>2, <2>1, <2>2, <2>3, <2>5 DEF EventInv
<1>8. /\ timers' \in [1 .. started' -> [id : 1 .. opened', cancelled : BOOLEAN,
                                        state : {"waiting", "passed", "ended"}]]
      /\ current' \in [Owners -> 0 .. started']
  <2>1. \A k \in 1 .. started : Cancelled(t)[k] \in [id : 1 .. opened, cancelled : BOOLEAN,
                                                     state : {"waiting", "passed", "ended"}]
    BY CancelledFacts
  <2>2. Cancelled(t) = [k \in 1 .. started |-> Cancelled(t)[k]]
    BY DEF Cancelled
  <2>3. 0 \in 0 .. started
    BY DEF EventInv
  <2> QED BY <1>2, <2>1, <2>2, <2>3 DEF EventInv
<1> QED BY <1>2, <1>4, <1>5, <1>6, <1>7, <1>8 DEF EventInv

LEMMA StartKeeps ==
  ASSUME EventInv, NEW t \in Owners, Start(t)
  PROVE  EventInv'
<1>1. PICK s \in Mine(t, "timer") :
        timers' = [k \in 1 .. started + 1 |->
                     IF k \in 1 .. started THEN Cancelled(t)[k]
                     ELSE [id |-> s, cancelled |-> FALSE, state |-> "waiting"]]
  BY DEF Start
<1>2. /\ started' = started + 1 /\ current' = [current EXCEPT ![t] = started + 1]
      /\ UNCHANGED <<pc, sources, opened, table, callbacks, lock, depth, holder, todo>>
  BY DEF Start, dispatch
<1>3. /\ s \in 1 .. opened /\ Own(s) /\ sources[s].owner = t /\ sources[s].kind = "timer"
      /\ started \in Nat
  BY DEF Mine, EventInv
<1>4. LockInv' /\ CallbacksInv'
  BY <1>2 DEF EventInv, LockInv, CallbacksInv, Own
<1>5. TimersInv'
  <2> SUFFICES ASSUME NEW k \in 1 .. started + 1, timers'[k].state # "ended",
                      ~timers'[k].cancelled
               PROVE  /\ timers'[k].id \in 1 .. opened
                      /\ sources[timers'[k].id].kind = "timer"
                      /\ Own(timers'[k].id)
                      /\ current'[sources[timers'[k].id].owner] = k
    BY <1>2 DEF TimersInv, Own
  <2>1. CASE k \in 1 .. started
    <3>1. timers'[k] = Cancelled(t)[k]
      BY <1>1, <2>1
    <3>2. /\ timers'[k].id = timers[k].id /\ timers[k].state # "ended"
          /\ ~timers[k].cancelled /\ k # current[t]
      BY <2>1, <3>1, CancelledFacts
    <3>3. /\ timers[k].id \in 1 .. opened /\ sources[timers[k].id].kind = "timer"
          /\ Own(timers[k].id) /\ current[sources[timers[k].id].owner] = k
      BY <2>1, <3>2 DEF EventInv, TimersInv
    <3>4. sources[timers[k].id].owner \in Owners \ {t}
      BY <3>2, <3>3 DEF EventInv
    <3> QED BY <1>2, <3>2, <3>3, <3>4 DEF EventInv
  <2>2. CASE k \notin 1 .. started
    <3>1. k = started + 1 /\ timers'[k].id = s
      BY <1>1, <1>3, <2>2
    <3> QED BY <1>2, <1>3, <3>1 DEF EventInv
  <2> QED BY <2>1, <2>2
<1>6. /\ timers' \in [1 .. started' -> [id : 1 .. opened', cancelled : BOOLEAN,
                                        state : {"waiting", "passed", "ended"}]]
      /\ current' \in [Owners -> 0 .. started'] /\ started' \in Nat
  <2>1. \A k \in 1 .. started : Cancelled(t)[k] \in [id : 1 .. opened, cancelled : BOOLEAN,
                                                     state : {"waiting", "passed", "ended"}]
    BY CancelledFacts
  <2>2. timers' \in [1 .. started' -> [id : 1 .. opened', cancelled : BOOLEAN,
                                       state : {"waiting", "passed", "ended"}]]
    BY <1>1, <1>2, <1>3, <2>1
  <2>3. current' \in [Owners -> 0 .. started'] /\ started' \in Nat
    BY <1>2, <1>3 DEF EventInv
  <2> QED BY <2>2, <2>3
<1> QED BY <1>2, <1>4, <1>5, <1>6 DEF EventInv

-----------------------------------------------------------------------------
(* The lock *)

LEMMA InsertKeeps ==
  ASSUME EventInv, NEW t \in Owners, Insert(t)
  PROVE  EventInv'
<1>1. /\ pc[t] = "opened" /\ lock = "free" /\ lock' = t
      /\ callbacks' = callbacks \cup Mine(t, "signal")
      /\ pc' = [pc EXCEPT ![t] = "inserted"]
      /\ UNCHANGED <<sources, opened, table, depth, holder, todo, timers, started, current>>
  BY DEF Insert, At, clocks
<1>2. \A u \in Owners : pc[u] \notin {"inserted", "popped"}
  BY <1>1, OwnersAssumption DEF EventInv, LockInv
<1>3. LockInv'
  BY <1>1, <1>2, OwnersAssumption DEF EventInv, LockInv
<1>4. CallbacksInv'
  BY <1>1 DEF EventInv, CallbacksInv, Mine, Own
<1>5. TimersInv'
  BY <1>1 DEF EventInv, TimersInv, Own
<1> QED BY <1>1, <1>3, <1>4, <1>5 DEF EventInv

LEMMA PopKeeps ==
  ASSUME EventInv, NEW t \in Owners, Pop(t)
  PROVE  EventInv'
<1>1. /\ pc[t] = "running" /\ lock = "free" /\ lock' = t
      /\ callbacks' = callbacks \ Mine(t, "signal")
      /\ pc' = [pc EXCEPT ![t] = "popped"]
      /\ UNCHANGED <<sources, opened, table, depth, holder, todo, timers, started, current>>
  BY DEF Pop, At, clocks
<1>2. \A u \in Owners : pc[u] \notin {"inserted", "popped"}
  BY <1>1, OwnersAssumption DEF EventInv, LockInv
<1>3. LockInv'
  BY <1>1, <1>2, OwnersAssumption DEF EventInv, LockInv
<1>4. CallbacksInv'
  BY <1>1 DEF EventInv, CallbacksInv, Mine, Own
<1>5. TimersInv'
  BY <1>1 DEF EventInv, TimersInv, Own
<1> QED BY <1>1, <1>3, <1>4, <1>5 DEF EventInv

LEMMA ReleaseKeeps ==
  ASSUME EventInv, NEW t \in Owners, Release(t)
  PROVE  EventInv'
<1>1. /\ pc[t] \in {"inserted", "popped"} /\ lock' = "free"
      /\ pc' = [pc EXCEPT ![t] = IF @ = "popped" THEN "closing" ELSE "running"]
      /\ UNCHANGED <<sources, opened, table, callbacks, depth, holder, todo, timers, started,
                     current>>
  BY DEF Release, At, clocks
<1>2. lock = t /\ \A u \in Owners \ {t} : pc[u] \notin {"inserted", "popped"}
  BY <1>1 DEF EventInv, LockInv
<1>3. LockInv'
  BY <1>1, <1>2, OwnersAssumption DEF EventInv, LockInv
<1>4. CallbacksInv'
  BY <1>1 DEF EventInv, CallbacksInv, Own
<1>5. TimersInv'
  BY <1>1 DEF EventInv, TimersInv, Own
<1> QED BY <1>1, <1>3, <1>4, <1>5 DEF EventInv

\* What the handler does to the lock, and to nothing else of the invariant.
LEMMA HandlerKeeps ==
  ASSUME EventInv, HandlerLock \/ HandlerReturn \/ \E s \in todo : Call(s)
  PROVE  EventInv'
<1>1. /\ UNCHANGED <<pc, sources, opened, table, callbacks, timers, started, current>>
      /\ depth' \in Nat /\ holder' \in Nat
  BY DEF HandlerLock, HandlerReturn, Call, clocks, EventInv
<1>2. LockInv'
  <2>1. CASE HandlerLock
    <3>1. /\ lock = "free" /\ lock' = "handler" /\ todo' = callbacks /\ holder' # 0
      BY <2>1 DEF HandlerLock, EventInv
    <3>2. \A t \in Owners : pc[t] \notin {"inserted", "popped"}
      BY <3>1, OwnersAssumption DEF EventInv, LockInv
    <3> QED BY <1>1, <3>1, <3>2, OwnersAssumption DEF LockInv
  <2>2. CASE HandlerReturn
    <3>1. holder # 0 /\ todo = {} /\ lock' = "free" /\ holder' = 0 /\ todo' = todo
      BY <2>2 DEF HandlerReturn
    <3>2. \A t \in Owners : pc[t] \notin {"inserted", "popped"}
      BY <3>1, OwnersAssumption DEF EventInv, LockInv
    <3> QED BY <1>1, <3>1, <3>2, OwnersAssumption DEF LockInv
  <2>3. CASE \E s \in todo : Call(s)
    <3>1. lock' = lock /\ holder' = holder /\ todo' \subseteq todo
      BY <2>3 DEF Call
    <3> QED BY <1>1, <3>1 DEF EventInv, LockInv
  <2> QED BY <2>1, <2>2, <2>3
<1> QED BY <1>1, <1>2 DEF EventInv, CallbacksInv, TimersInv, Own

-----------------------------------------------------------------------------
(* The timers' threads *)

LEMMA TimerKeeps ==
  ASSUME EventInv, NEW k \in 1 .. started, Pass(k) \/ Trigger(k)
  PROVE  EventInv'
<1>1. UNCHANGED <<pc, sources, opened, table, callbacks, lock, depth, holder, todo, started,
                  current>>
  BY DEF Pass, Trigger, dispatch
<1>2. PICK state \in {"passed", "ended"} :
        timers' = [timers EXCEPT ![k].state = state] /\ timers[k].state # "ended"
  BY DEF Pass, Trigger
<1>3. timers' \in [1 .. started -> [id : 1 .. opened, cancelled : BOOLEAN,
                                    state : {"waiting", "passed", "ended"}]]
  BY <1>2 DEF EventInv
<1>4. \A l \in 1 .. started : /\ timers'[l].id = timers[l].id
                              /\ timers'[l].cancelled = timers[l].cancelled
                              /\ timers'[l].state # "ended" => timers[l].state # "ended"
  BY <1>2 DEF EventInv
<1>5. TimersInv'
  <2>1. TimersInv
    BY DEF EventInv
  <2> QED BY <1>1, <1>4, <2>1 DEF TimersInv, Own
<1> QED BY <1>1, <1>3, <1>5 DEF EventInv, LockInv, CallbacksInv, Own

LEMMA EventStep == EventInv /\ [Next]_vars => EventInv'
<1> SUFFICES ASSUME EventInv, [Next]_vars
             PROVE  EventInv'
  OBVIOUS
<1> DEFINE Same == UNCHANGED <<pc, sources, opened, table, callbacks, lock, holder, todo,
                               timers, started, current>> /\ depth' \in Nat
<1>1. CASE Same
  BY <1>1 DEF EventInv, LockInv, CallbacksInv, TimersInv, Own
<1>2. ASSUME NEW t \in Owners, Step(t)
      PROVE  EventInv'
  <2>1. CASE \E kind \in Kinds : Open(t, kind)
    BY <2>1, OpenKeeps
  <2>2. CASE Insert(t) \/ Pop(t) \/ Release(t)
    BY <2>2, InsertKeeps, PopKeeps, ReleaseKeeps
  <2>3. CASE CloseSignal(t) \/ Start(t) \/ CloseTimer(t)
    BY <2>3, CloseSignalKeeps, StartKeeps, CloseTimerKeeps
  <2>4. CASE \E s \in ready : Acknowledge(t, s)
    BY <1>1, <2>4 DEF Acknowledge, dispatch, clocks, EventInv
  <2> QED BY <1>2, <2>1, <2>2, <2>3, <2>4 DEF Step
<1>3. CASE \E k \in 1 .. started : Pass(k) \/ Trigger(k)
  BY <1>3, TimerKeeps
<1>4. CASE Raise \/ Interrupt
  BY <1>1, <1>4 DEF Raise, Interrupt, clocks, EventInv
<1>5. CASE HandlerLock \/ HandlerReturn \/ \E s \in todo : Call(s)
  BY <1>5, HandlerKeeps
<1>6. CASE UNCHANGED vars
  BY <1>1, <1>6 DEF vars, dispatch, clocks, EventInv
<1> QED BY <1>2, <1>3, <1>4, <1>5, <1>6 DEF Next

\* The signal handler writes to open signal events only, although it runs between
\* any two steps of the main thread and beside those of the others.
THEOREM RegisteredCorrect == Spec => []RegisteredIsOpen
<1>1. EventInv => RegisteredIsOpen
  BY DEF EventInv, LockInv, CallbacksInv, RegisteredIsOpen
<1> QED BY <1>1, EventInit, EventStep, PTL DEF Spec

\* A timer's thread writes to another source only if the cancel came after it had
\* found "finished" unset.
THEOREM TimersCorrect == Spec => []OnlyLateTriggersStray
<1>1. EventInv => OnlyLateTriggersStray
  BY DEF EventInv, TimersInv, OnlyLateTriggersStray
<1> QED BY <1>1, EventInit, EventStep, PTL DEF Spec

-----------------------------------------------------------------------------
(* The types *)

\* The parts of TypeOK that EventInv does not have.
Counts ==
  /\ opened \in 0 .. Opens /\ started \in 0 .. Starts
  /\ ready \subseteq 1 .. opened
  /\ callbacks \subseteq 1 .. opened /\ todo \subseteq 1 .. opened
  /\ lock \in Owners \cup {"free", "handler"}
  /\ arrived \in 0 .. Signals /\ depth \in 0 .. arrived /\ holder \in 0 .. depth
  /\ pending \in BOOLEAN /\ (pending => depth < arrived)

LEMMA CountsFacts ==
  /\ EventInv => (TypeInv <=> Counts)
  /\ EventInv' => (TypeInv' <=> Counts')
<1>1. EventInv => (TypeInv <=> Counts)
  BY DEF EventInv, TypeInv, TypeOK, Counts
<1>2. EventInv' => (TypeInv' <=> Counts')
  BY DEF EventInv, TypeInv, TypeOK, Counts
<1> QED BY <1>1, <1>2

LEMMA TypeInit == Init => TypeInv
<1> SUFFICES ASSUME Init PROVE Counts
  BY EventInit, CountsFacts
<1>1. pending \in BOOLEAN /\ ~pending
  BY DEF Init
<1>2. /\ ready = {} /\ callbacks = {} /\ todo = {} /\ opened = 0 /\ started = 0
      /\ arrived = 0 /\ depth = 0 /\ holder = 0 /\ lock = "free"
  BY DEF Init
<1> QED BY <1>1, <1>2, BoundsAssumption DEF Counts

\* The threads open and start one at a time, and leave the handler alone.
LEMMA ThreadCounts ==
  ASSUME EventInv, Counts, NEW t \in Owners, Step(t)
  PROVE  Counts'
<1>1. /\ UNCHANGED <<arrived, pending, depth, holder, todo>>
      /\ lock' \in {lock, t, "free"}
  BY DEF Step, Open, Insert, Pop, Release, CloseSignal, Acknowledge, Start, CloseTimer, dispatch
<1>2. /\ opened' \in 0 .. Opens /\ opened <= opened'
      /\ started' \in 0 .. Starts
  <2>1. /\ opened' = opened \/ (opened < Opens /\ opened' = opened + 1)
        /\ started' = started \/ (started < Starts /\ started' = started + 1)
    BY DEF Step, Open, Insert, Pop, Release, CloseSignal, Acknowledge, Start, CloseTimer, clocks
  <2> QED BY <2>1, BoundsAssumption DEF Counts
<1>3. callbacks' \subseteq callbacks \cup 1 .. opened /\ ready' \subseteq ready
  BY DEF Step, Open, Insert, Pop, Release, CloseSignal, Acknowledge, Start, CloseTimer, dispatch,
         Released, Mine
<1>4. \A n \in 1 .. opened : n \in 1 .. opened'
  BY <1>2 DEF Counts
<1> QED BY <1>1, <1>2, <1>3, <1>4 DEF Counts

\* A trigger makes nothing readable but what the number it writes to stands for.
LEMMA WrittenFacts ==
  ASSUME EventInv, ready \subseteq 1 .. opened, NEW s \in 1 .. opened, Written(sources[s].fd)
  PROVE  ready' \subseteq 1 .. opened
<1> DEFINE n == sources[s].fd
<1>1. n \in Fds
  BY DEF EventInv
<1>2. table[n] \in 0 .. opened /\ opened \in Nat
  BY <1>1 DEF EventInv
<1>3. ready' = IF table[n] = 0 THEN ready ELSE ready \cup {table[n]}
  BY DEF Written
<1> HIDE DEF n
<1>4. CASE table[n] = 0
  BY <1>3, <1>4
<1>5. CASE table[n] # 0
  <2>1. table[n] \in 1 .. opened /\ ready' = ready \cup {table[n]}
    BY <1>2, <1>3, <1>5
  <2> QED BY <2>1
<1> QED BY <1>4, <1>5

LEMMA TypeStep ==
  ASSUME EventInv, TypeInv, [Next]_vars, EventInv'
  PROVE  TypeInv'
<1> SUFFICES Counts'
  BY CountsFacts
<1>0. Counts /\ opened \in Nat
  BY CountsFacts DEF EventInv
<1>1. CASE UNCHANGED vars
  BY <1>0, <1>1 DEF vars, dispatch, clocks, Counts
<1>2. CASE \E t \in Owners : Step(t)
  BY <1>0, <1>2, ThreadCounts
<1>3. ASSUME NEW k \in 1 .. started, Pass(k) \/ Trigger(k)
      PROVE  Counts'
  <2>1. UNCHANGED <<opened, callbacks, lock, arrived, pending, depth, holder, todo, started>>
    BY <1>3 DEF Pass, Trigger, dispatch
  <2>2. timers[k].id \in 1 .. opened
    BY DEF EventInv
  <2>3. ready' \subseteq 1 .. opened
    BY <1>0, <1>3, <2>2, WrittenFacts DEF Pass, Trigger, Counts
  <2> QED BY <1>0, <2>1, <2>3 DEF Counts
<1>4. CASE Raise \/ Interrupt \/ HandlerLock \/ HandlerReturn
  <2>1. /\ UNCHANGED <<opened, started, ready, callbacks>>
        /\ lock' \in {lock, "handler", "free"} /\ todo' \in {todo, callbacks}
    BY <1>4 DEF Raise, Interrupt, HandlerLock, HandlerReturn, clocks
  <2>2. /\ arrived' \in 0 .. Signals /\ depth' \in 0 .. arrived' /\ holder' \in 0 .. depth'
        /\ pending' \in BOOLEAN /\ (pending' => depth' < arrived')
    <3>1. CASE Raise
      BY <1>0, <3>1, BoundsAssumption DEF Raise, Counts
    <3>2. CASE Interrupt
      <4>1. /\ pending /\ ~pending' /\ pending' \in BOOLEAN /\ depth' = depth + 1
            /\ UNCHANGED <<arrived, holder>>
        BY <3>2 DEF Interrupt
      <4> QED BY <1>0, <4>1, BoundsAssumption DEF Counts
    <3>3. CASE HandlerLock
      BY <1>0, <3>3, BoundsAssumption DEF HandlerLock, Counts
    <3>4. CASE HandlerReturn
      BY <1>0, <3>4, BoundsAssumption DEF HandlerReturn, Counts
    <3> QED BY <1>4, <3>1, <3>2, <3>3, <3>4
  <2> QED BY <1>0, <2>1, <2>2 DEF Counts
<1>5. ASSUME NEW s \in todo, Call(s)
      PROVE  Counts'
  <2>1. /\ UNCHANGED <<opened, callbacks, lock, arrived, pending, depth, holder, started>>
        /\ todo' \subseteq todo
    BY <1>5 DEF Call, clocks
  <2>2. ready' \subseteq 1 .. opened
    BY <1>0, <1>5, WrittenFacts DEF Call, Counts
  <2> QED BY <1>0, <2>1, <2>2 DEF Counts
<1> QED BY <1>1, <1>2, <1>3, <1>4, <1>5 DEF Next

\* The two invariants in every state of every execution.
THEOREM Invariance == Spec => [](EventInv /\ TypeInv)
  BY EventInit, EventStep, TypeInit, TypeStep, PTL DEF Spec

\* Every variable keeps its type: the number a late trigger writes to is one of the
\* table, a frame that has the lock is on the stack, and there are never more frames
\* than signals that have arrived.
THEOREM TypeCorrect == Spec => []TypeOK
<1>1. TypeInv => TypeOK
  BY DEF TypeInv
<1> QED BY <1>1, Invariance, PTL

-----------------------------------------------------------------------------
(* Who waits for the lock *)

\* Of all threads and frames only the main thread can be stuck on the lock, and only
\* because it waits for itself (register_callback, deregister_callback, handler).
THEOREM LockCorrect == Spec => []LockMoves
<1>1. ASSUME EventInv, TypeInv
      PROVE  LockMoves
  <2>1. CASE lock \in Owners
    <3>1. pc[lock] \in {"inserted", "popped"} /\ depth \in Nat
      BY <1>1, <2>1 DEF EventInv, LockInv
    <3> QED BY <2>1, <3>1 DEF LockMoves, SelfDeadlock, At, Runs
  <2>2. CASE lock = "handler"
    <3>1. holder # 0 /\ holder \in 0 .. depth /\ depth \in Nat
      BY <1>1, <2>2 DEF EventInv, LockInv, TypeInv, TypeOK
    <3> QED BY <2>2, <3>1 DEF LockMoves, SelfDeadlock
  <2> QED BY <1>1, <2>1, <2>2 DEF LockMoves, TypeInv, TypeOK
<1> QED BY <1>1, Invariance, PTL

\* That wait is for ever: no other thread, timer or signal gets the main thread out
\* of it.
THEOREM DeadlockStays == Spec => [][SelfDeadlock => SelfDeadlock']_vars
<1>1. ASSUME EventInv, TypeInv, [Next]_vars, SelfDeadlock
      PROVE  SelfDeadlock'
  <2>1. lock # "free" /\ depth \in Nat /\ depth > 0
    BY <1>1, OwnersAssumption DEF SelfDeadlock, EventInv
  <2>2. UNCHANGED <<lock, holder>> /\ depth' \in {depth, depth + 1}
    <3>1. ~HandlerLock
      BY <2>1 DEF HandlerLock
    <3>2. ~HandlerReturn
      <4>1. HandlerReturn => lock = "handler" /\ holder = depth
        BY <1>1 DEF HandlerReturn, EventInv, LockInv
      <4> QED BY <1>1, <4>1, OwnersAssumption DEF SelfDeadlock
    <3>3. \A t \in Owners : ~Release(t)
      <4>1. \A t \in Owners : Release(t) => lock = t /\ Runs(t)
        BY <1>1 DEF Release, At, EventInv, LockInv
      <4> QED BY <1>1, <2>1, <4>1, OwnersAssumption DEF SelfDeadlock, Runs
    <3>4. CASE \E t \in Owners : Step(t)
      BY <2>1, <3>3, <3>4 DEF Step, Open, Insert, Pop, CloseSignal, Acknowledge, Start,
                              CloseTimer, dispatch
    <3>5. CASE \/ \E k \in 1 .. started : Pass(k) \/ Trigger(k)
               \/ Raise \/ Interrupt \/ (\E s \in todo : Call(s)) \/ UNCHANGED vars
      BY <3>5 DEF Pass, Trigger, Raise, Interrupt, Call, vars, dispatch
    <3> QED BY <1>1, <3>1, <3>2, <3>4, <3>5 DEF Next
  <2>3. holder \in 0 .. depth
    BY <1>1 DEF TypeInv, TypeOK
  <2> QED BY <1>1, <2>1, <2>2, <2>3, OwnersAssumption DEF SelfDeadlock
<1>2. EventInv /\ TypeInv /\ [Next]_vars => [SelfDeadlock => SelfDeadlock']_vars
  BY <1>1
<1> QED BY <1>2, Invariance, PTL DEF Spec
=============================================================================
