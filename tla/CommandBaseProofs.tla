------------------------- MODULE CommandBaseProofs -------------------------
(***************************************************************************)
(* What every handler of the machine preserves, for every configuration,   *)
(* every output of the child and every order of events: the lemmas that    *)
(* the proofs about the event loops rest on.                               *)
(***************************************************************************)
EXTENDS CommandBase, TLAPS

\* The write events of the endpoints x are those WriteEventsMatchOutput asks.
Matched(x) ==
  \A w \in Writers : w \in x.armed <=> w \in x.writing /\ x.output[w] > 0

\* IOEndpoint.read() changes the reader and the input of its own end only, and
\* never takes back a prompt that came in.
LEMMA AfterReadFacts ==
  ASSUME BaseTypeOK, NEW r \in Readers
  PROVE  LET x == AfterRead(r) IN
         /\ x \in EndsType
         /\ x.writing = ends.writing /\ x.armed = ends.armed
         /\ x.output = ends.output
         /\ x.sigchld = ends.sigchld /\ x.slave = ends.slave
         /\ \A c \in Readers \ {r} : /\ x.input[c] = ends.input[c]
                                     /\ c \in x.reading <=> c \in ends.reading
         /\ "prompt" \in ends.input[r] => "prompt" \in x.input[r]
<1> DEFINE x == AfterRead(r)
<1>0. ends \in EndsType /\ buf[r] \in SUBSET Kinds
  BY DEF BaseTypeOK
<1>1. CASE ~Readable(r)
  <2>1. x = ends
    BY <1>1 DEF AfterRead, Readable
  <2> QED BY <2>1, <1>0
<1>2. CASE AtEOF(r)
  <2>1. x = [ends EXCEPT !.reading = @ \ {r}]
    BY <1>2 DEF AfterRead, Readable
  <2> QED BY <2>1, <1>0 DEF EndsType
<1>3. CASE Readable(r) /\ ~AtEOF(r)
  <2>1. x = [ends EXCEPT !.input[r] = Joined(@, buf[r]) \ {"text"}]
    BY <1>3 DEF AfterRead
  <2>2. Joined(ends.input[r], buf[r]) \ {"text"} \in SUBSET {"prompt", "split"}
    BY <1>0 DEF Joined, EndsType, Kinds
  <2>3. "prompt" \in ends.input[r] => "prompt" \in Joined(ends.input[r], buf[r])
    BY DEF Joined
  <2> QED BY <2>1, <2>2, <2>3, <1>0 DEF EndsType
<1> QED BY <1>1, <1>2, <1>3

\* IOEndpoint.write() leaves every reader and the other writer alone, never
\* adds more than the new data, and keeps the write events matched.
LEMMA WrittenFacts ==
  ASSUME NEW x \in EndsType, NEW w \in Writers, NEW n \in Nat,
         NEW y \in Written(x, w, n)
  PROVE  /\ y \in EndsType
         /\ y.reading = x.reading /\ y.input = x.input
         /\ y.sigchld = x.sigchld /\ y.slave = x.slave
         /\ \A v \in Writers \ {w} : y.output[v] = x.output[v]
         /\ y.output[w] <= x.output[w] + n
         /\ Matched(x) => Matched(y)
<1> DEFINE total == x.output[w] + n
           kept == [x EXCEPT !.output[w] = total]
           some(left) == [x EXCEPT !.output[w] = left,
                            !.armed = IF left = 0 THEN @ \ {w} ELSE @ \cup {w}]
<1>0. total \in Nat /\ x.output[w] \in Nat /\ x.armed \in SUBSET Writers
  BY DEF EndsType
<1>1. CASE total = 0
  <2>1. y = [x EXCEPT !.armed = @ \ {w}]
    BY <1>1 DEF Written
  <2>2. x.output[w] = 0 /\ n = 0
    BY <1>1, <1>0
  <2> QED BY <2>1, <2>2, <1>0 DEF EndsType, Matched
<1>2. CASE total # 0 /\ w \notin x.writing
  <2>1. y = kept
    BY <1>2 DEF Written
  <2>2. /\ y \in EndsType /\ y.armed = x.armed /\ y.writing = x.writing
        /\ y.output = [x.output EXCEPT ![w] = total]
    BY <2>1, <1>0 DEF EndsType
  <2>3. Matched(x) => Matched(y)
    BY <2>2, <1>2, <1>0 DEF EndsType, Matched
  <2> QED BY <2>1, <2>2, <2>3, <1>0 DEF EndsType
<1>3. CASE total # 0 /\ w \in x.writing /\ w = "stdin" /\ w \notin held
  <2>1. y = [kept EXCEPT !.writing = @ \ {w}, !.armed = @ \ {w}]
    BY <1>3 DEF Written
  <2>2. /\ y \in EndsType
        /\ y.armed = x.armed \ {w} /\ y.writing = x.writing \ {w}
        /\ y.output = [x.output EXCEPT ![w] = total]
    BY <2>1, <1>0 DEF EndsType
  <2>3. Matched(x) => Matched(y)
    BY <2>2, <1>3, <1>0 DEF EndsType, Matched
  <2> QED BY <2>1, <2>2, <2>3, <1>0 DEF EndsType
<1>4. CASE total # 0 /\ w \in x.writing /\ ~(w = "stdin" /\ w \notin held)
  <2>1. PICK left \in 0 .. total : y = some(left)
    BY <1>4 DEF Written
  <2>2. left \in Nat /\ left <= total
    BY <1>0
  <2>3. /\ y \in EndsType /\ y.writing = x.writing
        /\ y.armed = IF left = 0 THEN x.armed \ {w} ELSE x.armed \cup {w}
        /\ y.output = [x.output EXCEPT ![w] = left]
    BY <2>1, <2>2, <1>0 DEF EndsType
  <2>4. Matched(x) => Matched(y)
    BY <2>2, <2>3, <1>4, <1>0 DEF EndsType, Matched
  <2> QED BY <2>1, <2>2, <2>3, <2>4, <1>0 DEF EndsType
<1> QED BY <1>1, <1>2, <1>3, <1>4

-----------------------------------------------------------------------------
(* Staying in a state and moving to another *)

\* An action may leave the endpoints at x: nothing is registered or cancelled
\* but what reading and writing do, and no prompt seen is forgotten.
Kept(x) ==
  /\ x \in EndsType /\ Matched(x)
  /\ (x.sigchld => ends.sigchld) /\ x.slave = ends.slave
  /\ \A w \in Writers : x.output[w] <= ends.output[w]
  /\ \A r \in Readers : "prompt" \in ends.input[r] => "prompt" \in x.input[r]

\* The constants of the machine, for arithmetic over its states.
LEMMA StateFacts ==
  /\ States = 0 .. 8 /\ Active = 1 .. 7 /\ AuthStates = 1 .. 3
  /\ TimedStates = {1, 2, 3, 4, 6, 7}
  BY DEF States, Active, AuthStates, TimedStates, Q_START, Q_SSH_MASTER,
         Q_SUDO_MASTER, Q_SUDO_STDIO, Q_RUNNING, Q_EXITED, Q_TERM, Q_KILL, Q_DONE

\* Reading keeps what an action must keep.
LEMMA ReadKept ==
  ASSUME BaseInv, NEW r \in Readers
  PROVE  Kept(AfterRead(r))
<1> DEFINE x == AfterRead(r)
<1>1. ends \in EndsType /\ Matched(ends) /\ BaseTypeOK
  BY DEF BaseInv, BaseTypeOK, ChannelInv, WriteEventsMatchOutput, Matched
<1>2. /\ x \in EndsType
      /\ x.writing = ends.writing /\ x.armed = ends.armed
      /\ x.output = ends.output
      /\ x.sigchld = ends.sigchld /\ x.slave = ends.slave
      /\ \A c \in Readers \ {r} : x.input[c] = ends.input[c]
      /\ "prompt" \in ends.input[r] => "prompt" \in x.input[r]
  BY <1>1, AfterReadFacts
<1> HIDE DEF x
<1>3. Matched(x)
  BY <1>1, <1>2 DEF Matched
<1>4. \A w \in Writers : x.output[w] <= ends.output[w]
  BY <1>1, <1>2 DEF EndsType
<1>5. Kept(x)
  BY <1>2, <1>3, <1>4 DEF Kept
<1> QED BY <1>5 DEF x

\* Closing keeps the types and leaves no write event.
LEMMA ClosedFacts ==
  ASSUME NEW x \in EndsType
  PROVE  LET y == Closed(x) IN
         /\ y \in EndsType /\ Matched(y)
         /\ y.input = x.input /\ y.output = x.output
         /\ ~y.sigchld /\ ~y.slave
  BY DEF Closed, EndsType, Matched

\* Entering a state that starts no timer cannot raise; where os.kill or start_timer
\* raises, the signal was sent or not, and the timer is the one of the state left,
\* that of the state entered, or none.
LEMMA EnteredFacts ==
  ASSUME BaseTypeOK, NEW q \in States, Entered(q)
  PROVE  /\ q \notin TimedStates => thrown' = thrown
         /\ signals' \in {signals, signals \cup Sent(q)}
         /\ Sent(q) = {} => signals' = signals
         /\ ~thrown' => timer' = TimerAfter(q) /\ signals' = signals \cup Sent(q)
         /\ thrown' /\ ~thrown => q \in TimedStates /\ timer' \in {NoTimer, timer, q}
         /\ thrown' \in BOOLEAN
         /\ signals' \in SUBSET {"SIGTERM", "SIGKILL"}
         /\ timer' \in {NoTimer} \cup AuthStates \cup {Q_RUNNING, Q_TERM, Q_KILL}
<1>0. /\ thrown \in BOOLEAN /\ signals \in SUBSET {"SIGTERM", "SIGKILL"}
      /\ timer \in {NoTimer} \cup AuthStates \cup {Q_RUNNING, Q_TERM, Q_KILL}
      /\ Sent(q) \in SUBSET {"SIGTERM", "SIGKILL"}
      /\ Sent(q) # {} => q \in TimedStates
  BY DEF BaseTypeOK, Sent, TimedStates, Q_TERM, Q_KILL
<1>1. TimerAfter(q) \in {NoTimer} \cup AuthStates \cup {Q_RUNNING, Q_TERM, Q_KILL}
  <2>1. q \in TimedStates => TimerAfter(q) = Started(q)
    BY StateFacts DEF TimerAfter, Q_DONE
  <2>2. q \notin TimedStates => TimerAfter(q) \in {NoTimer, timer}
    BY DEF TimerAfter
  <2>3. Started(q) \in {NoTimer, q}
    BY DEF Started
  <2> QED BY <1>0, <2>1, <2>2, <2>3 DEF TimedStates
<1>2. CASE timer' = TimerAfter(q) /\ signals' = signals \cup Sent(q) /\ UNCHANGED thrown
  BY <1>0, <1>1, <1>2
<1>3. CASE /\ Sent(q) # {} /\ thrown' = TRUE /\ UNCHANGED signals
           /\ timer' \in {NoTimer, timer}
  BY <1>0, <1>3
<1>4. CASE /\ q \in TimedStates /\ timer' \in {NoTimer, q} /\ thrown' = TRUE
           /\ signals' = signals \cup Sent(q)
  BY <1>0, <1>4 DEF TimedStates
<1> QED BY <1>2, <1>3, <1>4 DEF Entered

\* Where every move leads: its types, its timer and its endpoints.
LEMMA MoveFacts ==
  ASSUME BaseTypeOK, NEW x \in EndsType, NEW p \in States, Move(p, x)
  PROVE  /\ q_now' = Rest(p) /\ q_now' \in States
         /\ timer' \in {NoTimer} \cup AuthStates \cup {Q_RUNNING, Q_TERM, Q_KILL}
         /\ q_now' \notin TimedStates => thrown' = thrown
         /\ signals' \in {signals, signals \cup Sent(q_now')}
         /\ Sent(q_now') = {} => signals' = signals
         /\ ~thrown' => /\ timer' = TimerAfter(q_now')
                        /\ signals' = signals \cup Sent(q_now')
         /\ thrown' /\ ~thrown => /\ q_now' \in TimedStates
                                 /\ timer' \in {NoTimer, timer, q_now'}
         /\ signals' \in SUBSET {"SIGTERM", "SIGKILL"} /\ thrown' \in BOOLEAN
         /\ ends' \in EndsType
         /\ q_now' # Q_DONE => ends' = x
         /\ q_now' = Q_DONE => ends' = Closed(x)
<1>1. q_now' = Rest(p) /\ Rest(p) \in States /\ Entered(Rest(p))
  BY DEF Move, Rest, States, Q_START, Q_TERM, Q_KILL, Q_DONE
<1>2. /\ q_now' # Q_DONE => ends' = x
      /\ q_now' = Q_DONE => ends' = Closed(x)
  BY <1>1 DEF Move
<1>3. ends' \in EndsType
  BY <1>2, ClosedFacts
<1> HIDE DEF Rest
<1> QED BY <1>1, <1>2, <1>3, EnteredFacts

\* An action that returns None preserves the invariant.
LEMMA StayPreserves ==
  ASSUME BaseInv, NEW x, Kept(x), Stay(x), q_now \in Active,
         UNCHANGED <<options, child_pid, status, reason, child, held>>,
         buf' \in [Readers -> SUBSET Kinds],
         q_now = Q_EXITED /\ ends.slave => "stdout" \in x.reading,
         MasterPromptAnswered'
  PROVE  BaseInv'
<1>1. ends' = x /\ UNCHANGED <<q_now, timer, signals, thrown>>
  BY DEF Stay
<1>2. BaseTypeOK'
  BY <1>1 DEF BaseInv, BaseTypeOK, Kept
<1>3. ChildInv'
  BY <1>1 DEF BaseInv, ChildInv, PidIsOurs, DoneHasVerdict, ExitedIsReading,
              StateOfChild, Kept
<1>4. WriteEventsMatchOutput'
  BY <1>1 DEF WriteEventsMatchOutput, Kept, Matched
<1>5. \A w \in Writers : ends.output[w] \in Nat /\ ends'.output[w] \in Nat
  BY <1>2 DEF BaseInv, BaseTypeOK, EndsType
<1>6. PasswordLength \in Nat
  BY PasswordAssumption
<1>7. ChallengesMet'
  <2>1. \A w \in Writers : ends'.output[w] <= ends.output[w]
    BY <1>1 DEF Kept
  <2>2. \A r \in Readers : "prompt" \in ends.input[r] => "prompt" \in ends'.input[r]
    BY <1>1 DEF Kept
  <2>3. ChallengesMet
    BY DEF BaseInv, ChannelInv
  <2>4. \A w \in Writers : ends'.output[w] > 0 =>
             ends.output[w] > 0 /\ (ends.output[w] <= PasswordLength
                                      => ends'.output[w] <= PasswordLength)
    BY <1>5, <1>6, <2>1
  <2> QED BY <1>1, <2>2, <2>3, <2>4 DEF ChallengesMet, Writers, Readers
<1>8. StateOfChallenge'
  <2>1. q_now # Q_START
    BY StateFacts DEF Q_START
  <2>2. \A w \in Writers : ends.output[w] = 0 => ends'.output[w] = 0
    BY <1>1, <1>5 DEF Kept
  <2> QED BY <1>1, <2>1, <2>2 DEF BaseInv, ChannelInv, StateOfChallenge, Writers
<1> QED BY <1>2, <1>3, <1>4, <1>7, <1>8 DEF BaseInv, ChannelInv

\* Moving to DONE signals nobody and closes everything.
LEMMA MoveDone ==
  ASSUME BaseTypeOK, NEW x, Kept(x), Move(Q_DONE, x)
  PROVE  /\ q_now' = Q_DONE /\ signals' = signals /\ thrown' = thrown
         /\ ~ends'.sigchld /\ ~ends'.slave
<1>1. /\ Rest(Q_DONE) = Q_DONE /\ Sent(Q_DONE) = {} /\ Q_DONE \in States
      /\ Q_DONE \notin TimedStates
  BY StateFacts DEF Rest, Sent, Q_TERM, Q_KILL, Q_DONE
<1>2. q_now' = Q_DONE /\ signals' = signals /\ thrown' = thrown /\ ends' = Closed(x)
  BY <1>1, MoveFacts DEF Kept
<1> QED BY <1>2, ClosedFacts DEF Kept

\* A move past RUNNING keeps the endpoints' part of the invariant.
LEMMA LateMoveChannels ==
  ASSUME BaseInv, NEW x, Kept(x), NEW p \in {Q_EXITED, Q_TERM, Q_KILL, Q_DONE},
         Move(p, x), UNCHANGED options
  PROVE  ChannelInv'
<1>1. q_now' \in {5, 6, 7, 8}
  BY DEF Move, Rest, Q_EXITED, Q_TERM, Q_KILL, Q_DONE
<1>2. x \in EndsType /\ ends \in EndsType /\ ends' \in {x, Closed(x)}
  BY DEF Move, Kept, BaseInv, BaseTypeOK
<1>3. /\ Matched(ends') /\ ends' \in EndsType
      /\ ends'.input = x.input /\ ends'.output = x.output
  BY <1>2, ClosedFacts DEF Kept
<1>4. WriteEventsMatchOutput'
  BY <1>3 DEF WriteEventsMatchOutput, Matched
<1>5. \A w \in Writers : ends'.output[w] > 0 =>
           ends.output[w] > 0 /\ (ends.output[w] <= PasswordLength
                                    => ends'.output[w] <= PasswordLength)
  <2>1. \A w \in Writers : /\ ends.output[w] \in Nat /\ ends'.output[w] \in Nat
                           /\ ends'.output[w] <= ends.output[w]
    BY <1>2, <1>3 DEF Kept, EndsType
  <2> QED BY <2>1, PasswordAssumption
<1>6. ChallengesMet'
  <2>1. \A r \in Readers : "prompt" \in ends.input[r] => "prompt" \in ends'.input[r]
    BY <1>3 DEF Kept
  <2>2. ChallengesMet
    BY DEF BaseInv, ChannelInv
  <2> QED BY <1>1, <1>5, <2>1, <2>2
          DEF ChallengesMet, Writers, Readers, Q_SUDO_STDIO, Q_RUNNING
<1>7. MasterPromptAnswered' /\ StateOfChallenge'
  BY <1>1 DEF MasterPromptAnswered, StateOfChallenge, Q_START, Q_SSH_MASTER,
              Q_SUDO_MASTER, Q_SUDO_STDIO
<1> QED BY <1>4, <1>6, <1>7 DEF ChannelInv

\* A move past RUNNING keeps the types, given those of the verdict.
LEMMA LateMoveTypes ==
  ASSUME BaseInv, NEW x, Kept(x), NEW p \in {Q_EXITED, Q_TERM, Q_KILL, Q_DONE},
         Move(p, x), UNCHANGED <<options, held>>,
         child_pid' \in BOOLEAN, status' \in {"none", "exit", "failed"},
         reason' \in Reasons, buf' \in [Readers -> SUBSET Kinds],
         child' \in {"none", "forked", "running", "zombie", "reaped"}
  PROVE  BaseTypeOK'
<1>1. p \in States /\ BaseTypeOK /\ x \in EndsType
  BY StateFacts DEF BaseInv, Kept, Q_EXITED, Q_TERM, Q_KILL, Q_DONE
<1>2. /\ q_now' \in States /\ ends' \in EndsType
      /\ timer' \in {NoTimer} \cup AuthStates \cup {Q_RUNNING, Q_TERM, Q_KILL}
      /\ signals' \in SUBSET {"SIGTERM", "SIGKILL"} /\ thrown' \in BOOLEAN
  BY <1>1, MoveFacts
<1> QED BY <1>1, <1>2 DEF BaseTypeOK

-----------------------------------------------------------------------------
(* The handlers, one by one *)

LEMMA ReadPreserves ==
  ASSUME BaseInv, q_now \in Active, NEW r \in Readers, read(r),
         r = "stdout" => q_now # Q_EXITED,
         r = "master" => q_now \notin AuthStates
  PROVE  BaseInv'
<1> DEFINE x == AfterRead(r)
<1>0. BaseTypeOK
  BY DEF BaseInv
<1>1. Kept(x)
  BY ReadKept
<1>2. /\ \A c \in Readers \ {r} : x.input[c] = ends.input[c]
      /\ \A c \in Readers \ {r} : c \in x.reading <=> c \in ends.reading
  BY <1>0, AfterReadFacts
<1>3. /\ Stay(x) /\ Drained(r)
      /\ UNCHANGED <<options, child_pid, status, reason, child, held>>
  BY DEF read
<1> HIDE DEF x
<1>4. buf' \in [Readers -> SUBSET Kinds]
  BY <1>0, <1>3 DEF Drained, BaseTypeOK
<1>5. q_now = Q_EXITED /\ ends.slave => "stdout" \in x.reading
  BY <1>2 DEF BaseInv, ChildInv, ExitedIsReading, Readers
<1>6. MasterPromptAnswered'
  <2>1. ends' = x /\ q_now' = q_now
    BY <1>3 DEF Stay
  <2>2. q_now \in {Q_SSH_MASTER, Q_SUDO_MASTER} => x.input["master"] = ends.input["master"]
    BY <1>2 DEF AuthStates, Readers
  <2> QED BY <2>1, <2>2 DEF MasterPromptAnswered, BaseInv, ChannelInv
<1> QED BY <1>1, <1>3, <1>4, <1>5, <1>6, StayPreserves

LEMMA WritePreserves ==
  ASSUME BaseInv, q_now \in Active, NEW w \in Writers, write(w)
  PROVE  BaseInv'
<1>0. BaseTypeOK /\ ends \in EndsType /\ Matched(ends)
  BY DEF BaseInv, BaseTypeOK, ChannelInv, WriteEventsMatchOutput, Matched
<1>1. PICK x \in Written(ends, w, 0) : Stay(x)
  BY DEF write
<1>2. UNCHANGED <<options, child_pid, status, reason, child, held, buf>>
  BY DEF write, world
<1>3. /\ x \in EndsType /\ x.reading = ends.reading /\ x.input = ends.input
      /\ x.sigchld = ends.sigchld /\ x.slave = ends.slave /\ Matched(x)
      /\ \A v \in Writers \ {w} : x.output[v] = ends.output[v]
      /\ x.output[w] <= ends.output[w] + 0
  BY <1>0, <1>1, WrittenFacts
<1>4. Kept(x)
  <2>1. \A v \in Writers : x.output[v] <= ends.output[v]
    BY <1>0, <1>3 DEF EndsType
  <2> QED BY <1>3, <2>1 DEF Kept
<1>5. ends' = x /\ q_now' = q_now
  BY <1>1 DEF Stay
<1>6. MasterPromptAnswered'
  BY <1>3, <1>5 DEF MasterPromptAnswered, BaseInv, ChannelInv
<1>7. q_now = Q_EXITED /\ ends.slave => "stdout" \in x.reading
  BY <1>3 DEF BaseInv, ChildInv, ExitedIsReading
<1>8. buf' \in [Readers -> SUBSET Kinds]
  BY <1>0, <1>2 DEF BaseTypeOK
<1> QED BY <1>1, <1>2, <1>4, <1>6, <1>7, <1>8, StayPreserves

LEMMA CheckStdoutPreserves ==
  ASSUME BaseInv, ~thrown, q_now = Q_EXITED, check_stdout
  PROVE  BaseInv'
<1> DEFINE x == AfterRead("stdout")
<1>0. BaseTypeOK /\ q_now \in Active /\ "stdout" \in Readers
  BY StateFacts DEF BaseInv, Q_EXITED, Readers
<1>1. Kept(x)
  BY <1>0, ReadKept
<1>2. /\ IF "stdout" \in x.reading THEN Stay(x) ELSE Move(Q_DONE, x)
      /\ Drained("stdout")
      /\ UNCHANGED <<options, child_pid, status, reason, child, held>>
  BY DEF check_stdout
<1> HIDE DEF x
<1>3. buf' \in [Readers -> SUBSET Kinds]
  BY <1>0, <1>2 DEF Drained, BaseTypeOK
<1>4. CASE "stdout" \in x.reading
  <2>1. Stay(x)
    BY <1>2, <1>4
  <2>2. MasterPromptAnswered'
    BY <2>1 DEF Stay, MasterPromptAnswered, Q_EXITED, Q_SSH_MASTER, Q_SUDO_MASTER
  <2> QED BY <1>0, <1>1, <1>2, <1>3, <1>4, <2>1, <2>2, StayPreserves
<1>5. CASE "stdout" \notin x.reading
  <2>1. Move(Q_DONE, x)
    BY <1>2, <1>5
  <2>2. ChannelInv'
    BY <1>1, <1>2, <2>1, LateMoveChannels
  <2>3. BaseTypeOK'
    BY <1>0, <1>1, <1>2, <1>3, <2>1, LateMoveTypes DEF BaseTypeOK
  <2>4. q_now' = Q_DONE /\ ~ends'.sigchld /\ signals' = signals /\ ~thrown'
    BY <1>0, <1>1, <2>1, MoveDone
  <2>5. ChildInv'
    BY <1>2, <2>4, StateFacts
       DEF BaseInv, ChildInv, PidIsOurs, DoneHasVerdict, ExitedIsReading,
           StateOfChild, Q_START, Q_EXITED, Q_TERM, Q_KILL, Q_DONE
  <2> QED BY <2>2, <2>3, <2>5 DEF BaseInv
<1> QED BY <1>4, <1>5

\* A challenge either waits or writes the password, once, and moves on to the
\* next state of authentication or to RUNNING.
LEMMA ChallengePreserves ==
  ASSUME BaseInv, ~thrown, q_now \in AuthStates, NEW r \in Readers, NEW w \in Writers,
         NEW q \in {Q_SUDO_STDIO, Q_RUNNING}, Challenge(r, w, q),
         \/ /\ q_now = Q_SSH_MASTER /\ r = "master" /\ w = "master"
            /\ q = Q_SUDO_STDIO <=> options.sudo
         \/ /\ q_now = Q_SUDO_MASTER /\ r = "master" /\ w = "master"
            /\ q = Q_RUNNING
         \/ /\ q_now = Q_SUDO_STDIO /\ r = "stdout" /\ w = "stdin"
            /\ q = Q_RUNNING
  PROVE  BaseInv'
<1> DEFINE x == AfterRead(r)
<1>0. /\ BaseTypeOK /\ q_now \in Active /\ q_now \in 1 .. 3
      /\ q_now \in TimedStates /\ q \in States
  BY StateFacts DEF BaseInv, Q_SUDO_STDIO, Q_RUNNING
<1>1. Kept(x)
  BY ReadKept
<1>2. /\ x \in EndsType /\ x.output = ends.output
      /\ \A c \in Readers \ {r} : x.input[c] = ends.input[c]
  BY <1>0, AfterReadFacts
<1>3. /\ \/ ~Prompted(x.input[r]) /\ Stay(x)
         \/ /\ Prompted(x.input[r])
            /\ \E y \in Written(x, w, PasswordLength) : Move(q, y)
      /\ Drained(r)
      /\ UNCHANGED <<options, child_pid, status, reason, child, held>>
  BY DEF Challenge
<1> HIDE DEF x
<1>4. buf' \in [Readers -> SUBSET Kinds]
  BY <1>0, <1>3 DEF Drained, BaseTypeOK
<1>5. CASE ~Prompted(x.input[r]) /\ Stay(x)
  <2>1. MasterPromptAnswered'
    BY <1>5 DEF Stay, MasterPromptAnswered, Q_SSH_MASTER, Q_SUDO_MASTER, Q_SUDO_STDIO
  <2>2. q_now # Q_EXITED
    BY <1>0 DEF Q_EXITED
  <2> QED BY <1>0, <1>1, <1>3, <1>4, <1>5, <2>1, <2>2, StayPreserves
<1>6. CASE /\ Prompted(x.input[r])
           /\ \E y \in Written(x, w, PasswordLength) : Move(q, y)
  <2>1. PICK y \in Written(x, w, PasswordLength) : Move(q, y)
    BY <1>6
  <2>2. PasswordLength \in Nat
    BY PasswordAssumption
  <2>3. /\ y \in EndsType /\ y.reading = x.reading /\ y.input = x.input
        /\ y.sigchld = x.sigchld /\ y.slave = x.slave
        /\ \A v \in Writers \ {w} : y.output[v] = x.output[v]
        /\ y.output[w] <= x.output[w] + PasswordLength
        /\ Matched(y)
    BY <1>1, <1>2, <2>2, WrittenFacts DEF Kept
  <2>4. q_now' = q /\ ends' = y /\ signals' = signals
    <3>1. Rest(q) = q /\ Sent(q) = {} /\ q # Q_DONE
      BY DEF Rest, Sent, Q_SUDO_STDIO, Q_RUNNING, Q_TERM, Q_KILL, Q_DONE
    <3> QED BY <1>0, <2>1, <2>3, <3>1, MoveFacts
  <2>5. BaseTypeOK'
    BY <1>0, <1>3, <1>4, <2>1, <2>3, <2>4, MoveFacts DEF BaseTypeOK
  <2>6. ChildInv'
    <3>1. q_now' \in {3, 4} /\ q_now' \in TimedStates
      BY <2>4, StateFacts DEF Q_SUDO_STDIO, Q_RUNNING
    <3>2. child_pid' /\ status' = "none" /\ signals' = {} /\ reason' = "none"
      BY <1>0, <1>3, <2>4 DEF BaseInv, ChildInv, StateOfChild, Q_EXITED
    <3>3. PidIsOurs' /\ DoneHasVerdict' /\ ExitedIsReading'
      BY <1>3, <3>1 DEF BaseInv, ChildInv, PidIsOurs, DoneHasVerdict,
                        ExitedIsReading, Q_EXITED, Q_DONE
    <3>4. StateOfChild'
      BY <3>1, <3>2 DEF StateOfChild, Q_START, Q_EXITED, Q_TERM, Q_KILL, Q_DONE
    <3> QED BY <3>3, <3>4 DEF ChildInv
  <2>7. \A c \in Readers : "prompt" \in ends.input[c] => "prompt" \in ends'.input[c]
    BY <1>1, <2>3, <2>4 DEF Kept
  <2>8. "prompt" \in ends'.input[r]
    BY <1>6, <2>3, <2>4 DEF Prompted
  <2>9. ends.output[w] = 0 /\ ends'.output[w] \in 0 .. PasswordLength
    <3>1. ends.output[w] = 0
      BY DEF BaseInv, ChannelInv, StateOfChallenge, Q_SSH_MASTER, Q_SUDO_MASTER,
             Q_SUDO_STDIO
    <3> QED BY <1>2, <2>2, <2>3, <2>4, <3>1 DEF EndsType
  <2>10. ChannelInv'
    <3>1. WriteEventsMatchOutput'
      BY <2>3, <2>4 DEF WriteEventsMatchOutput, Matched
    <3>2. ChallengesMet /\ StateOfChallenge
      BY DEF BaseInv, ChannelInv
    <3>3. ChallengesMet'
      <4>1. \A v \in Writers : ends'.output[v] > 0 =>
              /\ "prompt" \in ends'.input[IF v = "stdin" THEN "stdout" ELSE v]
              /\ ends'.output[v] <= PasswordLength
        <5> TAKE v \in Writers
        <5>1. CASE v = w
          BY <5>1, <2>8, <2>9
        <5>2. CASE v # w
          BY <5>2, <1>2, <2>3, <2>4, <2>7, <3>2 DEF ChallengesMet, Writers, Readers
        <5> QED BY <5>1, <5>2
      <4>2. "prompt" \in ends'.input["master"]
        BY <2>7, <2>8, <3>2 DEF ChallengesMet, StateOfChallenge, Readers, Q_SUDO_STDIO
      <4>3. q_now' = Q_RUNNING /\ options'.ssh /\ options'.sudo =>
               "prompt" \in ends'.input["stdout"]
        BY <1>3, <2>4, <2>8, <3>2
           DEF StateOfChallenge, Q_SSH_MASTER, Q_SUDO_MASTER, Q_SUDO_STDIO, Q_RUNNING
      <4> QED BY <4>1, <4>2, <4>3 DEF ChallengesMet
    <3>4. MasterPromptAnswered'
      BY <2>4 DEF MasterPromptAnswered, Q_SSH_MASTER, Q_SUDO_MASTER, Q_SUDO_STDIO,
                  Q_RUNNING
    <3>5. StateOfChallenge'
      <4>1. q = Q_SUDO_STDIO => q_now = Q_SSH_MASTER /\ options.sudo /\ options.ssh
        BY <3>2 DEF StateOfChallenge, Q_SUDO_STDIO, Q_RUNNING
      <4>2. q = Q_SUDO_STDIO => ends'.output["stdin"] = 0
        BY <4>1, <1>2, <2>3, <2>4, <3>2
           DEF StateOfChallenge, Writers, Q_SSH_MASTER, Q_SUDO_STDIO
      <4> QED BY <1>3, <2>4, <4>1, <4>2
              DEF StateOfChallenge, Q_START, Q_SSH_MASTER, Q_SUDO_MASTER,
                  Q_SUDO_STDIO, Q_RUNNING
    <3> QED BY <3>1, <3>3, <3>4, <3>5 DEF ChannelInv
  <2> QED BY <2>5, <2>6, <2>10 DEF BaseInv
<1> QED BY <1>3, <1>5, <1>6

LEMMA MasterReadPreserves ==
  ASSUME BaseInv, ~thrown, q_now \in Active, master_read
  PROVE  BaseInv'
<1>0. "master" \in Readers /\ "master" \in Writers /\ "stdout" \in Readers
      /\ "stdin" \in Writers
  BY DEF Readers, Writers
<1>1. CASE q_now = Q_SSH_MASTER
  <2>1. ssh_password /\ q_now \in AuthStates
    BY <1>1 DEF master_read, AuthStates, Q_SSH_MASTER, Q_SUDO_MASTER, Q_SUDO_STDIO
  <2> DEFINE q == IF options.sudo THEN Q_SUDO_STDIO ELSE Q_RUNNING
  <2>2. Challenge("master", "master", q)
    BY <2>1 DEF ssh_password
  <2>3. q \in {Q_SUDO_STDIO, Q_RUNNING} /\ (q = Q_SUDO_STDIO <=> options.sudo)
    BY DEF Q_SUDO_STDIO, Q_RUNNING
  <2> HIDE DEF q
  <2> QED BY <1>0, <1>1, <2>1, <2>2, <2>3, ChallengePreserves
<1>2. CASE q_now = Q_SUDO_MASTER
  <2>1. Challenge("master", "master", Q_RUNNING) /\ q_now \in AuthStates
    BY <1>2 DEF master_read, sudo_password, AuthStates, Q_SSH_MASTER, Q_SUDO_MASTER
  <2> QED BY <1>0, <1>2, <2>1, ChallengePreserves
<1>3. CASE q_now = Q_SUDO_STDIO
  <2>1. Challenge("stdout", "stdin", Q_RUNNING) /\ q_now \in AuthStates
    BY <1>3 DEF master_read, sudo_password, AuthStates, Q_SSH_MASTER,
                Q_SUDO_MASTER, Q_SUDO_STDIO
  <2> QED BY <1>0, <1>3, <2>1, ChallengePreserves
<1>4. CASE q_now \notin AuthStates
  <2>1. read("master")
    BY <1>4 DEF master_read, AuthStates
  <2> QED BY <1>0, <1>4, <2>1, ReadPreserves
<1> QED BY <1>1, <1>2, <1>3, <1>4 DEF AuthStates

\* The child is reaped at most once, and only by a command that is not done.
LEMMA ReapPreserves ==
  ASSUME BaseInv, ~thrown, q_now \in Active, q_now # Q_EXITED, reap_child
  PROVE  BaseInv'
<1>0. /\ BaseTypeOK /\ ends \in EndsType /\ Matched(ends) /\ Kept(ends)
      /\ q_now \in TimedStates
  <2>1. ends \in EndsType /\ Matched(ends) /\ BaseTypeOK
    BY DEF BaseInv, BaseTypeOK, ChannelInv, WriteEventsMatchOutput, Matched
  <2>2. \A w \in Writers : ends.output[w] <= ends.output[w]
    BY <2>1 DEF EndsType
  <2> QED BY <2>1, <2>2, StateFacts DEF Kept, Q_EXITED
<1>1. CASE ~(child_pid /\ child = "zombie")
  <2>1. /\ Stay(ends)
        /\ UNCHANGED <<options, child_pid, status, reason, child, held, buf>>
    BY <1>1 DEF reap_child, world
  <2>2. MasterPromptAnswered'
    BY <2>1 DEF Stay, MasterPromptAnswered, BaseInv, ChannelInv
  <2>3. buf' \in [Readers -> SUBSET Kinds]
    BY <1>0, <2>1 DEF BaseTypeOK
  <2> QED BY <1>0, <2>1, <2>2, <2>3, StayPreserves
<1>2. CASE child_pid /\ child = "zombie"
  <2> DEFINE x == [ends EXCEPT !.sigchld = FALSE]
             p == IF "stdout" \notin ends.reading \/ q_now > Q_EXITED
                  THEN Q_DONE ELSE Q_EXITED
  <2>1. /\ child' = "reaped" /\ ~child_pid' /\ status' = "exit" /\ Move(p, x)
        /\ UNCHANGED <<options, reason, held, buf>>
    BY <1>2 DEF reap_child
  <2>2. Kept(x) /\ x.reading = ends.reading /\ ~x.sigchld
    BY <1>0 DEF Kept, EndsType, Matched
  <2>3. /\ p \in {Q_DONE, Q_EXITED}
        /\ p = Q_EXITED => "stdout" \in ends.reading /\ q_now <= Q_EXITED
    BY <1>0, StateFacts DEF Q_EXITED, Q_DONE
  <2> HIDE DEF x, p
  <2>4. ChannelInv'
    BY <2>1, <2>2, <2>3, LateMoveChannels
  <2>5. BaseTypeOK'
    <3>1. /\ child_pid' \in BOOLEAN /\ status' \in {"none", "exit", "failed"}
          /\ reason' \in Reasons /\ buf' \in [Readers -> SUBSET Kinds]
          /\ child' \in {"none", "forked", "running", "zombie", "reaped"}
      BY <1>0, <2>1 DEF reap_child, BaseTypeOK
    <3> QED BY <2>1, <2>2, <2>3, <3>1, LateMoveTypes
  <2>6. /\ q_now' = p /\ signals' = signals /\ ~ends'.sigchld /\ ~thrown'
        /\ q_now' = Q_EXITED => ends' = x
    <3>1. Rest(p) = p /\ Sent(p) = {} /\ p \in States /\ p \notin TimedStates
      BY <2>3, StateFacts DEF Rest, Sent, Q_EXITED, Q_TERM, Q_KILL, Q_DONE
    <3> QED BY <1>0, <2>1, <2>2, <2>3, <3>1, MoveFacts, ClosedFacts
            DEF Kept, Q_EXITED, Q_DONE
  <2>7. ChildInv'
    BY <2>1, <2>2, <2>3, <2>6, StateFacts
       DEF BaseInv, ChildInv, PidIsOurs, DoneHasVerdict, ExitedIsReading,
           StateOfChild, Q_START, Q_EXITED, Q_TERM, Q_KILL, Q_DONE
  <2> QED BY <2>4, <2>5, <2>7 DEF BaseInv
<1> QED BY <1>1, <1>2

\* The endpoints as they are may always be left so.
LEMMA EndsKept ==
  ASSUME BaseInv
  PROVE  Kept(ends)
<1>1. ends \in EndsType /\ Matched(ends)
  BY DEF BaseInv, BaseTypeOK, ChannelInv, WriteEventsMatchOutput, Matched
<1>2. \A w \in Writers : ends.output[w] <= ends.output[w]
  BY <1>1 DEF EndsType
<1> QED BY <1>1, <1>2 DEF Kept

\* The timeouts and the cancellation give the command a reason and signal the
\* child, or leave a command whose child is gone.
LEMMA GiveUpPreserves ==
  ASSUME BaseInv, ~thrown, q_now \in Active, NEW why \in Reasons \ {"none"},
         NEW p \in {Q_TERM, Q_DONE}, Give_up(why, p), UNCHANGED status,
         \/ p = Q_TERM /\ q_now \in AuthStates \cup {Q_RUNNING}
         \/ p = Q_DONE /\ q_now = Q_EXITED
  PROVE  BaseInv'
<1>0. Kept(ends) /\ BaseTypeOK /\ "none" \notin Reasons \ {"none"}
  BY EndsKept DEF BaseInv
<1>1. /\ Move(p, ends) /\ reason' = IF reason = "none" THEN why ELSE reason
      /\ UNCHANGED <<options, child_pid, status, child, held, buf>>
  BY DEF Give_up, world
<1>2. /\ reason' \in Reasons /\ reason' # "none"
      /\ child_pid' \in BOOLEAN /\ status' \in {"none", "exit", "failed"}
      /\ buf' \in [Readers -> SUBSET Kinds]
      /\ child' \in {"none", "forked", "running", "zombie", "reaped"}
  BY <1>0, <1>1 DEF BaseTypeOK
<1>3. ChannelInv'
  BY <1>0, <1>1, LateMoveChannels
<1>4. BaseTypeOK'
  BY <1>0, <1>1, <1>2, LateMoveTypes
<1>5. ChildInv'
  <2>1. CASE p = Q_TERM
    <3>1. q_now \in 1 .. 4 /\ q_now \in TimedStates
      BY <2>1, StateFacts DEF Q_TERM, Q_DONE, Q_RUNNING
    <3>2. child_pid /\ status = "none" /\ signals = {}
      BY <3>1 DEF BaseInv, ChildInv, StateOfChild, Q_EXITED
    <3>3. /\ q_now' = Q_TERM /\ ends' = ends /\ Q_TERM \in TimedStates
          /\ signals' \in {{}, {"SIGTERM"}} /\ (~thrown' => signals' = {"SIGTERM"})
      <4>1. Rest(p) = Q_TERM /\ Sent(Q_TERM) = {"SIGTERM"} /\ Q_TERM \in States
        BY <2>1, <3>2, StateFacts DEF Rest, Sent, Q_TERM, Q_KILL, Q_DONE
      <4> QED BY <1>0, <1>1, <2>1, <3>2, <4>1, MoveFacts, StateFacts DEF Kept, Q_TERM, Q_DONE
    <3> QED BY <1>1, <1>2, <3>2, <3>3
            DEF BaseInv, ChildInv, PidIsOurs, DoneHasVerdict, ExitedIsReading,
                StateOfChild, Q_START, Q_EXITED, Q_TERM, Q_KILL, Q_DONE
  <2>2. CASE p = Q_DONE
    <3>1. q_now = Q_EXITED
      BY <2>2 DEF Q_TERM, Q_DONE
    <3>2. q_now' = Q_DONE /\ signals' = signals /\ ~ends'.sigchld /\ ~thrown'
      BY <1>0, <1>1, <2>2, MoveDone
    <3> QED BY <1>1, <1>2, <3>1, <3>2, StateFacts
            DEF BaseInv, ChildInv, PidIsOurs, DoneHasVerdict, ExitedIsReading,
                StateOfChild, Q_START, Q_EXITED, Q_TERM, Q_KILL, Q_DONE
  <2> QED BY <2>1, <2>2
<1> QED BY <1>3, <1>4, <1>5 DEF BaseInv

LEMMA StopPreserves ==
  ASSUME BaseInv, ~thrown, q_now \in Active, q_now \notin {Q_TERM, Q_KILL}, stop_command
  PROVE  BaseInv'
<1> DEFINE p == IF child_pid THEN Q_TERM ELSE Q_DONE
<1>1. Give_up("Command canceled", p) /\ UNCHANGED status
  BY DEF stop_command
<1>2. CASE q_now = Q_EXITED
  <2>1. p = Q_DONE
    BY <1>2 DEF BaseInv, ChildInv, PidIsOurs, ExitedIsReading
  <2> QED BY <1>1, <1>2, <2>1, GiveUpPreserves DEF Reasons
<1>3. CASE q_now # Q_EXITED
  <2>1. q_now \in AuthStates \cup {Q_RUNNING} /\ q_now \in TimedStates
    BY <1>3, StateFacts DEF Q_RUNNING, Q_EXITED, Q_TERM, Q_KILL
  <2>2. p = Q_TERM
    BY <2>1 DEF BaseInv, ChildInv, StateOfChild
  <2> QED BY <1>1, <2>1, <2>2, GiveUpPreserves DEF Reasons
<1> QED BY <1>2, <1>3

LEMMA TermFailedPreserves ==
  ASSUME BaseInv, ~thrown, q_now = Q_TERM, term_failed
  PROVE  BaseInv'
<1>0. Kept(ends) /\ BaseTypeOK
  BY EndsKept DEF BaseInv
<1>1. /\ Move(Q_KILL, ends)
      /\ UNCHANGED <<options, child_pid, status, reason, child, held, buf>>
  BY DEF term_failed, world
<1>2. ChannelInv'
  BY <1>0, <1>1, LateMoveChannels
<1>3. BaseTypeOK'
  BY <1>0, <1>1, LateMoveTypes DEF BaseTypeOK
<1>4. /\ child_pid /\ status = "none" /\ reason # "none"
      /\ signals = {"SIGTERM"}
  BY StateFacts DEF BaseInv, ChildInv, StateOfChild, Q_TERM
<1>5. /\ q_now' = Q_KILL /\ ends' = ends
      /\ signals' \in {{"SIGTERM"}, {"SIGTERM", "SIGKILL"}} /\ Q_KILL \in TimedStates
      /\ ~thrown' => signals' = {"SIGTERM", "SIGKILL"}
  <2>1. Rest(Q_KILL) = Q_KILL /\ Sent(Q_KILL) = {"SIGKILL"} /\ Q_KILL \in States
    BY <1>4, StateFacts DEF Rest, Sent, Q_TERM, Q_KILL, Q_DONE
  <2> QED BY <1>0, <1>1, <1>4, <2>1, MoveFacts, StateFacts DEF Kept, Q_KILL, Q_DONE
<1>6. ChildInv'
  BY <1>1, <1>4, <1>5
     DEF BaseInv, ChildInv, PidIsOurs, DoneHasVerdict, ExitedIsReading,
         StateOfChild, Q_START, Q_EXITED, Q_TERM, Q_KILL, Q_DONE
<1> QED BY <1>2, <1>3, <1>6 DEF BaseInv

LEMMA KillFailedPreserves ==
  ASSUME BaseInv, ~thrown, q_now = Q_KILL, kill_failed
  PROVE  BaseInv'
<1>0. Kept(ends) /\ BaseTypeOK
  BY EndsKept DEF BaseInv
<1>1. /\ child_pid /\ status = "none" /\ reason # "none"
      /\ signals = {"SIGTERM", "SIGKILL"}
  BY StateFacts DEF BaseInv, BaseTypeOK, ChildInv, StateOfChild, Q_KILL
<1>2. /\ Move(Q_DONE, ends) /\ status' = "failed" /\ reason' = reason
      /\ UNCHANGED <<options, child_pid, child, held, buf>>
  BY <1>1 DEF kill_failed, Give_up, world
<1>3. ChannelInv'
  BY <1>0, <1>2, LateMoveChannels
<1>4. BaseTypeOK'
  BY <1>0, <1>2, LateMoveTypes DEF BaseTypeOK
<1>5. q_now' = Q_DONE /\ signals' = signals /\ ~ends'.sigchld /\ ~thrown'
  BY <1>0, <1>2, MoveDone
<1>6. ChildInv'
  <2>1. PidIsOurs' /\ DoneHasVerdict' /\ ExitedIsReading'
    BY <1>1, <1>2, <1>5 DEF BaseInv, ChildInv, PidIsOurs, DoneHasVerdict,
                            ExitedIsReading, Q_EXITED, Q_DONE
  <2>2. StateOfChild'
    BY <1>1, <1>2, <1>5, StateFacts
       DEF StateOfChild, Q_START, Q_EXITED, Q_TERM, Q_KILL, Q_DONE
  <2> QED BY <2>1, <2>2 DEF ChildInv
<1> QED BY <1>3, <1>4, <1>6 DEF BaseInv

LEMMA NoClosePreserves ==
  ASSUME BaseInv, ~thrown, q_now = Q_EXITED, no_close
  PROVE  BaseInv'
<1>0. Kept(ends) /\ BaseTypeOK
  BY EndsKept DEF BaseInv
<1>1. /\ Move(Q_DONE, ends)
      /\ reason' = "Warning: stdout did not close as expected"
      /\ UNCHANGED <<options, child_pid, status, child, held, buf>>
  BY DEF no_close, world
<1>2. ChannelInv'
  BY <1>0, <1>1, LateMoveChannels
<1>3. reason' \in Reasons
  BY <1>1 DEF Reasons
<1>4. BaseTypeOK'
  BY <1>0, <1>1, <1>3, LateMoveTypes DEF BaseTypeOK
<1>5. q_now' = Q_DONE /\ signals' = signals /\ ~ends'.sigchld /\ ~thrown'
  BY <1>0, <1>1, MoveDone
<1>6. child = "reaped" /\ ~child_pid /\ status = "exit" /\ signals = {}
  BY DEF BaseInv, ChildInv, PidIsOurs, ExitedIsReading
<1>7. ChildInv'
  <2>1. /\ q_now' = Q_DONE /\ ~ends'.sigchld /\ ~thrown'
        /\ child' = "reaped" /\ ~child_pid'
        /\ status' = "exit" /\ signals' = {}
    BY <1>1, <1>5, <1>6
  <2>2. PidIsOurs' /\ DoneHasVerdict' /\ ExitedIsReading'
    BY <2>1 DEF PidIsOurs, DoneHasVerdict, ExitedIsReading, Q_EXITED, Q_DONE
  <2>3. StateOfChild'
    BY <2>1, StateFacts DEF StateOfChild, Q_START, Q_EXITED, Q_TERM, Q_KILL, Q_DONE
  <2> QED BY <2>2, <2>3 DEF ChildInv
<1> QED BY <1>2, <1>4, <1>7 DEF BaseInv

LEMMA TimeoutPreserves ==
  ASSUME BaseInv, ~thrown, q_now \in Active, timeout
  PROVE  BaseInv'
<1>1. CASE q_now = Q_SSH_MASTER /\ ssh_timeout
  <2>1. q_now \in AuthStates /\ Give_up("SSH authentication timeout", Q_TERM)
          /\ UNCHANGED status
    BY <1>1 DEF AuthStates, ssh_timeout
  <2> QED BY <2>1, GiveUpPreserves DEF Reasons
<1>2. CASE q_now \in {Q_SUDO_MASTER, Q_SUDO_STDIO} /\ sudo_timeout
  <2>1. q_now \in AuthStates /\ Give_up("SUDO authentication timeout", Q_TERM)
          /\ UNCHANGED status
    BY <1>2 DEF AuthStates, sudo_timeout
  <2> QED BY <2>1, GiveUpPreserves DEF Reasons
<1>3. CASE q_now = Q_RUNNING /\ run_timeout
  <2>1. Give_up("Command timeout", Q_TERM) /\ UNCHANGED status
    BY <1>3 DEF run_timeout
  <2> QED BY <1>3, <2>1, GiveUpPreserves DEF Reasons
<1>4. CASE q_now = Q_EXITED /\ no_close
  BY <1>4, NoClosePreserves
<1>5. CASE q_now = Q_TERM /\ term_failed
  BY <1>5, TermFailedPreserves
<1>6. CASE q_now = Q_KILL /\ kill_failed
  BY <1>6, KillFailedPreserves
<1> QED BY <1>1, <1>2, <1>3, <1>4, <1>5, <1>6 DEF timeout

\* The invariant does not depend on what is left alone.
LEMMA IgnorePreserves ==
  ASSUME BaseInv, UNCHANGED <<command, world>>
  PROVE  BaseInv'
  BY DEF command, world, BaseInv, BaseTypeOK, ChildInv, PidIsOurs, DoneHasVerdict,
         ExitedIsReading, StateOfChild, ChannelInv, WriteEventsMatchOutput,
         ChallengesMet, MasterPromptAnswered, StateOfChallenge

\* The whole matrix: any event, in any state, in any order, preserves the
\* invariant, the events left in a batch after the machine has moved on
\* included.
LEMMA HandlePreserves ==
  ASSUME BaseInv, ~thrown, NEW e \in Events, Handle(e)
  PROVE  BaseInv'
<1>0. /\ "stdin" \in Writers /\ "master" \in Writers
      /\ "stdout" \in Readers /\ "stderr" \in Readers
  BY DEF Writers, Readers
<1>1. CASE ignore
  BY <1>1, IgnorePreserves DEF ignore
<1>2. CASE q_now \in Active /\ (write("stdin") \/ write("master"))
  BY <1>0, <1>2, WritePreserves
<1>3. CASE /\ q_now \in Active
           /\ (read("stdout") /\ q_now # Q_EXITED) \/ read("stderr")
  BY <1>0, <1>3, ReadPreserves
<1>4. CASE q_now \in Active /\ q_now = Q_EXITED /\ check_stdout
  BY <1>4, CheckStdoutPreserves
<1>5. CASE q_now \in Active /\ master_read
  BY <1>5, MasterReadPreserves
<1>6. CASE q_now \in Active /\ q_now # Q_EXITED /\ reap_child
  BY <1>6, ReapPreserves
<1>7. CASE q_now \in Active /\ timeout
  BY <1>7, TimeoutPreserves
<1>8. CASE q_now \in Active /\ q_now \notin {Q_TERM, Q_KILL} /\ stop_command
  BY <1>8, StopPreserves
<1> QED BY <1>1, <1>2, <1>3, <1>4, <1>5, <1>6, <1>7, <1>8 DEF Handle

-----------------------------------------------------------------------------
(* Start, end and the world *)

LEMMA InitHolds ==
  BaseInit => BaseInv
<1> SUFFICES ASSUME BaseInit PROVE BaseInv
  OBVIOUS
<1>1. BaseTypeOK
  <2>1. ends \in EndsType
    BY DEF BaseInit, EndsType
  <2>2. options \in OptionSet /\ q_now \in States /\ reason \in Reasons
    BY OptionsAssumption, StateFacts DEF BaseInit, Q_START, Reasons
  <2> QED BY <2>1, <2>2 DEF BaseInit, BaseTypeOK
<1>2. ChildInv
  BY StateFacts DEF BaseInit, ChildInv, PidIsOurs, DoneHasVerdict, ExitedIsReading,
     StateOfChild, Q_START, Q_EXITED, Q_TERM, Q_KILL, Q_DONE
<1>3. ChannelInv
  BY DEF BaseInit, ChannelInv, WriteEventsMatchOutput, ChallengesMet,
     MasterPromptAnswered, StateOfChallenge, Writers, Q_START, Q_SSH_MASTER,
     Q_SUDO_MASTER, Q_SUDO_STDIO, Q_RUNNING
<1> QED BY <1>1, <1>2, <1>3 DEF BaseInv

LEMMA ForkPreserves ==
  ASSUME BaseInv, q_now = Q_START, fork_and_exec
  PROVE  BaseInv'
<1>0. /\ BaseTypeOK /\ ends \in EndsType /\ status = "none"
      /\ \A w \in Writers : ends.output[w] = 0
      /\ \A r \in Readers : ends.input[r] = {}
  BY DEF BaseInv, BaseTypeOK, ChildInv, StateOfChild, ChannelInv, StateOfChallenge,
         Writers, Q_START, Q_SUDO_STDIO
<1>1. /\ ends' \in EndsType /\ ends'.armed = ends.armed /\ ends'.output = ends.output
      /\ ends'.input = ends.input /\ child_pid' /\ child' = "forked"
      /\ held' \in SUBSET Ends
      /\ UNCHANGED <<options, q_now, timer, status, reason, signals, thrown, buf>>
  BY <1>0 DEF fork_and_exec, Forked, Opened, EndsType, Ends
<1>2. BaseTypeOK'
  BY <1>0, <1>1 DEF BaseTypeOK
<1>3. ChildInv'
  BY <1>0, <1>1, StateFacts
     DEF BaseInv, ChildInv, PidIsOurs, DoneHasVerdict, ExitedIsReading, StateOfChild,
         Q_START, Q_EXITED, Q_TERM, Q_KILL, Q_DONE
<1>4. WriteEventsMatchOutput'
  BY <1>0, <1>1 DEF BaseInv, ChannelInv, WriteEventsMatchOutput, EndsType
<1>5. ChallengesMet' /\ MasterPromptAnswered' /\ StateOfChallenge'
  BY <1>0, <1>1 DEF ChallengesMet, MasterPromptAnswered, StateOfChallenge, Writers,
     Q_START, Q_SSH_MASTER, Q_SUDO_MASTER, Q_SUDO_STDIO, Q_RUNNING
<1> QED BY <1>2, <1>3, <1>4, <1>5 DEF BaseInv, ChannelInv

LEMMA ForkRaisesPreserves ==
  ASSUME BaseInv, q_now = Q_START, fork_raises
  PROVE  BaseInv'
<1>0. /\ BaseTypeOK /\ ends \in EndsType /\ status = "none"
      /\ \A w \in Writers : ends.output[w] = 0
      /\ \A r \in Readers : ends.input[r] = {}
  BY DEF BaseInv, BaseTypeOK, ChildInv, StateOfChild, ChannelInv, StateOfChallenge,
         Writers, Q_START, Q_SUDO_STDIO
<1>1. /\ \E reading \in SUBSET Readers, writing \in SUBSET Writers,
            pty \in BOOLEAN, enabled \in BOOLEAN :
           ends' = [ends EXCEPT !.reading = reading, !.writing = writing,
                                !.sigchld = enabled, !.slave = pty, !.bare = pty]
      /\ UNCHANGED <<options, q_now, timer, status, reason, signals, thrown, buf>>
      /\ \/ UNCHANGED <<child_pid, child, held>>
         \/ child_pid' /\ child' = "forked" /\ held' = Opened \cup Writers
  <2>1. /\ {} \in SUBSET Readers /\ {} \in SUBSET Writers
        /\ {"stdin"} \in SUBSET Writers /\ Opened \ {"master"} \in SUBSET Readers
        /\ \A r \in SUBSET (Opened \ {"master"}) : r \in SUBSET Readers
    BY DEF Opened, Readers, Writers
  <2> QED BY <2>1 DEF fork_raises, Forked, world
<1>2. /\ ends' \in EndsType /\ ends'.armed = ends.armed /\ ends'.output = ends.output
      /\ ends'.input = ends.input
  BY <1>0, <1>1 DEF EndsType
<1>3. BaseTypeOK'
  <2>1. held' \in SUBSET Ends
    BY <1>0, <1>1 DEF BaseTypeOK, Opened, Ends
  <2> QED BY <1>0, <1>1, <1>2, <2>1 DEF BaseTypeOK
<1>4. ChildInv'
  BY <1>0, <1>1, StateFacts
     DEF BaseInv, ChildInv, PidIsOurs, DoneHasVerdict, ExitedIsReading, StateOfChild,
         Q_START, Q_EXITED, Q_TERM, Q_KILL, Q_DONE
<1>5. WriteEventsMatchOutput'
  BY <1>0, <1>2 DEF BaseInv, ChannelInv, WriteEventsMatchOutput, EndsType
<1>6. ChallengesMet' /\ MasterPromptAnswered' /\ StateOfChallenge'
  BY <1>0, <1>1, <1>2 DEF ChallengesMet, MasterPromptAnswered, StateOfChallenge,
     Writers, Q_START, Q_SSH_MASTER, Q_SUDO_MASTER, Q_SUDO_STDIO, Q_RUNNING
<1> QED BY <1>3, <1>4, <1>5, <1>6 DEF BaseInv, ChannelInv

LEMMA StartPreserves ==
  ASSUME BaseInv, q_now = Q_START, child_pid, start_fsm
  PROVE  BaseInv'
<1>0. BaseTypeOK /\ ends \in EndsType /\ Kept(ends) /\ status = "none"
      /\ signals = {} /\ reason = "none" /\ ~thrown
  BY EndsKept, StateFacts DEF BaseInv, BaseTypeOK, ChildInv, StateOfChild, Q_START, Q_EXITED,
                  Q_TERM, Q_KILL
<1>1. /\ Move(initial_state, ends)
      /\ UNCHANGED <<options, child_pid, status, reason, child, held, buf>>
  BY DEF start_fsm, world
<1>2. /\ initial_state \in {1, 2, 4}
      /\ initial_state = Q_SSH_MASTER => options.ssh
      /\ initial_state = Q_SUDO_MASTER => options.sudo /\ ~options.ssh
      /\ initial_state = Q_RUNNING => ~options.sudo /\ ~options.ssh
  BY <1>0 DEF initial_state, BaseTypeOK, OptionSet, Q_SSH_MASTER, Q_SUDO_MASTER,
              Q_RUNNING
<1>3. q_now' = initial_state /\ ends' = ends /\ signals' = {}
  <2>1. /\ Rest(initial_state) = initial_state /\ Sent(initial_state) = {}
        /\ initial_state \in States /\ initial_state # Q_DONE
    BY <1>2, StateFacts DEF Rest, Sent, Q_TERM, Q_KILL, Q_DONE
  <2> HIDE DEF initial_state
  <2> QED BY <1>0, <1>1, <2>1, MoveFacts
<1>4. BaseTypeOK'
  BY <1>0, <1>1, <1>2, MoveFacts, StateFacts DEF BaseTypeOK
<1>5. ChildInv'
  BY <1>0, <1>1, <1>2, <1>3, StateFacts
     DEF BaseInv, ChildInv, PidIsOurs, DoneHasVerdict, ExitedIsReading, StateOfChild,
         Q_START, Q_EXITED, Q_TERM, Q_KILL, Q_DONE
<1>6. WriteEventsMatchOutput'
  BY <1>3 DEF BaseInv, ChannelInv, WriteEventsMatchOutput
<1>7. /\ ends.output["master"] = 0 /\ ends.output["stdin"] = 0
      /\ \A r \in Readers : ends.input[r] = {}
  BY DEF BaseInv, ChannelInv, StateOfChallenge, Q_START, Q_SUDO_STDIO
<1>8. ChallengesMet' /\ MasterPromptAnswered' /\ StateOfChallenge'
  BY <1>1, <1>2, <1>3, <1>7
     DEF ChallengesMet, MasterPromptAnswered, StateOfChallenge, Prompted, Writers,
         Readers, Q_START, Q_SSH_MASTER, Q_SUDO_MASTER, Q_SUDO_STDIO, Q_RUNNING
<1> QED BY <1>4, <1>5, <1>6, <1>8 DEF BaseInv, ChannelInv

LEMMA ClosePreserves ==
  ASSUME BaseInv, close
  PROVE  BaseInv'
<1>0. BaseTypeOK /\ ends \in EndsType
  BY DEF BaseInv, BaseTypeOK
<1>1. /\ ends' = Closed(ends) /\ timer' = NoTimer
      /\ UNCHANGED <<options, q_now, child_pid, status, reason, signals, thrown,
                     child, held, buf>>
  BY DEF close, world
<1>2. /\ ends' \in EndsType /\ Matched(ends') /\ ends'.input = ends.input
      /\ ends'.output = ends.output /\ ~ends'.sigchld /\ ~ends'.slave
  BY <1>0, <1>1, ClosedFacts
<1>3. BaseTypeOK'
  BY <1>0, <1>1, <1>2 DEF BaseTypeOK
<1>4. ChildInv'
  BY <1>1, <1>2 DEF BaseInv, ChildInv, PidIsOurs, DoneHasVerdict, ExitedIsReading,
                    StateOfChild
<1>5. ChannelInv'
  BY <1>1, <1>2 DEF BaseInv, ChannelInv, WriteEventsMatchOutput, Matched,
                    ChallengesMet, MasterPromptAnswered, StateOfChallenge
<1> QED BY <1>3, <1>4, <1>5 DEF BaseInv

\* Nothing the child or the kernel does on their own breaks the invariant.
LEMMA WorldPreserves ==
  ASSUME BaseInv,
         \/ ChildExecs \/ ChildExits \/ ExecFails
         \/ \E r \in Readers : \E kind \in Chunks[r] : ChildWrites(r, kind)
         \/ \E c \in Ends : ChildCloses(c)
  PROVE  BaseInv'
<1>0. BaseTypeOK
  BY DEF BaseInv
<1>1. UNCHANGED command
  BY DEF ChildExecs, ChildExits, ExecFails, ChildWrites, ChildCloses
<1>2. held' \in SUBSET Ends
  BY <1>0 DEF ChildExecs, ChildExits, ExecFails, ChildWrites, ChildCloses, BaseTypeOK
<1>3. buf' \in [Readers -> SUBSET Kinds]
  <2>1. CASE UNCHANGED buf
    BY <1>0, <2>1 DEF BaseTypeOK
  <2>2. ASSUME NEW r \in Readers, NEW kind \in Chunks[r], ChildWrites(r, kind)
        PROVE  buf' \in [Readers -> SUBSET Kinds]
    <3>1. Joined(buf[r], {kind}) \in SUBSET Kinds
      BY <1>0, ChunksAssumption DEF Joined, BaseTypeOK, Kinds
    <3> QED BY <1>0, <2>2, <3>1 DEF ChildWrites, BaseTypeOK
  <2> QED BY <2>1, <2>2 DEF ChildExecs, ChildExits, ExecFails, ChildCloses
<1>4. \/ UNCHANGED child
      \/ child \in {"forked", "running"} /\ child' \in {"running", "zombie"}
  BY DEF ChildExecs, ChildExits, ExecFails, ChildWrites, ChildCloses
<1>5. BaseTypeOK'
  BY <1>0, <1>1, <1>2, <1>3, <1>4 DEF BaseTypeOK, command
<1>6. ChildInv'
  BY <1>1, <1>4 DEF command, BaseInv, ChildInv, PidIsOurs, DoneHasVerdict,
                    ExitedIsReading, StateOfChild
<1>7. ChannelInv'
  BY <1>1 DEF command, BaseInv, ChannelInv, WriteEventsMatchOutput, ChallengesMet,
              MasterPromptAnswered, StateOfChallenge
<1> QED BY <1>5, <1>6, <1>7 DEF BaseInv

-----------------------------------------------------------------------------
(* What a handler can do, seen from outside *)

\* start_fsm enters the initial state, starts its timer, which may raise, and does
\* nothing else.
LEMMA StartFacts ==
  ASSUME BaseInv, q_now = Q_START, start_fsm
  PROVE  /\ q_now' = initial_state /\ initial_state \in {1, 2, 4}
         /\ ~thrown' => timer' = Started(q_now')
         /\ thrown' => MayRunOut /\ timer' \in {NoTimer, q_now'}
         /\ UNCHANGED <<ends, options, child_pid, status, reason, signals, child>>
<1>1. initial_state \in {1, 2, 4}
  BY DEF initial_state, Q_SSH_MASTER, Q_SUDO_MASTER, Q_RUNNING
<1>2. Rest(initial_state) = initial_state /\ Sent(initial_state) = {}
  BY <1>1 DEF Rest, Sent, Q_TERM, Q_KILL
<1>3. BaseTypeOK /\ ends \in EndsType /\ initial_state \in States
  BY <1>1, StateFacts DEF BaseInv, BaseTypeOK
<1>4. Move(initial_state, ends) /\ UNCHANGED <<options, child_pid, status, reason, child>>
  BY DEF start_fsm, world
<1>5. q_now' = initial_state /\ Entered(initial_state) /\ ends' = ends
  BY <1>1, <1>2, <1>4 DEF Move, Q_DONE
<1>6. /\ ~thrown' => timer' = TimerAfter(initial_state)
      /\ thrown' => MayRunOut /\ timer' \in {NoTimer, initial_state}
      /\ UNCHANGED signals
  <2>1. ~thrown
    BY StateFacts DEF BaseInv, ChildInv, StateOfChild, Q_START
  <2> QED BY <1>2, <1>3, <1>5, <2>1 DEF Entered, BaseTypeOK
<1>7. TimerAfter(initial_state) = Started(initial_state)
  BY <1>1, StateFacts DEF TimerAfter, Q_DONE
<1> QED BY <1>1, <1>4, <1>5, <1>6, <1>7

\* Nothing but the endpoints changes, and SIGCHLD events are not enabled.
Waits ==
  /\ UNCHANGED <<options, q_now, timer, signals, thrown, status, reason, child>>
  /\ ends'.sigchld => ends.sigchld
  /\ ends'.slave = ends.slave

\* The machine moves forward; a child that changes was reaped, and the verdict
\* is given once.
Advances ==
  /\ UNCHANGED options
  /\ q_now' \in States /\ q_now' > q_now
  /\ signals' \in {signals, signals \cup Sent(q_now')}
  /\ ~thrown' => timer' = TimerAfter(q_now') /\ signals' = signals \cup Sent(q_now')
  /\ thrown' => q_now' \in TimedStates /\ timer' \in {NoTimer, timer, q_now'}
  /\ ends'.sigchld => ends.sigchld
  /\ q_now' # Q_DONE => ends'.slave = ends.slave
  /\ q_now' = Q_DONE => ~Holding'
  /\ child' = child \/ (child' = "reaped" /\ reason' = reason)
  /\ status = "none" \/ status' = status
  /\ reason = "none" \/ reason' = reason

LEMMA MoveAdvances ==
  ASSUME BaseInv, ~thrown, NEW x \in EndsType, x.sigchld => ends.sigchld,
         x.slave = ends.slave, NEW p \in States, p > q_now, Move(p, x), UNCHANGED options,
         child' = child \/ (child' = "reaped" /\ reason' = reason),
         status = "none" \/ status' = status,
         reason = "none" \/ reason' = reason
  PROVE  Advances /\ q_now' \in {p, Q_DONE}
<1>1. q_now' = Rest(p) /\ Rest(p) \in States /\ Rest(p) > q_now /\ Rest(p) \in {p, Q_DONE}
  <2>1. q_now \in 0 .. 8 /\ p \in 0 .. 8
    BY StateFacts DEF BaseInv, BaseTypeOK
  <2> QED BY <2>1, StateFacts DEF Move, Rest, Q_TERM, Q_KILL, Q_DONE
<1>2. /\ signals' \in {signals, signals \cup Sent(q_now')}
      /\ ~thrown' => /\ timer' = TimerAfter(q_now')
                      /\ signals' = signals \cup Sent(q_now')
      /\ thrown' => q_now' \in TimedStates /\ timer' \in {NoTimer, timer, q_now'}
  BY MoveFacts DEF BaseInv
<1>3. ends' = x \/ ends' = Closed(x)
  BY DEF Move
<1>4. ends'.sigchld => ends.sigchld
  BY <1>3, ClosedFacts
<1>5. q_now' # Q_DONE => ends'.slave = ends.slave
  BY <1>1 DEF Move
<1>6. q_now' = Q_DONE => ~Holding'
  <2>1. SUFFICES ASSUME q_now' = Q_DONE PROVE ~Holding'
    OBVIOUS
  <2>2. ends' = Closed(x) /\ timer' = NoTimer
    <3>1. Sent(Q_DONE) = {} /\ TimerAfter(Q_DONE) = NoTimer
      BY StateFacts DEF Sent, TimerAfter, TimedStates, Q_TERM, Q_KILL, Q_DONE
    <3> QED BY <1>1, <1>2, <2>1, <3>1, StateFacts DEF Move, Q_DONE
  <2> QED BY <2>2 DEF Holding, Closed, EndsType
<1> QED BY <1>1, <1>2, <1>4, <1>5, <1>6 DEF Advances

\* The timer of a machine that moves on: never one of a state ahead, that of the
\* state entered where it is configured, and the one it had in EXITED alone.
LEMMA AdvanceTimer ==
  ASSUME BaseInv, ~thrown, Advances, timer <= q_now
  PROVE  /\ timer' <= q_now' /\ (q_now' = Q_DONE => timer' = NoTimer)
         /\ ~thrown' /\ q_now' \in TimedStates /\ Timeout(q_now') \in options'.timeouts =>
              timer' = q_now'
         /\ ~thrown' /\ timer # NoTimer /\ timer' = timer => q_now' < Q_TERM
<1>0. /\ q_now \in 0 .. 8 /\ q_now' \in 0 .. 8 /\ q_now' > q_now /\ timer \in 0 .. 7
      /\ q_now' = Q_DONE => timer' = NoTimer
  BY StateFacts DEF BaseInv, BaseTypeOK, Advances, Holding, NoTimer, Q_RUNNING, Q_TERM, Q_KILL
<1>1. CASE thrown'
  BY <1>0, <1>1 DEF Advances, NoTimer
<1>2. CASE ~thrown'
  <2>1. timer' = TimerAfter(q_now') /\ UNCHANGED options
    BY <1>2 DEF Advances
  <2>2. q_now' \in TimedStates => timer' = Started(q_now')
    BY <2>1, StateFacts DEF TimerAfter, Q_DONE
  <2>3. Started(q_now') \in {NoTimer, q_now'}
    BY DEF Started
  <2>4. q_now' \in TimedStates /\ Timeout(q_now') \in options'.timeouts =>
          Started(q_now') = q_now'
    BY <2>1 DEF Started
  <2>5. q_now' \notin TimedStates => timer' \in {NoTimer, timer} /\ q_now' \in {0, 5, 8}
    BY <1>0, <2>1, StateFacts DEF TimerAfter
  <2> QED BY <1>0, <2>2, <2>3, <2>4, <2>5 DEF NoTimer, Q_TERM, Q_DONE
<1> QED BY <1>1, <1>2

LEMMA ReadOutcome ==
  ASSUME BaseInv, NEW r \in Readers, read(r)
  PROVE  Waits
<1>1. Kept(AfterRead(r))
  BY ReadKept
<1> QED BY <1>1 DEF read, Stay, Waits, Kept

LEMMA WriteOutcome ==
  ASSUME BaseInv, NEW w \in Writers, write(w)
  PROVE  Waits
<1>1. ends \in EndsType
  BY DEF BaseInv, BaseTypeOK
<1>2. PICK x \in Written(ends, w, 0) : Stay(x)
  BY DEF write
<1>3. x.sigchld = ends.sigchld /\ x.slave = ends.slave
  BY <1>1, <1>2, WrittenFacts
<1> QED BY <1>2, <1>3 DEF write, world, Stay, Waits

LEMMA ChallengeOutcome ==
  ASSUME BaseInv, ~thrown, NEW r \in Readers, NEW w \in Writers, NEW q \in States,
         q > q_now, Challenge(r, w, q)
  PROVE  Waits \/ Advances
<1> DEFINE x == AfterRead(r)
<1>1. Kept(x)
  BY ReadKept
<1>2. /\ \/ Stay(x)
         \/ \E y \in Written(x, w, PasswordLength) : Move(q, y)
      /\ UNCHANGED <<options, child_pid, status, reason, child, held>>
  BY DEF Challenge
<1> HIDE DEF x
<1>3. CASE Stay(x)
  BY <1>1, <1>2, <1>3 DEF Stay, Waits, Kept
<1>4. ASSUME NEW y \in Written(x, w, PasswordLength), Move(q, y)
      PROVE  Advances
  <2>1. /\ x \in EndsType /\ PasswordLength \in Nat
        /\ x.sigchld => ends.sigchld
        /\ x.slave = ends.slave
    BY <1>1, PasswordAssumption DEF Kept
  <2>2. y \in EndsType /\ y.sigchld = x.sigchld /\ y.slave = x.slave
    BY <2>1, <1>4, WrittenFacts
  <2> QED BY <1>2, <1>4, <2>1, <2>2, MoveAdvances
<1> QED BY <1>2, <1>3, <1>4

LEMMA MasterReadOutcome ==
  ASSUME BaseInv, ~thrown, master_read
  PROVE  Waits \/ Advances
<1>0. /\ "master" \in Readers /\ "master" \in Writers /\ "stdout" \in Readers
      /\ "stdin" \in Writers
      /\ Q_SUDO_STDIO \in States /\ Q_RUNNING \in States
  BY StateFacts DEF Readers, Writers, Q_SUDO_STDIO, Q_RUNNING
<1>1. CASE q_now = Q_SSH_MASTER /\ ssh_password
  <2> DEFINE q == IF options.sudo THEN Q_SUDO_STDIO ELSE Q_RUNNING
  <2>1. Challenge("master", "master", q) /\ q \in States /\ q > q_now
    BY <1>0, <1>1 DEF ssh_password, Q_SSH_MASTER, Q_SUDO_STDIO, Q_RUNNING
  <2> HIDE DEF q
  <2> QED BY <1>0, <2>1, ChallengeOutcome
<1>2. CASE q_now \in {Q_SUDO_MASTER, Q_SUDO_STDIO} /\ sudo_password
  <2>1. Q_RUNNING > q_now
    BY <1>2 DEF Q_SUDO_MASTER, Q_SUDO_STDIO, Q_RUNNING
  <2>2. \/ Challenge("master", "master", Q_RUNNING)
        \/ Challenge("stdout", "stdin", Q_RUNNING)
    BY <1>2 DEF sudo_password
  <2> QED BY <1>0, <2>1, <2>2, ChallengeOutcome
<1>3. CASE read("master")
  BY <1>0, <1>3, ReadOutcome
<1> QED BY <1>1, <1>2, <1>3 DEF master_read

LEMMA ReapOutcome ==
  ASSUME BaseInv, ~thrown, q_now \in Active, q_now # Q_EXITED, reap_child
  PROVE  /\ Waits \/ Advances
         /\ child = "zombie" => child' = "reaped"
<1>1. CASE ~(child_pid /\ child = "zombie")
  <2>1. child # "zombie"
    BY <1>1 DEF BaseInv, ChildInv, PidIsOurs
  <2>2. Stay(ends) /\ UNCHANGED <<options, status, reason, child>>
    BY <1>1 DEF reap_child, world
  <2> QED BY <2>1, <2>2 DEF Stay, Waits
<1>2. CASE child_pid /\ child = "zombie"
  <2> DEFINE x == [ends EXCEPT !.sigchld = FALSE]
             p == IF "stdout" \notin ends.reading \/ q_now > Q_EXITED
                  THEN Q_DONE ELSE Q_EXITED
  <2>1. /\ child' = "reaped" /\ status' = "exit" /\ Move(p, x)
        /\ UNCHANGED <<options, reason>>
    BY <1>2 DEF reap_child
  <2>2. x \in EndsType /\ ~x.sigchld /\ x.slave = ends.slave
    BY DEF BaseInv, BaseTypeOK, EndsType
  <2>3. p \in States /\ p > q_now /\ status = "none"
    BY StateFacts DEF BaseInv, ChildInv, StateOfChild, Q_EXITED, Q_DONE
  <2> HIDE DEF x, p
  <2> QED BY <2>1, <2>2, <2>3, MoveAdvances
<1> QED BY <1>1, <1>2

LEMMA GiveUpOutcome ==
  ASSUME BaseInv, ~thrown, NEW why, NEW p \in States, p > q_now, Give_up(why, p),
         status = "none" \/ status' = status
  PROVE  Advances /\ q_now' \in {p, Q_DONE}
<1>1. ends \in EndsType
  BY DEF BaseInv, BaseTypeOK
<1>2. Move(p, ends) /\ UNCHANGED <<options, child>> /\ (reason = "none" \/ reason' = reason)
  BY DEF Give_up, world
<1> QED BY <1>1, <1>2, MoveAdvances

\* A timeout always leaves the state it finds, for TERM or one after it.
LEMMA TimeoutOutcome ==
  ASSUME BaseInv, ~thrown, q_now \in Active, timeout
  PROVE  Advances /\ q_now' >= Q_TERM
<1>0. /\ Q_TERM \in States /\ Q_KILL \in States /\ Q_DONE \in States
      /\ ends \in EndsType
  BY StateFacts DEF BaseInv, BaseTypeOK, Q_TERM, Q_KILL, Q_DONE
<1>1. CASE \/ q_now = Q_SSH_MASTER /\ ssh_timeout
           \/ q_now \in {Q_SUDO_MASTER, Q_SUDO_STDIO} /\ sudo_timeout
           \/ q_now = Q_RUNNING /\ run_timeout
  <2>1. Q_TERM > q_now
    BY <1>1 DEF Q_TERM, Q_RUNNING, Q_SSH_MASTER, Q_SUDO_MASTER, Q_SUDO_STDIO
  <2>2. /\ UNCHANGED status
        /\ \/ Give_up("SSH authentication timeout", Q_TERM)
           \/ Give_up("SUDO authentication timeout", Q_TERM)
           \/ Give_up("Command timeout", Q_TERM)
    BY <1>1 DEF ssh_timeout, sudo_timeout, run_timeout
  <2>3. Advances /\ q_now' \in {Q_TERM, Q_DONE}
    BY <1>0, <2>1, <2>2, GiveUpOutcome
  <2> QED BY <2>3 DEF Q_TERM, Q_DONE
<1>2. CASE q_now = Q_EXITED /\ no_close
  <2>1. reason = "none" /\ Q_DONE > q_now
    BY <1>2 DEF BaseInv, ChildInv, StateOfChild, Q_EXITED, Q_DONE
  <2>2. Move(Q_DONE, ends) /\ UNCHANGED <<options, status, child>>
    BY <1>2 DEF no_close, world
  <2> QED BY <1>0, <2>1, <2>2, MoveAdvances DEF Q_TERM, Q_KILL, Q_DONE
<1>3. CASE q_now = Q_TERM /\ term_failed
  <2>1. Move(Q_KILL, ends) /\ UNCHANGED <<options, status, reason, child>>
    BY <1>3 DEF term_failed, world
  <2>2. Q_KILL > q_now
    BY <1>3 DEF Q_TERM, Q_KILL
  <2> QED BY <1>0, <2>1, <2>2, MoveAdvances DEF Q_TERM, Q_KILL, Q_DONE
<1>4. CASE q_now = Q_KILL /\ kill_failed
  <2>1. /\ Give_up("Command did not terminate", Q_DONE)
        /\ status = "none" \/ status' = status
    BY <1>4 DEF kill_failed
  <2>2. Q_DONE > q_now
    BY <1>4 DEF Q_KILL, Q_DONE
  <2>3. Advances /\ q_now' \in {Q_DONE}
    BY <1>0, <2>1, <2>2, GiveUpOutcome
  <2> QED BY <2>3 DEF Q_TERM, Q_DONE
<1> QED BY <1>1, <1>2, <1>3, <1>4 DEF timeout

\* Every event either leaves the machine where it is or moves it forward; a
\* timeout moves it, and SIGCHLD reaps a child that can be reaped.
LEMMA HandleOutcome ==
  ASSUME BaseInv, ~thrown, NEW e \in Events, Handle(e)
  PROVE  /\ Waits \/ Advances
         /\ e = E_TIMEOUT /\ q_now \in Active => Advances /\ q_now' >= Q_TERM
         /\ e = E_SIGCHLD /\ q_now \in Active /\ child = "zombie" => child' = "reaped"
         /\ q_now \notin Active => UNCHANGED ends
<1>0. /\ "stdin" \in Writers /\ "master" \in Writers
      /\ "stdout" \in Readers /\ "stderr" \in Readers
  BY DEF Writers, Readers
<1>1. CASE ignore /\ q_now \notin Active
  BY <1>1 DEF ignore, Waits, command, world
<1>2. CASE /\ q_now \in Active
           /\ \/ e = E_STDIN_WRITE /\ write("stdin")
              \/ e = E_MASTER_WRITE /\ write("master")
  BY <1>0, <1>2, WriteOutcome DEF E_STDIN_WRITE, E_MASTER_WRITE, E_TIMEOUT, E_SIGCHLD
<1>3. CASE /\ q_now \in Active
           /\ \/ e = E_STDOUT_READ /\ read("stdout")
              \/ e = E_STDERR_READ /\ read("stderr")
  BY <1>0, <1>3, ReadOutcome DEF E_STDOUT_READ, E_STDERR_READ, E_TIMEOUT, E_SIGCHLD
<1>4. CASE /\ q_now \in Active
           /\ e = E_STDOUT_READ /\ q_now = Q_EXITED /\ check_stdout
  <2> DEFINE x == AfterRead("stdout")
  <2>1. Kept(x)
    BY <1>0, ReadKept
  <2>2. /\ Stay(x) \/ Move(Q_DONE, x)
        /\ UNCHANGED <<options, child_pid, status, reason, child>>
    BY <1>4 DEF check_stdout
  <2> HIDE DEF x
  <2>3. CASE Stay(x)
    BY <1>4, <2>1, <2>2, <2>3 DEF Stay, Waits, Kept, E_STDOUT_READ, E_TIMEOUT, E_SIGCHLD
  <2>4. CASE Move(Q_DONE, x)
    <3>1. Q_DONE \in States /\ Q_DONE > q_now
      BY <1>4, StateFacts DEF Q_EXITED, Q_DONE
    <3> QED BY <1>4, <2>1, <2>2, <2>4, <3>1, MoveAdvances
            DEF Kept, E_STDOUT_READ, E_TIMEOUT, E_SIGCHLD
  <2> QED BY <2>2, <2>3, <2>4
<1>5. CASE q_now \in Active /\ e = E_MASTER_READ /\ master_read
  BY <1>5, MasterReadOutcome DEF E_MASTER_READ, E_TIMEOUT, E_SIGCHLD
<1>6. CASE e = E_SIGCHLD /\ q_now \in Active /\ q_now # Q_EXITED /\ reap_child
  BY <1>6, ReapOutcome DEF E_TIMEOUT, E_SIGCHLD
<1>7. CASE e = E_SIGCHLD /\ q_now = Q_EXITED /\ ignore
  BY <1>7 DEF ignore, Waits, command, world, BaseInv, ChildInv, ExitedIsReading,
              E_TIMEOUT, E_SIGCHLD
<1>8. CASE e = E_TIMEOUT /\ q_now \in Active /\ timeout
  BY <1>8, TimeoutOutcome DEF E_TIMEOUT, E_SIGCHLD
<1>9. CASE /\ e = E_STOP /\ q_now \in Active /\ q_now \notin {Q_TERM, Q_KILL}
           /\ stop_command
  <2>1. /\ UNCHANGED status
        /\ \/ Give_up("Command canceled", Q_TERM) /\ child_pid
           \/ Give_up("Command canceled", Q_DONE)
    BY <1>9 DEF stop_command
  <2>2. /\ Q_TERM \in States /\ Q_DONE \in States /\ Q_DONE > q_now
        /\ child_pid => Q_TERM > q_now
    BY <1>9, StateFacts DEF BaseInv, ChildInv, PidIsOurs, ExitedIsReading,
                            Q_EXITED, Q_TERM, Q_KILL, Q_DONE
  <2>3. Advances
    BY <2>1, <2>2, GiveUpOutcome
  <2> QED BY <1>9, <2>3 DEF E_STOP, E_TIMEOUT, E_SIGCHLD
<1>10. CASE e = E_STOP /\ ignore
  BY <1>10 DEF ignore, Waits, command, world, E_STOP, E_TIMEOUT, E_SIGCHLD
<1> QED BY <1>1, <1>2, <1>3, <1>4, <1>5, <1>6, <1>7, <1>8, <1>9, <1>10 DEF Handle, ignore, command

-----------------------------------------------------------------------------
(* What a handler can do, seen through CommandContract *)

\* The fields of the verdict, by how far the machine has come.
PhaseFact ==
  /\ q_now \in 0 .. 8
  /\ q_now \in 1 .. 4 => /\ child_pid /\ status = "none" /\ reason = "none"
                         /\ signals = {} /\ Process = "unreaped"
  /\ q_now = 5 => /\ status = "exit" /\ reason = "none" /\ signals = {}
                  /\ Process = "reaped"
  /\ q_now = 6 => /\ status = "none" /\ reason # "none" /\ Process = "unreaped"
                  /\ signals \subseteq {"SIGTERM"} /\ (thrown \/ signals = {"SIGTERM"})
  /\ q_now = 7 => /\ status = "none" /\ reason # "none" /\ Process = "unreaped"
                  /\ "SIGTERM" \in signals
                  /\ signals \subseteq {"SIGTERM", "SIGKILL"}
                  /\ thrown \/ signals = {"SIGTERM", "SIGKILL"}
  /\ q_now = 8 => \/ Process = "reaped" /\ status = "exit"
                  \/ /\ status = "failed" /\ reason # "none" /\ Process # "reaped"
                     /\ signals = {"SIGTERM", "SIGKILL"}

LEMMA PhaseFacts == (BaseInv => PhaseFact) /\ (BaseInv' => PhaseFact')
<1>1. BaseInv => PhaseFact
  <2>1. BaseInv => /\ signals \subseteq {"SIGTERM", "SIGKILL"}
                   /\ q_now = 6 => /\ signals \subseteq {"SIGTERM"}
                                   /\ thrown \/ signals = {"SIGTERM"}
                   /\ q_now = 7 => /\ "SIGTERM" \in signals
                                   /\ thrown \/ signals = {"SIGTERM", "SIGKILL"}
    BY DEF BaseInv, BaseTypeOK, ChildInv, StateOfChild, Q_TERM, Q_KILL
  <2> QED BY <2>1, StateFacts DEF BaseInv, BaseTypeOK, ChildInv, PidIsOurs, DoneHasVerdict,
             ExitedIsReading, StateOfChild, PhaseFact, Process, Q_START, Q_RUNNING,
             Q_EXITED, Q_TERM, Q_KILL, Q_DONE
<1>2. BaseInv' => PhaseFact'
  <2>1. BaseInv' => /\ signals' \subseteq {"SIGTERM", "SIGKILL"}
                    /\ q_now' = 6 => /\ signals' \subseteq {"SIGTERM"}
                                     /\ thrown' \/ signals' = {"SIGTERM"}
                    /\ q_now' = 7 => /\ "SIGTERM" \in signals'
                                     /\ thrown' \/ signals' = {"SIGTERM", "SIGKILL"}
    BY DEF BaseInv, BaseTypeOK, ChildInv, StateOfChild, Q_TERM, Q_KILL
  <2> QED BY <2>1, StateFacts DEF BaseInv, BaseTypeOK, ChildInv, PidIsOurs, DoneHasVerdict,
             ExitedIsReading, StateOfChild, PhaseFact, Process, Q_START, Q_RUNNING,
             Q_EXITED, Q_TERM, Q_KILL, Q_DONE
<1> QED BY <1>1, <1>2

\* The moves of the machine are those of the contract: from the states before
\* EXITED among themselves, to EXITED, TERM or DONE; from EXITED to DONE; from
\* TERM to KILL or DONE; from KILL to DONE.
LEMMA AdvanceFacts ==
  ASSUME BaseInv, BaseInv', ~thrown, q_now \in Active, Advances
  PROVE  \/ /\ q_now \in 1 .. 4 /\ q_now' \in 1 .. 6
            /\ q_now' = 5 \/ Process' = Process
         \/ /\ q_now \in 1 .. 7 /\ q_now' = 8 /\ UNCHANGED signals
            /\ \/ /\ Process' = "reaped" /\ status' = "exit"
                  /\ q_now = 5 \/ reason' = reason
               \/ q_now = 7 /\ Process' = Process /\ status' = "failed"
         \/ q_now = 6 /\ q_now' = 7 /\ Process' = Process
<1>0. PhaseFact /\ PhaseFact'
  BY PhaseFacts
<1>1. /\ q_now \in 1 .. 7 /\ q_now' \in 0 .. 8 /\ q_now' > q_now
  BY <1>0, StateFacts DEF PhaseFact, Advances
<1>2. /\ child' = child \/ (child' = "reaped" /\ reason' = reason)
      /\ ~thrown' => signals' = signals \cup Sent(q_now')
      /\ thrown' => q_now' # 8
      /\ signals' \in {signals, signals \cup Sent(q_now')}
      /\ reason = "none" \/ reason' = reason
  BY StateFacts DEF Advances
<1>3. /\ Sent(6) = {"SIGTERM"} /\ Sent(7) = {"SIGKILL"} /\ Sent(8) = {}
  BY DEF Sent, Q_TERM, Q_KILL
<1>4. /\ Process' \in {Process, "reaped"}
      /\ Process' # Process => reason' = reason
  BY <1>2 DEF Process
<1>5. CASE q_now' \in 1 .. 6
  <2>1. q_now \in 1 .. 4
    BY <1>0, <1>1, <1>2, <1>3, <1>4, <1>5 DEF PhaseFact
  <2> QED BY <1>0, <1>4, <1>5, <2>1 DEF PhaseFact
<1>6. CASE q_now' = 7
  <2>1. q_now = 6
    BY <1>0, <1>1, <1>2, <1>3, <1>4, <1>6 DEF PhaseFact
  <2> QED BY <1>0, <1>4, <1>6, <2>1 DEF PhaseFact
<1>7. CASE q_now' = 8
  BY <1>0, <1>1, <1>2, <1>3, <1>4, <1>7 DEF PhaseFact
<1> QED BY <1>1, <1>5, <1>6, <1>7

-----------------------------------------------------------------------------
(* What a handler can do, seen through EndpointContract *)

\* Ends are closed, and the write events with them.
Shrinks(x, y) ==
  /\ y.reading \subseteq x.reading /\ y.writing \subseteq x.writing
  /\ y.armed = x.armed \cap y.writing
  /\ y.output = x.output

\* A call of write() on w, which may come with the end of some input.
Writes(x, y, w) ==
  /\ y.reading \subseteq x.reading
  /\ y.output[w] \in Nat /\ y.output = [x.output EXCEPT ![w] = y.output[w]]
  /\ \/ /\ w \in x.writing /\ y.writing = x.writing
        /\ y.armed = IF y.output[w] = 0 THEN x.armed \ {w} ELSE x.armed \cup {w}
     \/ /\ y.output[w] >= x.output[w]
        /\ y.armed = x.armed \ {w} /\ y.writing = x.writing \ {w}

EndsMove(x, y) == Shrinks(x, y) \/ \E w \in Writers : Writes(x, y, w)

LEMMA WrittenWrites ==
  ASSUME NEW x \in EndsType, Matched(x), NEW w \in Writers, NEW n \in Nat,
         NEW y \in Written(x, w, n)
  PROVE  Writes(x, y, w)
<1> DEFINE total == x.output[w] + n
           kept == [x EXCEPT !.output[w] = total]
           some(left) == [x EXCEPT !.output[w] = left,
                            !.armed = IF left = 0 THEN @ \ {w} ELSE @ \cup {w}]
<1>0. /\ total \in Nat /\ x.output[w] \in Nat /\ total >= x.output[w]
      /\ x.output \in [Writers -> Nat] /\ (w \notin x.writing => w \notin x.armed)
  BY DEF EndsType, Matched
<1>1. CASE total = 0
  <2>1. y = [x EXCEPT !.armed = @ \ {w}]
    BY <1>1 DEF Written
  <2>2. x.output[w] = 0 /\ x.output = [x.output EXCEPT ![w] = 0]
    <3>1. x.output[w] = 0
      BY <1>0, <1>1
    <3> QED BY <1>0, <3>1
  <2>3. /\ y.reading = x.reading /\ y.writing = x.writing /\ y.armed = x.armed \ {w}
        /\ y.output = x.output
    BY <2>1 DEF EndsType
  <2> HIDE DEF total
  <2> QED BY <1>0, <2>2, <2>3 DEF Writes
<1>2. CASE total # 0 /\ w \notin x.writing
  <2>1. y = kept
    BY <1>2 DEF Written
  <2>2. /\ y.reading = x.reading /\ y.writing = x.writing /\ y.armed = x.armed
        /\ y.output = [x.output EXCEPT ![w] = total] /\ y.output[w] = total
    BY <1>0, <2>1 DEF EndsType
  <2>3. x.armed = x.armed \ {w} /\ x.writing = x.writing \ {w}
    BY <1>0, <1>2
  <2> QED BY <1>0, <2>2, <2>3 DEF Writes
<1>3. CASE total # 0 /\ w \in x.writing /\ w = "stdin" /\ w \notin held
  <2>1. y = [kept EXCEPT !.writing = @ \ {w}, !.armed = @ \ {w}]
    BY <1>3 DEF Written
  <2>2. /\ y.reading = x.reading /\ y.writing = x.writing \ {w} /\ y.armed = x.armed \ {w}
        /\ y.output = [x.output EXCEPT ![w] = total] /\ y.output[w] = total
    BY <1>0, <2>1 DEF EndsType
  <2> QED BY <1>0, <2>2 DEF Writes
<1>4. CASE total # 0 /\ w \in x.writing /\ ~(w = "stdin" /\ w \notin held)
  <2>1. PICK left \in 0 .. total : y = some(left)
    BY <1>4 DEF Written
  <2>2. /\ left \in Nat /\ y.reading = x.reading /\ y.writing = x.writing
        /\ y.armed = IF left = 0 THEN x.armed \ {w} ELSE x.armed \cup {w}
        /\ y.output = [x.output EXCEPT ![w] = left] /\ y.output[w] = left
    BY <1>0, <2>1 DEF EndsType
  <2> QED BY <1>4, <2>2 DEF Writes
<1> QED BY <1>1, <1>2, <1>3, <1>4

\* Reading closes at most the reader.
LEMMA ReadShrinks ==
  ASSUME BaseInv, NEW r \in Readers
  PROVE  /\ AfterRead(r) \in EndsType /\ Matched(AfterRead(r))
         /\ Shrinks(ends, AfterRead(r)) /\ Shrinks(ends, ends)
         /\ UNCHANGED ends => Shrinks(ends, ends')
<1>1. /\ BaseTypeOK /\ ends.armed \subseteq ends.writing
  BY DEF BaseInv, BaseTypeOK, EndsType, ChannelInv, WriteEventsMatchOutput
<1>2. AfterRead(r) \in EndsType /\ Matched(AfterRead(r))
  BY ReadKept DEF Kept
<1>3. Shrinks(ends, ends)
  BY <1>1 DEF Shrinks
<1>4. AfterRead(r).reading \subseteq ends.reading
  BY <1>1 DEF AfterRead, BaseTypeOK, EndsType
<1> QED BY <1>1, <1>2, <1>3, <1>4, AfterReadFacts DEF Shrinks

LEMMA ClosedShrinks ==
  ASSUME NEW x \in EndsType, NEW y \in EndsType, Shrinks(x, y)
  PROVE  Shrinks(x, Closed(y))
  BY DEF Shrinks, Closed, EndsType

\* A move leaves the ends as the action did, or closes them.
LEMMA MoveShrinks ==
  ASSUME BaseInv, NEW x \in EndsType, Shrinks(ends, x), NEW p, Stay(x) \/ Move(p, x)
  PROVE  Shrinks(ends, ends')
<1>1. ends \in EndsType /\ (ends' = x \/ ends' = Closed(x))
  BY DEF BaseInv, BaseTypeOK, Stay, Move
<1> QED BY <1>1, ClosedShrinks

LEMMA ChallengeMoves ==
  ASSUME BaseInv, NEW r \in Readers, NEW w \in Writers,
         NEW q \in {Q_SUDO_STDIO, Q_RUNNING}, Challenge(r, w, q)
  PROVE  EndsMove(ends, ends')
<1> DEFINE x == AfterRead(r)
<1>1. x \in EndsType /\ Matched(x) /\ Shrinks(ends, x) /\ PasswordLength \in Nat
  BY ReadShrinks, PasswordAssumption
<1>2. Stay(x) \/ \E y \in Written(x, w, PasswordLength) : Move(q, y)
  BY DEF Challenge
<1>3. x.writing = ends.writing /\ x.armed = ends.armed /\ x.output = ends.output
  BY AfterReadFacts DEF BaseInv
<1> HIDE DEF x
<1>4. CASE Stay(x)
  BY <1>1, <1>4, MoveShrinks DEF EndsMove
<1>5. ASSUME NEW y \in Written(x, w, PasswordLength), Move(q, y)
      PROVE  EndsMove(ends, ends')
  <2>1. ends' = y
    BY <1>5 DEF Move, Rest, Q_SUDO_STDIO, Q_RUNNING, Q_TERM, Q_KILL, Q_DONE
  <2>2. Writes(x, y, w)
    BY <1>1, <1>5, WrittenWrites
  <2>3. Writes(ends, y, w)
    BY <1>1, <1>3, <2>2 DEF Writes, Shrinks
  <2> QED BY <2>1, <2>3 DEF EndsMove
<1> QED BY <1>2, <1>4, <1>5

\* Every event does to the ends what EndpointContract allows.
LEMMA HandleEnds ==
  ASSUME BaseInv, NEW e \in Events, Handle(e)
  PROVE  EndsMove(ends, ends')
<1>0. /\ "stdin" \in Writers /\ "master" \in Writers
      /\ "stdout" \in Readers /\ "stderr" \in Readers /\ "master" \in Readers
  BY DEF Writers, Readers
<1>1. /\ ends \in EndsType /\ Matched(ends) /\ Shrinks(ends, ends)
      /\ UNCHANGED ends => EndsMove(ends, ends')
  BY <1>0, ReadShrinks DEF EndsMove, BaseInv, BaseTypeOK, ChannelInv, WriteEventsMatchOutput,
                           Matched
<1>2. CASE ignore
  BY <1>1, <1>2 DEF ignore, command
<1>3. ASSUME NEW r \in Readers, read(r) \/ (r = "stdout" /\ check_stdout)
      PROVE  EndsMove(ends, ends')
  <2>1. Stay(AfterRead(r)) \/ Move(Q_DONE, AfterRead(r))
    BY <1>3 DEF read, check_stdout
  <2> QED BY <2>1, ReadShrinks, MoveShrinks DEF EndsMove
<1>4. ASSUME NEW w \in Writers, write(w)
      PROVE  EndsMove(ends, ends')
  BY <1>1, <1>4, WrittenWrites DEF write, Stay, EndsMove
<1>5. ASSUME NEW x \in EndsType, Shrinks(ends, x), NEW p, Move(p, x)
      PROVE  EndsMove(ends, ends')
  BY <1>5, MoveShrinks DEF EndsMove
<1>6. CASE master_read
  <2>1. \/ read("master")
        \/ \E q \in {Q_SUDO_STDIO, Q_RUNNING} :
             Challenge("master", "master", q) \/ Challenge("stdout", "stdin", q)
    BY <1>6 DEF master_read, ssh_password, sudo_password
  <2> QED BY <1>0, <1>3, <2>1, ChallengeMoves
<1>7. CASE reap_child
  <2> DEFINE x == [ends EXCEPT !.sigchld = FALSE]
  <2>1. x \in EndsType /\ Shrinks(ends, x)
    BY <1>1 DEF Shrinks, EndsType
  <2>2. Stay(ends) \/ \E p \in {Q_EXITED, Q_DONE} : Move(p, x)
    BY <1>7 DEF reap_child
  <2> HIDE DEF x
  <2> QED BY <1>1, <1>5, <2>1, <2>2 DEF Stay
<1>8. CASE timeout \/ stop_command
  <2>1. \E p \in {Q_TERM, Q_KILL, Q_DONE} : Move(p, ends)
    BY <1>8 DEF timeout, stop_command, ssh_timeout, sudo_timeout, run_timeout, no_close,
                term_failed, kill_failed, Give_up
  <2> QED BY <1>1, <1>5, <2>1
<1> QED BY <1>0, <1>2, <1>3, <1>4, <1>6, <1>7, <1>8 DEF Handle
=============================================================================
