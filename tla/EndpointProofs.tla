--------------------------- MODULE EndpointProofs ---------------------------
(***************************************************************************)
(* What holds of an endpoint for every table of descriptors, every amount  *)
(* of data and every nesting of callbacks.                                 *)
(***************************************************************************)
EXTENDS Endpoint, SequenceTheorems, TLAPS

LEMMA NoneIsNoFd == None \notin Fds
  BY FdsAssumption DEF None

-----------------------------------------------------------------------------
(* The descriptors *)

\* Closing the writer leaves no trace of it in the loop.
LEMMA WriterClosed ==
  ASSUME EndsInv, writer_closed
  PROVE  /\ writer' \in Fds \cup {None}
         /\ writer' # None => writer' = writer /\ writer \notin Closes(writer)
         /\ writer_key' # None => writer_key' = writer' /\ True(writer')
         /\ writers' = {writer_key'} \ {None}
<1>1. CASE True(writer)
  <2>1. Watched(writer, writer_key) = writers
    BY <1>1 DEF EndsInv, Watched
  <2>2. writers' = {} /\ writer_key' = None /\ writer' = None
    BY <1>1, <2>1 DEF EndsInv, writer_closed, unregister_write
  <2> QED BY <2>2
<1>2. CASE ~True(writer)
  BY <1>2 DEF EndsInv, writer_closed, Closes
<1> QED BY <1>1, <1>2

\* The same for the reader.
LEMMA ReaderClosed ==
  ASSUME EndsInv, reader_closed
  PROVE  /\ reader' \in Fds \cup {None}
         /\ reader' # None => reader' = reader /\ reader \notin Closes(reader)
         /\ reader_key' # None => reader_key' = reader' /\ True(reader')
         /\ readers' = {reader_key'} \ {None}
<1>1. CASE True(reader)
  <2>1. Watched(reader, reader_key) = readers
    BY <1>1 DEF EndsInv, Watched
  <2>2. readers' = {} /\ reader_key' = None /\ reader' = None
    BY <1>1, <2>1 DEF EndsInv, reader_closed
  <2> QED BY <2>2
<1>2. CASE ~True(reader)
  BY <1>2 DEF EndsInv, reader_closed, Closes
<1> QED BY <1>1, <1>2

LEMMA ReadOnlyKeeps ==
  ASSUME EndsInv, read_only, loop' = loop
  PROVE  EndsInv'
<1>1. writer_closed
  BY DEF read_only
<1>2. /\ writer' \in Fds \cup {None}
      /\ writer' # None => writer' = writer /\ writer \notin Closes(writer)
      /\ writer_key' # None => writer_key' = writer' /\ True(writer')
      /\ writers' = {writer_key'} \ {None}
  BY <1>1, WriterClosed
<1>3. NumbersAreOurs'
  BY <1>2, NoneIsNoFd DEF EndsInv, read_only, NumbersAreOurs, Shut, Closes, True
<1> QED BY <1>2, <1>3 DEF EndsInv, read_only, Shut, True

LEMMA WriteOnlyKeeps ==
  ASSUME EndsInv, write_only, loop' = loop
  PROVE  EndsInv'
<1>1. reader_closed
  BY DEF write_only
<1>2. /\ reader' \in Fds \cup {None}
      /\ reader' # None => reader' = reader /\ reader \notin Closes(reader)
      /\ reader_key' # None => reader_key' = reader' /\ True(reader')
      /\ readers' = {reader_key'} \ {None}
  BY <1>1, ReaderClosed
<1>3. NumbersAreOurs'
  BY <1>2, NoneIsNoFd DEF EndsInv, write_only, NumbersAreOurs, Shut, Closes, True
<1> QED BY <1>2, <1>3 DEF EndsInv, write_only, Shut, True

LEMMA CloseKeeps ==
  ASSUME EndsInv, Close
  PROVE  EndsInv'
<1>1. writer_closed /\ reader_closed
  BY DEF Close
<1>2. /\ writer' \in Fds \cup {None}
      /\ writer' # None => writer' = writer /\ writer \notin Closes(writer)
      /\ writer_key' # None => writer_key' = writer' /\ True(writer')
      /\ writers' = {writer_key'} \ {None}
  BY <1>1, WriterClosed
<1>3. /\ reader' \in Fds \cup {None}
      /\ reader' # None => reader' = reader /\ reader \notin Closes(reader)
      /\ reader_key' # None => reader_key' = reader' /\ True(reader')
      /\ readers' = {reader_key'} \ {None}
  BY <1>1, ReaderClosed
<1>4. NumbersAreOurs'
  BY <1>2, <1>3, NoneIsNoFd DEF EndsInv, Close, NumbersAreOurs, Shut, Closes, True
<1> QED BY <1>2, <1>3, <1>4 DEF EndsInv, Close, Shut, True

\* The write event after a write() that did not fail.
LEMMA EventKeeps ==
  ASSUME EndsInv, unregister_write \/ register_write, UNCHANGED <<loop, reader, writer,
         reader_key, table, readers>>
  PROVE  EndsInv'
<1>1. CASE unregister_write
  <2>1. Watched(writer, writer_key) = writers
    BY DEF EndsInv, Watched
  <2>2. writers' = {} /\ writer_key' = None
    BY <1>1, <2>1 DEF EndsInv, unregister_write
  <2> QED BY <2>2 DEF EndsInv, NumbersAreOurs, True
<1>2. CASE register_write
  BY <1>2 DEF EndsInv, register_write, NumbersAreOurs, True
<1> QED BY <1>1, <1>2

LEMMA EndsInit == Init => EndsInv
  BY NoneIsNoFd DEF Init, EndsInv, NumbersAreOurs

LEMMA EndsStep == EndsInv /\ [Next]_vars => EndsInv'
<1> SUFFICES ASSUME EndsInv, [Next]_vars
             PROVE  EndsInv'
  OBVIOUS
<1>1. CASE UNCHANGED <<loop, ends>>
  BY <1>1 DEF EndsInv, ends, NumbersAreOurs, True
<1>2. CASE WriteNothing
  BY <1>2, EventKeeps DEF WriteNothing
<1>3. CASE \E new \in 0 .. Output - given : Write(new)
  BY <1>3, EventKeeps DEF Write, event_after
<1>4. CASE RegisterRead
  BY <1>4 DEF RegisterRead, register_read, EndsInv, NumbersAreOurs, True
<1>5. CASE ReadOnly
  BY <1>5, ReadOnlyKeeps DEF ReadOnly
<1>6. CASE WriteOnly
  BY <1>6, WriteOnlyKeeps DEF WriteOnly
<1>7. CASE Close
  BY <1>7, CloseKeeps
<1>8. CASE Return
  <2>1. (read_only \/ write_only \/ UNCHANGED ends) /\ loop' = loop
    BY <1>8 DEF Return
  <2> QED BY <1>1, <2>1, ReadOnlyKeeps, WriteOnlyKeeps
<1>9. CASE \E n \in Fds : Elsewhere(n)
  BY <1>9 DEF Elsewhere, EndsInv, NumbersAreOurs, True
<1>10. CASE \/ Read \/ ReadEof \/ FetchInput \/ Send \/ Hangup \/ Take \/ Break
            \/ \E new \in 0 .. Output - given : WriteError(new)
  BY <1>1, <1>10 DEF Read, ReadEof, FetchInput, Send, Hangup, Take, Break, WriteError
<1>11. CASE UNCHANGED vars
  BY <1>1, <1>11 DEF vars
<1> QED BY <1>2, <1>3, <1>4, <1>5, <1>6, <1>7, <1>8, <1>9, <1>10, <1>11 DEF Next

\* The endpoint never uses a number it has closed: whatever a callback closes, and
\* whoever is given the number next.
THEOREM NumbersCorrect == Spec => []NumbersAreOurs
<1>1. EndsInv => NumbersAreOurs
  BY DEF EndsInv
<1> QED BY <1>1, EndsInit, EndsStep, PTL DEF Spec

\* The loop watches no number the endpoint has closed, in either class.
THEOREM WatchedCorrect == Spec => []WatchedAreOurs
<1>1. EndsInv => WatchedAreOurs
  BY DEF EndsInv, NumbersAreOurs, WatchedAreOurs
<1> QED BY <1>1, EndsInit, EndsStep, PTL DEF Spec

-----------------------------------------------------------------------------
(* The write event *)

\* A closed writer, or one with number 0, is not watched.
LEMMA ClosedNotWatched ==
  ASSUME EndsInv, writer_closed
  PROVE  writers' = {} /\ ~True(writer')
  BY WriterClosed DEF Closes, True

LEMMA PendingStep ==
  ASSUME EndsInv, WriteEventWhilePending, [Next]_vars
  PROVE  WriteEventWhilePending'
<1> DEFINE Same == UNCHANGED <<writer, writers, output_data, write_errno>>
<1>1. CASE Same
  BY <1>1 DEF WriteEventWhilePending, True
<1>2. CASE WriteNothing
  <2>1. Watched(writer, writer_key) = writers
    BY DEF EndsInv, Watched
  <2>2. writers' = {} /\ output_data' = <<>>
    BY <1>2, <2>1 DEF WriteNothing, unregister_write, outgoing
  <2> QED BY <2>2 DEF WriteEventWhilePending
<1>3. ASSUME NEW new \in 0 .. Output - given, Write(new)
      PROVE  WriteEventWhilePending'
  <2>1. PICK n \in 0 .. Len(output_data \o New(new)) : event_after(n, output_data')
    BY <1>3 DEF Write
  <2>2. CASE output_data' = <<>>
    <3>1. Watched(writer, writer_key) = writers
      BY DEF EndsInv, Watched
    <3>2. writers' = {}
      BY <2>1, <2>2, <3>1 DEF event_after, unregister_write
    <3> QED BY <2>2, <3>2 DEF WriteEventWhilePending
  <2>3. CASE output_data' # <<>>
    <3>1. register_write /\ writer' = writer
      BY <1>3, <2>1, <2>3 DEF event_after, Write
    <3>2. True(writer) => writers' # {}
      BY <3>1 DEF register_write, EndsInv, True
    <3> QED BY <2>3, <3>1, <3>2 DEF WriteEventWhilePending, True
  <2> QED BY <2>2, <2>3
<1>4. CASE \E new \in 0 .. Output - given : WriteError(new)
  BY <1>4 DEF WriteError, WriteEventWhilePending, ends
<1>5. CASE ReadOnly \/ Close
  <2>1. writer_closed
    BY <1>5 DEF ReadOnly, read_only, Close
  <2> QED BY <2>1, ClosedNotWatched DEF WriteEventWhilePending
<1>6. CASE Return
  <2>1. CASE read_only
    <3>1. writer_closed
      BY <2>1 DEF read_only
    <3> QED BY <3>1, ClosedNotWatched DEF WriteEventWhilePending
  <2>2. CASE write_only \/ UNCHANGED ends
    BY <1>1, <1>6, <2>2 DEF Return, write_only, ends, outgoing
  <2> QED BY <1>6, <2>1, <2>2 DEF Return
<1>7. CASE Read \/ ReadEof \/ RegisterRead \/ FetchInput \/ WriteOnly
  BY <1>1, <1>7 DEF Read, ReadEof, RegisterRead, FetchInput, WriteOnly, write_only, ends,
                    outgoing
<1>8. CASE Send \/ Hangup \/ Take \/ Break \/ UNCHANGED vars
  BY <1>1, <1>8 DEF Send, Hangup, Take, Break, vars, ends, outgoing
<1>9. CASE \E n \in Fds : Elsewhere(n)
  BY <1>1, <1>9 DEF Elsewhere, outgoing
<1> QED BY <1>2, <1>3, <1>4, <1>5, <1>6, <1>7, <1>8, <1>9 DEF Next

\* Waiting output has its write event, and the event ends with it, so that the loop
\* neither forgets output nor spins on a writer with nothing to write.
THEOREM WriteEventCorrect == Spec => []WriteEventWhilePending
<1>1. Init => WriteEventWhilePending
  BY DEF Init, WriteEventWhilePending
<1>2. EndsInv /\ WriteEventWhilePending /\ [Next]_vars => WriteEventWhilePending'
  BY PendingStep
<1> QED BY <1>1, <1>2, EndsInit, EndsStep, PTL DEF Spec

-----------------------------------------------------------------------------
(* The callbacks *)

Running(from) == \E k \in DOMAIN calls : calls[k].from = from

\* A call from inside a callback leaves the callbacks as they are.
LEMMA SpentFacts ==
  ASSUME calls \in Seq(Frames)
  PROVE  /\ Spent \in Seq(Frames) /\ DOMAIN Spent = DOMAIN calls
         /\ Len(Spent) = Len(calls)
         /\ \A k \in DOMAIN calls : Spent[k].from = calls[k].from
<1>1. CASE calls = <<>>
  BY <1>1 DEF Spent
<1>2. CASE calls # <<>>
  <2>1. /\ Len(calls) \in 1 .. Len(calls) /\ DOMAIN calls = 1 .. Len(calls)
        /\ calls[Len(calls)] \in Frames
    BY <1>2, EmptySeq, LenProperties, ElementOfSeq
  <2>2. Spent = [calls EXCEPT ![Len(calls)] = [calls[Len(calls)] EXCEPT !.spent = TRUE]]
    BY <1>2 DEF Spent
  <2>3. /\ [calls[Len(calls)] EXCEPT !.spent = TRUE] \in Frames
        /\ [calls[Len(calls)] EXCEPT !.spent = TRUE].from = calls[Len(calls)].from
    BY <2>1 DEF Frames
  <2>4. Spent \in Seq(Frames) /\ Len(Spent) = Len(calls)
    BY <2>1, <2>2, <2>3, ExceptSeq
  <2> QED BY <2>1, <2>2, <2>3, <2>4, LenProperties
<1> QED BY <1>1, <1>2

LEMMA CallsSpent ==
  ASSUME calls \in Seq(Frames), calls' = Spent, NEW from
  PROVE  calls' \in Seq(Frames) /\ (Running(from) => Running(from)')
  BY SpentFacts DEF Running

LEMMA CallsCalling ==
  ASSUME calls \in Seq(Frames), NEW new \in {"data", "eof", "error"}, Calling(new), NEW from
  PROVE  /\ calls' \in Seq(Frames)
         /\ Running(from) => Running(from)'
         /\ Running(new)'
<1> DEFINE frame == [from |-> new, spent |-> FALSE]
<1>1. frame \in Frames /\ frame.from = new
  BY DEF Frames
<1>2. Spent \in Seq(Frames) /\ calls' = Append(Spent, frame)
  BY SpentFacts DEF Calling
<1> HIDE DEF frame
<1>3. /\ calls' \in Seq(Frames) /\ DOMAIN calls' = 1 .. Len(Spent) + 1
      /\ DOMAIN Spent = 1 .. Len(Spent) /\ Len(Spent) \in Nat
      /\ \A k \in 1 .. Len(Spent) : calls'[k] = Spent[k]
      /\ calls'[Len(Spent) + 1] = frame
  BY <1>1, <1>2, AppendProperties, LenProperties
<1>4. Running(from) => Running(from)'
  BY <1>3, SpentFacts DEF Running
<1>5. Running(new)'
  BY <1>1, <1>3 DEF Running
<1> QED BY <1>3, <1>4, <1>5

LEMMA CallsReturn ==
  ASSUME calls \in Seq(Frames), calls # <<>>, calls' = Front(calls), NEW from,
         Running(from), Last(calls).from # from
  PROVE  Running(from)'
<1>1. Len(calls) \in Nat \ {0} /\ DOMAIN calls = 1 .. Len(calls)
  BY EmptySeq, LenProperties
<1>2. /\ DOMAIN calls' = 1 .. Len(calls) - 1
      /\ \A k \in 1 .. Len(calls) - 1 : calls'[k] = calls[k]
  BY <1>1 DEF Front
<1>3. PICK k \in 1 .. Len(calls) : calls[k].from = from
  BY <1>1 DEF Running
<1>4. k \in 1 .. Len(calls) - 1
  BY <1>1, <1>3 DEF Last
<1> QED BY <1>2, <1>3, <1>4 DEF Running

LEMMA FailedStep ==
  ASSUME FailedInv, [Next]_vars
  PROVE  FailedInv'
<1> USE DEF FailedInv
<1>0. /\ calls \in Seq(Frames)
      /\ read_errno => reader \in {None, 0} \/ Running("eof")
      /\ write_errno => writer \in {None, 0} \/ Running("error")
  BY DEF Running
<1> SUFFICES /\ calls' \in Seq(Frames)
             /\ read_errno' => reader' \in {None, 0} \/ Running("eof")'
             /\ write_errno' => writer' \in {None, 0} \/ Running("error")'
  BY DEF Running
<1> HIDE DEF FailedInv
<1>1. ASSUME UNCHANGED <<read_errno, write_errno, calls>>, reader' \in {reader, None},
             writer' \in {writer, None}
      PROVE  /\ calls' \in Seq(Frames)
             /\ read_errno' => reader' \in {None, 0} \/ Running("eof")'
             /\ write_errno' => writer' \in {None, 0} \/ Running("error")'
  BY <1>0, <1>1 DEF Running
<1>2. ASSUME UNCHANGED <<read_errno, write_errno>>, calls' = Spent,
             reader' \in {reader, None}, writer' \in {writer, None}
      PROVE  /\ calls' \in Seq(Frames)
             /\ read_errno' => reader' \in {None, 0} \/ Running("eof")'
             /\ write_errno' => writer' \in {None, 0} \/ Running("error")'
  BY <1>0, <1>2, CallsSpent
<1>3. CASE WriteNothing \/ RegisterRead \/ FetchInput
  BY <1>2, <1>3 DEF WriteNothing, RegisterRead, FetchInput, incoming, outgoing, ends
<1>4. CASE \E new \in 0 .. Output - given : Write(new)
  BY <1>2, <1>4 DEF Write, incoming
<1>5. CASE ReadOnly \/ WriteOnly \/ Close
  BY <1>2, <1>5 DEF ReadOnly, WriteOnly, Close, read_only, write_only, writer_closed,
                    reader_closed, incoming, outgoing
<1>6. CASE Read
  <2>1. Calling("data") /\ UNCHANGED <<reader, writer, read_errno, write_errno>>
    BY <1>6 DEF Read, ends, outgoing
  <2> QED BY <1>0, <2>1, CallsCalling
<1>7. CASE ReadEof
  <2>1. Calling("eof") /\ UNCHANGED <<reader, writer, write_errno>>
    BY <1>7 DEF ReadEof, ends, outgoing
  <2> QED BY <1>0, <2>1, CallsCalling
<1>8. CASE \E new \in 0 .. Output - given : WriteError(new)
  <2>1. Calling("error") /\ UNCHANGED <<reader, writer, read_errno>>
    BY <1>8 DEF WriteError, ends, incoming
  <2> QED BY <1>0, <2>1, CallsCalling
<1>9. CASE Return
  <2>1. /\ calls # <<>> /\ calls' = Front(calls) /\ UNCHANGED <<read_errno, write_errno>>
        /\ reader' \in {reader, None} /\ writer' \in {writer, None}
        /\ Last(calls).from = "eof" => reader' \in {None, 0}
        /\ Last(calls).from = "error" => writer' \in {None, 0}
    BY <1>9 DEF Return, read_only, write_only, reader_closed, writer_closed, ends, incoming,
                outgoing, True
  <2>2. calls' \in Seq(Frames)
    <3>1. Len(calls) \in Nat /\ \A i \in 1 .. Len(calls) - 1 : calls[i] \in Frames
      BY <1>0, LenProperties, ElementOfSeq
    <3> QED BY <2>1, <3>1, SubSeqProperties DEF Front
  <2> QED BY <1>0, <2>1, <2>2, CallsReturn
<1>10. CASE Send \/ Hangup \/ Take \/ Break \/ UNCHANGED vars
  BY <1>1, <1>10 DEF Send, Hangup, Take, Break, vars, ends, incoming, outgoing
<1>11. CASE \E n \in Fds : Elsewhere(n)
  BY <1>1, <1>11 DEF Elsewhere, incoming, outgoing
<1> QED BY <1>3, <1>4, <1>5, <1>6, <1>7, <1>8, <1>9, <1>10, <1>11 DEF Next

\* However deep the callbacks call read() and write() again, an end that failed is
\* closed once they have returned.
THEOREM FailedCorrect == Spec => []FailedIsClosed
<1>1. Init => FailedInv
  BY EmptySeq DEF Init, FailedInv
<1>2. FailedInv /\ [Next]_vars => FailedInv'
  BY FailedStep
<1>3. FailedInv => FailedIsClosed
  BY DEF FailedInv, FailedIsClosed
<1> QED BY <1>1, <1>2, <1>3, PTL DEF Spec

-----------------------------------------------------------------------------
(* The bytes *)

Numbers(n) == [k \in 1 .. n |-> k]

\* A sequence is what is taken off it and what is left.
LEMMA Parted ==
  ASSUME NEW s \in Seq(Nat), NEW n \in 0 .. Len(s)
  PROVE  /\ SubSeq(s, 1, n) \in Seq(Nat)
         /\ SubSeq(s, n + 1, Len(s)) \in Seq(Nat)
         /\ SubSeq(s, 1, n) \o SubSeq(s, n + 1, Len(s)) = s
<1>1. Len(s) \in Nat /\ \A i \in 1 .. Len(s) : s[i] \in Nat
  BY LenProperties, ElementOfSeq
<1>2. SubSeq(s, 1, n) \in Seq(Nat)
  BY <1>1, SubSeqProperties
<1>3. SubSeq(s, n + 1, Len(s)) \in Seq(Nat)
  BY <1>1, SubSeqProperties
<1>4. SubSeq(s, 1, n) \o SubSeq(s, n + 1, Len(s)) = SubSeq(s, 1, Len(s))
  <2>1. 1 \in 1 .. Len(s) + 1 /\ n \in 1 - 1 .. Len(s) /\ Len(s) \in n .. Len(s)
    BY <1>1
  <2> QED BY <2>1, ConcatAdjacentSubSeq
<1> QED BY <1>2, <1>3, <1>4, SubSeqFull

\* The next numbers continue the numbers.
LEMMA NumbersGrow ==
  ASSUME NEW n \in Nat, NEW m \in Nat
  PROVE  /\ [k \in 1 .. m |-> n + k] \in Seq(Nat)
         /\ Numbers(n) \in Seq(Nat)
         /\ Numbers(n) \o [k \in 1 .. m |-> n + k] = Numbers(n + m)
<1> DEFINE next == [k \in 1 .. m |-> n + k]
<1>1. /\ next \in Seq(Nat) /\ Len(next) = m
      /\ Numbers(n) \in Seq(Nat) /\ Len(Numbers(n)) = n
      /\ Numbers(n + m) \in Seq(Nat) /\ Len(Numbers(n + m)) = n + m
  BY DEF Numbers
<1>2. /\ Numbers(n) \o next \in Seq(Nat)
      /\ Len(Numbers(n) \o next) = n + m
      /\ \A i \in 1 .. n + m :
           (Numbers(n) \o next)[i] = IF i <= n THEN Numbers(n)[i] ELSE next[i - n]
  <2> HIDE DEF next
  <2>1. /\ Numbers(n) \o next \in Seq(Nat)
        /\ Len(Numbers(n) \o next) = Len(Numbers(n)) + Len(next)
        /\ \A i \in 1 .. Len(Numbers(n)) + Len(next) :
             (Numbers(n) \o next)[i] = IF i <= Len(Numbers(n)) THEN Numbers(n)[i]
                                       ELSE next[i - Len(Numbers(n))]
    BY <1>1, ConcatProperties, Zenon
  <2> QED BY <1>1, <2>1
<1>3. \A i \in 1 .. n + m : (Numbers(n) \o next)[i] = Numbers(n + m)[i]
  BY <1>2 DEF Numbers
<1> QED BY <1>1, <1>2, <1>3, SeqEqual

\* One more byte from the peer.
LEMMA NumbersAppend ==
  ASSUME NEW n \in Nat
  PROVE  Append(Numbers(n), n + 1) = Numbers(n + 1)
  BY DEF Numbers

\* ConcatAssociative and ConcatProperties for sequences of bytes.
LEMMA Associative ==
  \A s, t, u \in Seq(Nat) : (s \o t) \o u = s \o (t \o u)
  BY ConcatAssociative, SMTT(30)

LEMMA Closed ==
  \A s, t \in Seq(Nat) : s \o t \in Seq(Nat)
  BY ConcatProperties, Zenon

LEMMA BytesInit == Init => BytesInv
<1>1. [k \in 1 .. 0 |-> k] = <<>>
  OBVIOUS
<1> QED BY <1>1 DEF Init, BytesInv, BytesInOrder

\* What write() does to the bytes, however many of them os.write takes.
LEMMA WriteKeeps ==
  ASSUME BytesInv, NEW new \in 0 .. Output - given, Write(new)
  PROVE  BytesInv'
<1> DEFINE data == output_data \o New(new)
<1>1. PICK n \in 0 .. Len(data) : /\ outbound' = outbound \o SubSeq(data, 1, n)
                                  /\ output_data' = SubSeq(data, n + 1, Len(data))
  BY DEF Write, rest_of
<1>2. new \in Nat /\ given \in Nat /\ given' = given + new
  BY BoundsAssumption DEF BytesInv, Write
<1>3. New(new) \in Seq(Nat) /\ Numbers(given) \o New(new) = Numbers(given')
  BY <1>2, NumbersGrow DEF New
<1>4. /\ taken \in Seq(Nat) /\ outbound \in Seq(Nat) /\ output_data \in Seq(Nat)
      /\ taken \o outbound \in Seq(Nat) /\ data \in Seq(Nat)
      /\ taken \o outbound \o output_data = Numbers(given)
  BY <1>3, Closed DEF BytesInv, BytesInOrder, Numbers
<1> DEFINE first == SubSeq(data, 1, n)
           rest == SubSeq(data, n + 1, Len(data))
<1>5. first \in Seq(Nat) /\ rest \in Seq(Nat) /\ first \o rest = data
  <2> HIDE DEF data
  <2> QED BY <1>4, Parted
<1>6. taken \o (outbound \o first) \o rest = Numbers(given')
  <2> HIDE DEF data, first, rest
  <2>1. (taken \o outbound) \o first = taken \o (outbound \o first)
    BY <1>4, <1>5, Associative, ZenonT(30)
  <2>2. ((taken \o outbound) \o first) \o rest = (taken \o outbound) \o data
    BY <1>4, <1>5, Associative
  <2>3. (taken \o outbound) \o data = ((taken \o outbound) \o output_data) \o New(new)
    BY <1>3, <1>4, Associative DEF data
  <2> QED BY <1>3, <1>4, <2>1, <2>2, <2>3
<1>7. outbound' \in Seq(Nat) /\ output_data' \in Seq(Nat)
  <2> HIDE DEF data
  <2> QED BY <1>1, <1>4, <1>5, Closed
<1>8. UNCHANGED <<fetched, input_data, inbound, sent, taken>>
  BY DEF Write, incoming
<1>9. taken' \o outbound' \o output_data' = Numbers(given')
  BY <1>1, <1>6, <1>8
<1> QED BY <1>2, <1>7, <1>8, <1>9 DEF BytesInv, BytesInOrder, Numbers

LEMMA WriteErrorKeeps ==
  ASSUME BytesInv, NEW new \in 0 .. Output - given, WriteError(new)
  PROVE  BytesInv'
<1>1. new \in Nat /\ given \in Nat /\ given' = given + new
  BY BoundsAssumption DEF BytesInv, WriteError
<1>2. New(new) \in Seq(Nat) /\ Numbers(given) \o New(new) = Numbers(given')
  BY <1>1, NumbersGrow DEF New
<1>3. /\ taken \in Seq(Nat) /\ outbound \in Seq(Nat) /\ output_data \in Seq(Nat)
      /\ taken \o outbound \in Seq(Nat)
      /\ taken \o outbound \o output_data = Numbers(given)
  BY Closed DEF BytesInv, BytesInOrder, Numbers
<1>4. /\ output_data' = output_data \o New(new)
      /\ UNCHANGED <<fetched, input_data, inbound, sent, taken, outbound>>
  BY DEF WriteError, incoming, peers
<1>5. (taken \o outbound) \o (output_data \o New(new))
        = ((taken \o outbound) \o output_data) \o New(new)
  BY <1>2, <1>3, Associative
<1>6. output_data' \in Seq(Nat)
  BY <1>2, <1>3, <1>4, Closed
<1>7. taken' \o outbound' \o output_data' = Numbers(given')
  BY <1>2, <1>3, <1>4, <1>5
<1> QED BY <1>1, <1>4, <1>6, <1>7 DEF BytesInv, BytesInOrder, Numbers

LEMMA ReadKeeps ==
  ASSUME BytesInv, Read
  PROVE  BytesInv'
<1>1. PICK n \in 1 .. Len(inbound) :
        /\ input_data' = input_data \o SubSeq(inbound, 1, n)
        /\ inbound' = SubSeq(inbound, n + 1, Len(inbound))
  BY DEF Read
<1> DEFINE first == SubSeq(inbound, 1, n)
           rest == SubSeq(inbound, n + 1, Len(inbound))
<1>2. /\ fetched \in Seq(Nat) /\ input_data \in Seq(Nat) /\ inbound \in Seq(Nat)
      /\ fetched \o input_data \in Seq(Nat) /\ n \in 0 .. Len(inbound)
  BY Closed DEF BytesInv
<1>3. first \in Seq(Nat) /\ rest \in Seq(Nat) /\ first \o rest = inbound
  BY <1>2, Parted
<1>4. fetched \o (input_data \o first) \o rest = fetched \o input_data \o inbound
  <2> HIDE DEF first, rest
  <2>1. (fetched \o input_data) \o first = fetched \o (input_data \o first)
    BY <1>2, <1>3, Associative, ZenonT(30)
  <2>2. ((fetched \o input_data) \o first) \o rest = (fetched \o input_data) \o inbound
    BY <1>2, <1>3, Associative
  <2> QED BY <2>1, <2>2
<1>5. input_data' \in Seq(Nat) /\ inbound' \in Seq(Nat)
  BY <1>1, <1>2, <1>3, Closed
<1>6. UNCHANGED <<fetched, sent, taken, outbound, output_data, given>>
  BY DEF Read, outgoing
<1> QED BY <1>1, <1>4, <1>5, <1>6 DEF BytesInv, BytesInOrder

LEMMA FetchInputKeeps ==
  ASSUME BytesInv, FetchInput
  PROVE  BytesInv'
<1>1. /\ fetched' = fetched \o input_data /\ input_data' = <<>>
      /\ UNCHANGED <<inbound, sent, taken, outbound, output_data, given>>
  BY DEF FetchInput, outgoing, peers
<1>2. fetched \o input_data \in Seq(Nat)
  BY Closed DEF BytesInv
<1>3. fetched' \o input_data' = fetched \o input_data
  BY <1>1, <1>2, ConcatEmptySeq
<1> QED BY <1>1, <1>2, <1>3 DEF BytesInv, BytesInOrder

LEMMA SendKeeps ==
  ASSUME BytesInv, Send
  PROVE  BytesInv'
<1>1. /\ inbound' = Append(inbound, sent + 1) /\ sent' = sent + 1
      /\ UNCHANGED <<fetched, input_data, taken, outbound, output_data, given>>
  BY DEF Send, incoming, outgoing
<1>2. /\ fetched \o input_data \in Seq(Nat) /\ inbound \in Seq(Nat) /\ sent \in Nat
      /\ fetched \o input_data \o inbound = Numbers(sent)
  BY Closed DEF BytesInv, BytesInOrder, Numbers
<1>3. fetched \o input_data \o Append(inbound, sent + 1)
        = Append(fetched \o input_data \o inbound, sent + 1)
  <2>1. sent + 1 \in Nat /\ <<sent + 1>> \in Seq(Nat)
    BY <1>2
  <2>2. fetched \o input_data \o inbound \in Seq(Nat)
    BY <1>2, Closed, Zenon
  <2>3. Append(inbound, sent + 1) = inbound \o <<sent + 1>>
    BY <1>2, <2>1, AppendIsConcat, Zenon
  <2>4. Append(fetched \o input_data \o inbound, sent + 1)
          = (fetched \o input_data \o inbound) \o <<sent + 1>>
    BY <2>1, <2>2, AppendIsConcat, Zenon
  <2>5. (fetched \o input_data \o inbound) \o <<sent + 1>>
          = fetched \o input_data \o (inbound \o <<sent + 1>>)
    BY <1>2, <2>1, Associative, Zenon
  <2> QED BY <2>3, <2>4, <2>5, Zenon
<1>4. fetched' \o input_data' \o inbound' = Numbers(sent')
  BY <1>1, <1>2, <1>3, NumbersAppend
<1>5. inbound' \in Seq(Nat) /\ sent' \in Nat
  BY <1>1, <1>2
<1> QED BY <1>1, <1>4, <1>5 DEF BytesInv, BytesInOrder, Numbers

LEMMA TakeKeeps ==
  ASSUME BytesInv, Take
  PROVE  BytesInv'
<1>1. /\ taken' = taken \o outbound /\ outbound' = <<>>
      /\ UNCHANGED <<fetched, input_data, inbound, sent, output_data, given>>
  BY DEF Take, incoming, outgoing
<1>2. taken \o outbound \in Seq(Nat)
  BY Closed DEF BytesInv
<1>3. taken' \o outbound' = taken \o outbound
  BY <1>1, <1>2, ConcatEmptySeq
<1> QED BY <1>1, <1>2, <1>3 DEF BytesInv, BytesInOrder

LEMMA BytesStep == BytesInv /\ [Next]_vars => BytesInv'
<1> SUFFICES ASSUME BytesInv, [Next]_vars
             PROVE  BytesInv'
  OBVIOUS
<1> DEFINE Same == UNCHANGED <<fetched, input_data, inbound, sent, taken, outbound,
                               output_data, given>>
<1>1. CASE Same
  BY <1>1 DEF BytesInv, BytesInOrder
<1>2. CASE Read \/ FetchInput \/ Send \/ Take
  BY <1>2, ReadKeeps, FetchInputKeeps, SendKeeps, TakeKeeps
<1>3. CASE \E new \in 0 .. Output - given : Write(new) \/ WriteError(new)
  BY <1>3, WriteKeeps, WriteErrorKeeps
<1>4. CASE ReadEof \/ WriteNothing \/ RegisterRead \/ ReadOnly \/ WriteOnly
  BY <1>1, <1>4 DEF ReadEof, WriteNothing, RegisterRead, ReadOnly, WriteOnly, incoming,
                    outgoing, peers
<1>5. CASE Close \/ Return \/ Hangup \/ Break \/ UNCHANGED vars
  BY <1>1, <1>5 DEF Close, Return, Hangup, Break, vars, incoming, outgoing, peers
<1>6. CASE \E n \in Fds : Elsewhere(n)
  BY <1>1, <1>6 DEF Elsewhere, incoming, outgoing, peers
<1> QED BY <1>2, <1>3, <1>4, <1>5, <1>6 DEF Next

\* No byte is lost, repeated or moved in either direction, by partial writes, full
\* pipes, errors, closes and calls from inside callbacks.
THEOREM BytesCorrect == Spec => []BytesInOrder
<1>1. BytesInv => BytesInOrder
  BY DEF BytesInv
<1> QED BY <1>1, BytesInit, BytesStep, PTL DEF Spec

-----------------------------------------------------------------------------
(* The types *)

\* What the other invariants leave open of TypeOK: counters within their bounds and
\* callbacks nested no deeper than Depth.
BoundsInv ==
  /\ read_errno \in BOOLEAN /\ write_errno \in BOOLEAN
  /\ calls \in Seq(Frames) /\ Len(calls) <= Depth
  /\ sent \in 0 .. Input /\ given \in 0 .. Output
  /\ source \in {"open", "eof", "error"} /\ sink \in {"open", "broken"}

LEMMA NestingFacts ==
  ASSUME calls \in Seq(Frames)
  PROVE  /\ calls' = Spent => calls' \in Seq(Frames) /\ Len(calls') = Len(calls)
         /\ \A new \in {"data", "eof", "error"} :
              Calling(new) => calls' \in Seq(Frames) /\ Len(calls') = Len(calls) + 1
         /\ calls # <<>> /\ calls' = Front(calls) =>
              calls' \in Seq(Frames) /\ Len(calls') <= Len(calls)
<1>0. Spent \in Seq(Frames) /\ Len(Spent) = Len(calls) /\ Len(calls) \in Nat
  BY SpentFacts, LenProperties
<1>1. ASSUME NEW new \in {"data", "eof", "error"}, Calling(new)
      PROVE  calls' \in Seq(Frames) /\ Len(calls') = Len(calls) + 1
  <2> DEFINE frame == [from |-> new, spent |-> FALSE]
  <2>1. frame \in Frames
    BY DEF Frames
  <2>2. calls' = Append(Spent, frame)
    BY <1>1 DEF Calling
  <2> HIDE DEF frame
  <2> QED BY <1>0, <2>1, <2>2, AppendProperties
<1>2. ASSUME calls # <<>>, calls' = Front(calls)
      PROVE  calls' \in Seq(Frames) /\ Len(calls') <= Len(calls)
  <2>1. Len(calls) \in Nat \ {0} /\ \A i \in 1 .. Len(calls) - 1 : calls[i] \in Frames
    BY <1>0, <1>2, EmptySeq, LenProperties, ElementOfSeq
  <2> QED BY <1>2, <2>1, SubSeqProperties DEF Front
<1> QED BY <1>0, <1>1, <1>2

LEMMA BoundsStep == BoundsInv /\ [Next]_vars => BoundsInv'
<1> SUFFICES ASSUME BoundsInv, [Next]_vars
             PROVE  BoundsInv'
  OBVIOUS
<1>0. Len(calls) \in Nat /\ Depth \in Nat /\ Input \in Nat /\ Output \in Nat
  BY BoundsAssumption, LenProperties DEF BoundsInv
<1>1. CASE UNCHANGED <<read_errno, write_errno, calls, sent, given, source, sink>>
  BY <1>1 DEF BoundsInv
<1>2. CASE calls' = Spent /\ UNCHANGED <<read_errno, write_errno, sent, given, source, sink>>
  BY <1>2, NestingFacts DEF BoundsInv
<1>3. CASE WriteNothing \/ RegisterRead \/ FetchInput \/ ReadOnly \/ WriteOnly \/ Close
  BY <1>2, <1>3 DEF WriteNothing, RegisterRead, FetchInput, ReadOnly, WriteOnly, Close,
                    incoming, outgoing, peers
<1>4. ASSUME NEW new \in 0 .. Output - given, Write(new) PROVE BoundsInv'
  <2>1. /\ calls' = Spent /\ given' = given + new
        /\ UNCHANGED <<read_errno, write_errno, sent, source, sink>>
    BY <1>4 DEF Write, incoming
  <2>2. given' \in 0 .. Output
    BY <1>0, <2>1 DEF BoundsInv
  <2> QED BY <2>1, <2>2, NestingFacts DEF BoundsInv
<1>5. ASSUME NEW new \in 0 .. Output - given, WriteError(new) PROVE BoundsInv'
  <2>1. /\ Calling("error") /\ Len(calls) < Depth /\ given' = given + new
        /\ write_errno' = TRUE /\ UNCHANGED <<read_errno, sent, source, sink>>
    BY <1>5 DEF WriteError, incoming, peers
  <2>2. given' \in 0 .. Output
    BY <1>0, <2>1 DEF BoundsInv
  <2>3. calls' \in Seq(Frames) /\ Len(calls') <= Depth
    BY <1>0, <2>1, NestingFacts DEF BoundsInv
  <2> QED BY <2>1, <2>2, <2>3 DEF BoundsInv
<1>6. CASE Read \/ ReadEof
  <2>1. /\ Calling("data") \/ Calling("eof")
        /\ Len(calls) < Depth /\ read_errno' \in BOOLEAN
        /\ UNCHANGED <<write_errno, sent, given, source, sink>>
    BY <1>6 DEF Read, ReadEof, outgoing, peers, BoundsInv
  <2>2. calls' \in Seq(Frames) /\ Len(calls') <= Depth
    BY <1>0, <2>1, NestingFacts DEF BoundsInv
  <2> QED BY <2>1, <2>2 DEF BoundsInv
<1>7. CASE Return
  <2>1. /\ calls # <<>> /\ calls' = Front(calls)
        /\ UNCHANGED <<read_errno, write_errno, sent, given, source, sink>>
    BY <1>7 DEF Return, incoming, outgoing, peers
  <2>2. calls' \in Seq(Frames) /\ Len(calls') <= Depth
    BY <1>0, <2>1, NestingFacts, LenProperties DEF BoundsInv
  <2> QED BY <2>1, <2>2 DEF BoundsInv
<1>8. CASE Send
  <2>1. sent' \in 0 .. Input
    BY <1>0, <1>8 DEF Send, BoundsInv
  <2> QED BY <1>8, <2>1 DEF Send, incoming, outgoing, BoundsInv
<1>9. CASE Hangup \/ Break
  BY <1>9 DEF Hangup, Break, incoming, outgoing, BoundsInv
<1>10. CASE Take \/ UNCHANGED vars
  BY <1>1, <1>10 DEF Take, vars, incoming, outgoing, peers
<1>11. CASE \E n \in Fds : Elsewhere(n)
  BY <1>1, <1>11 DEF Elsewhere, incoming, outgoing, peers
<1> QED BY <1>3, <1>4, <1>5, <1>6, <1>7, <1>8, <1>9, <1>10, <1>11 DEF Next

\* Every variable of the endpoint and its peers keeps its type, for every nesting of
\* callbacks and every amount of data.
THEOREM TypeCorrect == Spec => []TypeOK
<1>1. Init => BoundsInv
  <2>1. <<>> \in Seq(Frames) /\ Len(<<>>) = 0 /\ 0 <= Depth
    BY BoundsAssumption
  <2>2. 0 \in 0 .. Input /\ 0 \in 0 .. Output
    BY BoundsAssumption
  <2> QED BY <2>1, <2>2 DEF Init, BoundsInv
<1>2. BoundsInv /\ EndsInv /\ BytesInv => TypeOK
  <2> SUFFICES ASSUME BoundsInv, EndsInv, BytesInv PROVE TypeOK
    OBVIOUS
  <2>1. /\ {reader, writer, reader_key, writer_key} \subseteq Fds \cup {None}
        /\ readers \in SUBSET Fds /\ writers \in SUBSET Fds
    BY DEF EndsInv
  <2>2. {input_data, output_data, fetched, inbound, outbound, taken} \subseteq Seq(Nat)
    BY DEF BytesInv
  <2> QED BY <2>1, <2>2 DEF TypeOK, BoundsInv, EndsInv
<1> QED BY <1>1, <1>2, BoundsStep, EndsInit, EndsStep, BytesInit, BytesStep, PTL DEF Spec

-----------------------------------------------------------------------------
(* What the owner sees *)

\* A write fails for good: the writer is closed or its peer is gone.
FailsForGood == write_errno \in BOOLEAN /\ (write_errno => writer = None \/ sink = "broken")

LEMMA FailsStep == FailsForGood /\ [Next]_vars => FailsForGood'
<1> SUFFICES ASSUME FailsForGood, [Next]_vars
             PROVE  FailsForGood'
  OBVIOUS
<1>1. CASE UNCHANGED <<write_errno, sink>> /\ writer' \in {writer, None}
  BY <1>1 DEF FailsForGood
<1>2. CASE \E new \in 0 .. Output - given : WriteError(new)
  BY <1>2 DEF WriteError, ends, peers, FailsForGood
<1>3. CASE \/ Read \/ ReadEof \/ WriteNothing \/ RegisterRead \/ FetchInput
           \/ \E new \in 0 .. Output - given : Write(new)
  BY <1>1, <1>3 DEF Read, ReadEof, WriteNothing, RegisterRead, FetchInput, Write, ends, outgoing,
                    peers
<1>4. CASE ReadOnly \/ WriteOnly \/ Close \/ Return
  BY <1>1, <1>4 DEF ReadOnly, WriteOnly, Close, Return, read_only, write_only, writer_closed,
                    ends, outgoing, peers
<1>5. CASE Send \/ Hangup \/ Take \/ Break \/ UNCHANGED vars
  BY <1>1, <1>5 DEF Send, Hangup, Take, Break, vars, ends, outgoing, peers, FailsForGood
<1>6. CASE \E n \in Fds : Elsewhere(n)
  BY <1>1, <1>6 DEF Elsewhere, outgoing, peers
<1> QED BY <1>2, <1>3, <1>4, <1>5, <1>6 DEF Next

\* The contract's view of an endpoint.
ReadingOf == IF True(reader) THEN {"reader"} ELSE {}
WritingOf == IF Works THEN {"writer"} ELSE {}
ArmedOf == IF Works /\ writers # {} THEN {"writer"} ELSE {}
WaitingOf == IF writer = 0 THEN 0 ELSE Len(output_data)
OutputOf == [w \in {"writer"} |-> WaitingOf]

\* A close, by the owner or after a callback.
LEMMA CloseMaps ==
  ASSUME EndsInv, reader' \in {reader, None}, UNCHANGED <<output_data, write_errno>>,
         writer_closed \/ UNCHANGED <<writer, writers>>
  PROVE  [Contract!Next]_(Contract!vars)
<1>1. \/ UNCHANGED <<writer, writers>>
      \/ writer \notin {None, 0} /\ writer' = None
  BY DEF writer_closed, True
<1>2. ReadingOf' \subseteq ReadingOf /\ OutputOf' = OutputOf
  BY <1>1 DEF ReadingOf, OutputOf, WaitingOf, True, None
<1>3. WritingOf' \subseteq WritingOf /\ ArmedOf' = ArmedOf \cap WritingOf'
  BY <1>1 DEF WritingOf, ArmedOf, Works, True
<1>4. Contract!Close
  BY <1>2, <1>3 DEF Contract!Close, ReadingOf, WritingOf, ArmedOf, OutputOf, WaitingOf
<1> QED BY <1>4 DEF Contract!Next

\* A call of write() that does not fail.
LEMMA WriteMaps ==
  ASSUME EndsInv, BytesInv', UNCHANGED <<reader, writer, write_errno>>,
         write_errno \/ writer = None => UNCHANGED output_data,
         IF output_data' = <<>> THEN unregister_write ELSE register_write
  PROVE  [Contract!Next]_(Contract!vars)
<1>1. UNCHANGED <<ReadingOf, WritingOf>>
  BY DEF ReadingOf, WritingOf, Works
<1>2. CASE ~Works
  <2>1. UNCHANGED <<ArmedOf, OutputOf>>
    BY <1>2 DEF ArmedOf, OutputOf, WaitingOf, Works, True
  <2> QED BY <1>1, <2>1 DEF Contract!vars, ReadingOf, WritingOf, ArmedOf, OutputOf, WaitingOf
<1>3. CASE Works
  <2>1. /\ Works' /\ writer' # 0 /\ WaitingOf' = Len(output_data')
        /\ Len(output_data') \in Nat /\ (Len(output_data') = 0 <=> output_data' = <<>>)
    BY <1>3, EmptySeq, LenProperties DEF BytesInv, Works, True, WaitingOf
  <2>2. writers' = {} <=> output_data' = <<>>
    <3>1. Watched(writer, writer_key) = writers
      BY DEF EndsInv, Watched
    <3>2. CASE output_data' = <<>>
      BY <3>1, <3>2 DEF unregister_write
    <3>3. CASE output_data' # <<>>
      <4>1. register_write /\ True(writer)
        BY <1>3, <3>3 DEF Works
      <4> QED BY <3>3, <4>1 DEF register_write, EndsInv
    <3> QED BY <3>2, <3>3
  <2>3. ArmedOf' = IF WaitingOf' = 0 THEN ArmedOf \ {"writer"} ELSE ArmedOf \cup {"writer"}
    BY <2>1, <2>2 DEF ArmedOf
  <2>4. OutputOf'["writer"] = WaitingOf' /\ OutputOf' = [OutputOf EXCEPT !["writer"] = WaitingOf']
    BY DEF OutputOf
  <2>5. ReadingOf' \subseteq ReadingOf /\ "writer" \in WritingOf
    BY <1>1, <1>3 DEF WritingOf
  <2>6. Contract!Write("writer")
    BY <1>1, <2>1, <2>3, <2>4, <2>5
       DEF Contract!Write, Contract!Changes, ReadingOf, WritingOf, ArmedOf, OutputOf, WaitingOf
  <2> QED BY <2>6 DEF Contract!Next
<1> QED BY <1>2, <1>3

\* A call of write() that fails: all that waited waits, and what was added.
LEMMA ErrorMaps ==
  ASSUME BytesInv, BytesInv', NEW new \in 0 .. Output - given, WriteError(new)
  PROVE  [Contract!Next]_(Contract!vars)
<1>1. /\ output_data' = output_data \o New(new) /\ UNCHANGED <<reader, writer>> /\ write_errno'
  BY DEF WriteError, ends
<1>2. /\ Len(output_data') = Len(output_data) + Len(New(new))
      /\ Len(output_data') \in Nat /\ Len(output_data) \in Nat /\ Len(New(new)) \in Nat
  <2>1. New(new) \in Seq(Nat)
    BY BoundsAssumption, NumbersGrow DEF New, BytesInv
  <2> QED BY <1>1, <2>1, ConcatProperties, LenProperties DEF BytesInv
<1>3. WaitingOf' \in Nat /\ WaitingOf' >= WaitingOf
  BY <1>1, <1>2 DEF WaitingOf
<1>4. /\ OutputOf'["writer"] = WaitingOf' /\ OutputOf["writer"] = WaitingOf
      /\ OutputOf' = [OutputOf EXCEPT !["writer"] = WaitingOf']
  BY DEF OutputOf
<1>5. /\ ReadingOf' \subseteq ReadingOf /\ WritingOf' = WritingOf \ {"writer"}
      /\ ArmedOf' = ArmedOf \ {"writer"}
  BY <1>1 DEF ReadingOf, WritingOf, ArmedOf, Works
<1>6. Contract!Fail("writer")
  BY <1>3, <1>4, <1>5
     DEF Contract!Fail, Contract!Changes, ReadingOf, WritingOf, ArmedOf, OutputOf, WaitingOf
<1> QED BY <1>6 DEF Contract!Next

\* Every step is one of the contract or stutters.
LEMMA ContractStep ==
  ASSUME EndsInv, BytesInv, BytesInv', FailsForGood, [Next]_vars
  PROVE  [Contract!Next]_(Contract!vars)
<1>1. CASE UNCHANGED <<reader, writer, writers, output_data, write_errno>>
  BY <1>1 DEF Contract!vars, Works, True
<1>2. CASE WriteNothing
  <2>1. /\ UNCHANGED <<reader, writer, write_errno, output_data>> /\ output_data' = <<>>
        /\ unregister_write
    BY <1>2 DEF WriteNothing, outgoing
  <2> QED BY <2>1, WriteMaps
<1>3. ASSUME NEW new \in 0 .. Output - given, Write(new)
      PROVE  [Contract!Next]_(Contract!vars)
  <2>1. PICK n \in 0 .. Len(output_data \o New(new)) :
          /\ output_data' = rest_of(output_data \o New(new), n)
          /\ event_after(n, rest_of(output_data \o New(new), n))
    BY <1>3 DEF Write
  <2>2. UNCHANGED <<reader, writer, write_errno>> /\ writer # None /\ ~write_errno
    BY <1>3 DEF Write, FailsForGood
  <2> QED BY <2>1, <2>2, WriteMaps DEF event_after
<1>4. CASE \E new \in 0 .. Output - given : WriteError(new)
  BY <1>4, ErrorMaps
<1>5. CASE ReadOnly \/ WriteOnly \/ Close \/ Return
  BY <1>5, CloseMaps DEF ReadOnly, WriteOnly, Close, Return, read_only, write_only,
                         reader_closed, ends, outgoing
<1>6. CASE Read \/ ReadEof \/ RegisterRead \/ FetchInput
  BY <1>1, <1>6 DEF Read, ReadEof, RegisterRead, FetchInput, ends, outgoing
<1>7. CASE Send \/ Hangup \/ Take \/ Break \/ UNCHANGED vars
  BY <1>1, <1>7 DEF Send, Hangup, Take, Break, vars, ends, outgoing
<1>8. CASE \E n \in Fds : Elsewhere(n)
  BY <1>1, <1>8 DEF Elsewhere, outgoing
<1> QED BY <1>2, <1>3, <1>4, <1>5, <1>6, <1>7, <1>8 DEF Next

\* In either loop and however its callbacks are nested an endpoint keeps its contract:
\* no end comes back, nothing that waits is dropped and a writer is watched exactly
\* while something waits for it (read_only, write_only, write).
THEOREM ContractKept == Spec => MeetsContract
<1>1. Init => FailsForGood /\ Contract!Init
  BY FdsAssumption, NoneIsNoFd DEF Init, FailsForGood, Contract!Init, Works, True
<1>2. EndsInv /\ BytesInv /\ BytesInv' /\ FailsForGood /\ [Next]_vars =>
        [Contract!Next]_(Contract!vars)
  BY ContractStep
<1> QED BY <1>1, <1>2, EndsInit, EndsStep, BytesInit, BytesStep, FailsStep, PTL
        DEF Spec, MeetsContract, Contract!Spec
=============================================================================
