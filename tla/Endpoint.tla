------------------------------ MODULE Endpoint ------------------------------
(***************************************************************************)
(* events/io_endpoint.py, select_endpoint.py and aio_endpoint.py: a reader *)
(* and a writer in one process, the event loop they are registered with,   *)
(* and the peer on the other side of each.  A descriptor is a number of    *)
(* the process's table, which the kernel gives out again once it is        *)
(* closed; 0 is a number like any other, but it is false.                  *)
(***************************************************************************)
EXTENDS Integers, SequencesExt

CONSTANTS
  Fds,        \* the descriptors of the process
  Input,      \* how many bytes the peer sends
  Output,     \* how many bytes are given to write()
  Room,       \* how many bytes the kernel holds for the peer
  Depth       \* how deep callbacks are nested

ASSUME FdsAssumption == Fds \subseteq Nat

ASSUME BoundsAssumption ==
  Input \in Nat /\ Output \in Nat /\ Depth \in Nat /\ Room \in Nat \ {0}

None == -1

VARIABLES
  loop,          \* the derived class: "select" or "aio"
  reader,        \* IOEndpoint.reader
  writer,        \* IOEndpoint.writer
  reader_key,    \* SelectEndpoint.reader_key, AIOEndpoint.read_active
  writer_key,    \* SelectEndpoint.writer_key, AIOEndpoint.write_active
  input_data,    \* IOEndpoint.input_data
  output_data,   \* IOEndpoint.output_data
  read_errno,    \* IOEndpoint.read_errno is set
  write_errno,   \* IOEndpoint.write_errno is set
  calls,         \* the callbacks that are running, the innermost last
  table,         \* what each number of the process stands for
  readers,       \* the numbers the loop watches for input
  writers,       \* the numbers the loop watches for output
  fetched,       \* what fetch_input has returned
  inbound,       \* bytes in the kernel, from the peer
  sent,          \* how many bytes the peer has sent
  source,        \* the peer of the reader
  given,         \* how many bytes were given to write
  outbound,      \* bytes in the kernel, to the peer
  taken,         \* what the peer has read
  sink           \* the peer of the writer

ends == <<reader, writer, reader_key, writer_key, table, readers, writers>>
incoming == <<input_data, read_errno, fetched>>
outgoing == <<output_data, write_errno, given>>
peers == <<inbound, sent, source, outbound, taken, sink>>
vars == <<loop, ends, incoming, outgoing, calls, peers>>

Frames == [from : {"data", "eof", "error"}, spent : BOOLEAN]

TypeOK ==
  /\ loop \in {"select", "aio"}
  /\ {reader, writer, reader_key, writer_key} \subseteq Fds \cup {None}
  /\ {input_data, output_data, fetched, inbound, outbound, taken} \subseteq Seq(Nat)
  /\ {read_errno, write_errno} \subseteq BOOLEAN
  /\ calls \in Seq(Frames) /\ Len(calls) <= Depth
  /\ table \in [Fds -> {"free", "reader", "writer", "other"}]
  /\ readers \in SUBSET Fds /\ writers \in SUBSET Fds
  /\ sent \in 0 .. Input /\ given \in 0 .. Output
  /\ source \in {"open", "eof", "error"}
  /\ sink \in {"open", "broken"}

\* The constructor: a new pipe or a descriptor and its clone, on any two numbers.
Init ==
  /\ loop \in {"select", "aio"}
  /\ reader \in Fds /\ writer \in Fds \ {reader}
  /\ table = [n \in Fds |-> CASE n = reader -> "reader"
                              [] n = writer -> "writer"
                              [] OTHER -> "free"]
  /\ reader_key = None /\ writer_key = None
  /\ readers = {} /\ writers = {}
  /\ input_data = <<>> /\ output_data = <<>>
  /\ read_errno = FALSE /\ write_errno = FALSE
  /\ calls = <<>>
  /\ fetched = <<>> /\ inbound = <<>> /\ sent = 0 /\ source = "open"
  /\ given = 0 /\ outbound = <<>> /\ taken = <<>> /\ sink = "open"

-----------------------------------------------------------------------------
(* Registrations: None and 0 are both false *)

True(n) == n \notin {None, 0}

\* What unregister_read takes out of the loop: the number of the selector's key,
\* or the current reader.
Watched(n, key) ==
  CASE key = None -> {}
    [] key # None /\ loop = "select" -> {key}
    [] key # None /\ loop = "aio" -> IF True(n) THEN {n} ELSE {}

\* Mutant: no test of the reader.
register_read_any ==
  IF reader_key = None
  THEN /\ readers' = readers \cup {reader}
       /\ reader_key' = reader
  ELSE UNCHANGED <<readers, reader_key>>

register_read ==
  IF True(reader) /\ reader_key = None
  THEN /\ readers' = readers \cup {reader}
       /\ reader_key' = reader
  ELSE UNCHANGED <<readers, reader_key>>

unregister_write ==
  /\ writers' = writers \ Watched(writer, writer_key)
  /\ writer_key' = IF Watched(writer, writer_key) = {} THEN writer_key ELSE None

register_write ==
  IF True(writer) /\ writer_key = None
  THEN /\ writers' = writers \cup {writer}
       /\ writer_key' = writer
  ELSE UNCHANGED <<writers, writer_key>>

Shut(numbers) == [n \in Fds |-> IF n \in numbers THEN "free" ELSE table[n]]

\* What read_only and write_only close.
Closes(n) == IF True(n) THEN {n} ELSE {}

\* Mutant: the descriptor is closed, and forgotten, before the event is cancelled.
reader_late ==
  /\ reader' = IF True(reader) THEN None ELSE reader
  /\ IF True(reader) /\ loop = "select"
     THEN /\ readers' = readers \ Watched(reader, reader_key)
          /\ reader_key' = None
     ELSE UNCHANGED <<readers, reader_key>>

reader_closed ==
  IF True(reader)
  THEN /\ readers' = readers \ Watched(reader, reader_key)
       /\ reader_key' = None
       /\ reader' = None
  ELSE UNCHANGED <<readers, reader_key, reader>>

\* Mutant: the descriptor is closed and kept.
writer_kept ==
  /\ unregister_write
  /\ UNCHANGED writer

writer_closed ==
  IF True(writer)
  THEN /\ unregister_write
       /\ writer' = None
  ELSE UNCHANGED <<writers, writer_key, writer>>

read_only ==
  /\ writer_closed
  /\ table' = Shut(Closes(writer))
  /\ UNCHANGED <<reader, reader_key, readers>>

write_only ==
  /\ reader_closed
  /\ table' = Shut(Closes(reader))
  /\ UNCHANGED <<writer, writer_key, writers>>

-----------------------------------------------------------------------------
(* The operations: each is called by the loop, or once by a callback *)

\* The calls once the callback that runs has made its call.
Spent == IF calls = <<>> THEN <<>> ELSE [calls EXCEPT ![Len(calls)].spent = TRUE]

Callable == calls # <<>> => ~Last(calls).spent

\* A callback is called.
Calling(from) == calls' = Append(Spent, [from |-> from, spent |-> FALSE])

\* read: os.read returns any part of what there is.
Read ==
  /\ Callable /\ Len(calls) < Depth
  /\ reader # None /\ inbound # <<>>
  /\ \E n \in 1 .. Len(inbound) :
       /\ input_data' = input_data \o SubSeq(inbound, 1, n)
       /\ inbound' = SubSeq(inbound, n + 1, Len(inbound))
  /\ Calling("data")
  /\ UNCHANGED <<loop, ends, read_errno, fetched, outgoing, sent, source, outbound, taken, sink>>

\* read: b'' or an error.
ReadEof ==
  /\ Callable /\ Len(calls) < Depth
  /\ reader # None /\ inbound = <<>> /\ source # "open"
  /\ read_errno' = (read_errno \/ source = "error")
  /\ Calling("eof")
  /\ UNCHANGED <<loop, ends, input_data, fetched, outgoing, peers>>

\* Mutant: a part that was written is not taken off.
rest_whole(data, n) == IF n = Len(data) THEN <<>> ELSE data

\* What write() leaves in output_data once n bytes are written.
rest_of(data, n) == SubSeq(data, n + 1, Len(data))

\* The data of one call: the bytes are numbered.
New(n) == [k \in 1 .. n |-> given + k]

\* Mutant: the event is registered when nothing at all was written.
event_on_block(n, rest) ==
  CASE rest = <<>> -> unregister_write
    [] rest # <<>> /\ n = 0 -> register_write
    [] rest # <<>> /\ n # 0 -> UNCHANGED <<writers, writer_key>>

event_after(n, rest) ==
  IF rest = <<>> THEN unregister_write ELSE register_write

\* write() with nothing to write.
WriteNothing ==
  /\ Callable
  /\ output_data = <<>>
  /\ unregister_write
  /\ calls' = Spent
  /\ UNCHANGED <<loop, reader, writer, reader_key, table, readers, incoming, outgoing, peers>>

\* write: os.write takes what there is room for, or a part of it, or none.
Write(new) ==
  /\ Callable
  /\ writer # None /\ sink = "open"
  /\ LET data == output_data \o New(new)
         free == Room - Len(outbound)
     IN /\ data # <<>>
        /\ \E n \in 0 .. Len(data) :
             /\ n <= free /\ (n = 0 => free = 0)
             /\ outbound' = outbound \o SubSeq(data, 1, n)
             /\ output_data' = rest_of(data, n)
             /\ event_after(n, rest_of(data, n))
  /\ given' = given + new
  /\ calls' = Spent
  /\ UNCHANGED <<loop, reader, writer, reader_key, table, readers, incoming, write_errno,
                 inbound, sent, source, taken, sink>>

\* write: the peer is gone, or the writer is None and os.write raises TypeError.
WriteError(new) ==
  /\ Callable /\ Len(calls) < Depth
  /\ writer = None \/ sink = "broken"
  /\ output_data \o New(new) # <<>>
  /\ output_data' = output_data \o New(new)
  /\ given' = given + new
  /\ write_errno' = TRUE
  /\ Calling("error")
  /\ UNCHANGED <<loop, ends, incoming, peers>>

RegisterRead ==
  /\ Callable
  /\ register_read
  /\ calls' = Spent
  /\ UNCHANGED <<loop, reader, writer, writer_key, table, writers, incoming, outgoing, peers>>

FetchInput ==
  /\ Callable
  /\ fetched' = fetched \o input_data
  /\ input_data' = <<>>
  /\ calls' = Spent
  /\ UNCHANGED <<loop, ends, read_errno, outgoing, peers>>

ReadOnly ==
  /\ Callable
  /\ read_only
  /\ calls' = Spent
  /\ UNCHANGED <<loop, incoming, outgoing, peers>>

WriteOnly ==
  /\ Callable
  /\ write_only
  /\ calls' = Spent
  /\ UNCHANGED <<loop, incoming, outgoing, peers>>

Close ==
  /\ Callable
  /\ writer_closed /\ reader_closed
  /\ table' = Shut(Closes(writer) \cup Closes(reader))
  /\ calls' = Spent
  /\ UNCHANGED <<loop, incoming, outgoing, peers>>

\* Mutant: closing the descriptor is left to the callbacks.
ReturnOnly ==
  /\ calls # <<>>
  /\ calls' = Front(calls)
  /\ UNCHANGED <<loop, ends, incoming, outgoing, peers>>

\* The innermost callback returns, and read() or write() goes on.
Return ==
  /\ calls # <<>>
  /\ calls' = Front(calls)
  /\ \/ Last(calls).from = "eof" /\ write_only
     \/ Last(calls).from = "error" /\ read_only
     \/ Last(calls).from = "data" /\ UNCHANGED ends
  /\ UNCHANGED <<loop, incoming, outgoing, peers>>

-----------------------------------------------------------------------------
(* The rest of the process, and the peers *)

Elsewhere(n) ==
  /\ \/ table[n] = "free" /\ table' = [table EXCEPT ![n] = "other"]
     \/ table[n] = "other" /\ table' = [table EXCEPT ![n] = "free"]
  /\ UNCHANGED <<loop, reader, writer, reader_key, writer_key, readers, writers, incoming,
                 outgoing, calls, peers>>

\* The peer sends a byte.
Send ==
  /\ source = "open" /\ sent < Input
  /\ inbound' = Append(inbound, sent + 1)
  /\ sent' = sent + 1
  /\ UNCHANGED <<loop, ends, incoming, outgoing, calls, source, outbound, taken, sink>>

\* The peer closes: what it has sent can still be read.
Hangup ==
  /\ source = "open"
  /\ source' \in {"eof", "error"}
  /\ UNCHANGED <<loop, ends, incoming, outgoing, calls, inbound, sent, outbound, taken, sink>>

Take ==
  /\ outbound # <<>> /\ sink = "open"
  /\ taken' = taken \o outbound
  /\ outbound' = <<>>
  /\ UNCHANGED <<loop, ends, incoming, outgoing, calls, inbound, sent, source, sink>>

Break ==
  /\ sink = "open"
  /\ sink' = "broken"
  /\ UNCHANGED <<loop, ends, incoming, outgoing, calls, inbound, sent, source, outbound, taken>>

Next ==
  \/ Read \/ ReadEof \/ WriteNothing
  \/ \E new \in 0 .. Output - given : Write(new) \/ WriteError(new)
  \/ RegisterRead \/ FetchInput
  \/ ReadOnly \/ WriteOnly \/ Close \/ Return
  \/ \E n \in Fds : Elsewhere(n)
  \/ Send \/ Hangup \/ Take \/ Break

Spec == Init /\ [][Next]_vars

\* The loop calls read() and write() for what it watches and finds ready.
Readable == calls = <<>> /\ reader \in readers /\ (Read \/ ReadEof)
Writable == calls = <<>> /\ writer \in writers /\ (Write(0) \/ WriteError(0) \/ WriteNothing)

\* Callbacks return, the peer reads on, and the loop, which reports all that is
\* ready each time round, serves its events whatever else the program calls.
FairSpec ==
  /\ Spec
  /\ WF_vars(Return) /\ SF_vars(Readable) /\ SF_vars(Writable) /\ WF_vars(Take)

-----------------------------------------------------------------------------
(* Properties *)

\* The descriptor the endpoint reads, writes or closes next is still its own:
\* nothing it closed is used again, whatever callbacks did in between
\* (read_only, write_only, close).
NumbersAreOurs ==
  /\ reader # None => table[reader] = "reader"
  /\ writer # None => table[writer] = "writer"

\* The loop watches no number that was closed or has been given to somebody else
\* (unregister_read and unregister_write come before os.close and before the
\* attribute is cleared).
WatchedAreOurs ==
  /\ \A n \in readers : table[n] = "reader"
  /\ \A n \in writers : table[n] = "writer"

\* Outside of callbacks, an end that failed is closed, unless its number is 0:
\* then it stays open (read, write).
FailedIsClosed ==
  calls = <<>> =>
    /\ read_errno => reader \in {None, 0}
    /\ write_errno => writer \in {None, 0}

\* The bytes come out as they went in: what was fetched, is buffered and is in the
\* kernel is what the peer sent, and what the peer took, is in the kernel and is
\* buffered is what write() was given, whole and in order, after errors and
\* closes too (read, fetch_input, write).
BytesInOrder ==
  /\ fetched \o input_data \o inbound = [k \in 1 .. sent |-> k]
  /\ taken \o outbound \o output_data = [k \in 1 .. given |-> k]

\* A loop that watches the writer has something to write, and the other way round
\* unless the writer has failed or its number is 0 (write, register_write).
WriteEventWhilePending ==
  /\ writers # {} => output_data # <<>>
  /\ output_data # <<>> /\ writer # None /\ True(writer) /\ ~write_errno => writers # {}

\* Output that waits is written while the peer reads, or the writer is closed;
\* output on descriptor 0 may wait for ever (register_write, write).
OutputDrains == output_data # <<>> ~> output_data = <<>> \/ writer \in {None, 0}

\* Input, the end of it and an error reach the endpoint once it is registered
\* (register_read, read).
InputArrives ==
  (reader_key # None /\ (inbound # <<>> \/ source # "open"))
    ~> reader = None \/ (inbound = <<>> /\ source = "open")

\* Seen from its owner the endpoint does what EndpointContract says, step by step:
\* what is closed stays closed, nothing that waits is dropped, and a writer that works
\* is watched as long as something waits for it.  An end with number 0 is none, as
\* the loop cannot watch it, and a writer that failed is closed to its owner before
\* its callback has returned.
Works == True(writer) /\ ~write_errno

Contract == INSTANCE EndpointContract WITH
              Readers <- {"reader"}, Writers <- {"writer"},
              reading <- IF True(reader) THEN {"reader"} ELSE {},
              writing <- IF Works THEN {"writer"} ELSE {},
              armed <- IF Works /\ writers # {} THEN {"writer"} ELSE {},
              output <- [w \in {"writer"} |-> IF writer = 0 THEN 0 ELSE Len(output_data)]

MeetsContract == Contract!Spec

-----------------------------------------------------------------------------
(* The inductive invariants behind them *)

\* A registration is of the current descriptor, never of 0, and the loop has
\* nothing else.
EndsInv ==
  /\ loop \in {"select", "aio"}
  /\ table \in [Fds -> {"free", "reader", "writer", "other"}]
  /\ reader \in Fds \cup {None} /\ writer \in Fds \cup {None}
  /\ reader_key # None => reader_key = reader /\ True(reader)
  /\ writer_key # None => writer_key = writer /\ True(writer)
  /\ readers = {reader_key} \ {None}
  /\ writers = {writer_key} \ {None}
  /\ NumbersAreOurs

\* The buffers are sequences of bytes in the order in which they were sent.
BytesInv ==
  /\ sent \in Nat /\ given \in Nat
  /\ fetched \in Seq(Nat) /\ input_data \in Seq(Nat) /\ inbound \in Seq(Nat)
  /\ taken \in Seq(Nat) /\ outbound \in Seq(Nat) /\ output_data \in Seq(Nat)
  /\ BytesInOrder

\* While an end that failed is open, its callback is still running.
FailedInv ==
  /\ calls \in Seq(Frames)
  /\ read_errno => reader \in {None, 0} \/ \E k \in DOMAIN calls : calls[k].from = "eof"
  /\ write_errno => writer \in {None, 0} \/ \E k \in DOMAIN calls : calls[k].from = "error"
=============================================================================
