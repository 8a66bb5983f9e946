# A formal model of gosmgp

gosmgp is a Go library for the SMGP protocol (China Telecom's short-message
gateway protocol): a client, a server, the packets, and an example of each.
This directory holds TLA+ modules that model it, the TLC configurations that
check them, and proofs checked by TLAPS. The repository has no tests and hardly
any documentation; what a property is measured against is the code's own
comments, its log messages and the use the two examples make of the library.

Line numbers refer to `src/`. Contents: 1 the system, 2 the modules and how
they correspond to the code, 3 the runs, 4 fairness, 5 the proofs, 6 what the
checks found, 7 what is not modelled, 8 the plan.

## 1. The system

| Component | State it keeps | Operations |
|---|---|---|
| Server connection (`server/server.go`, `conn`) | `counter` (unanswered active tests), channels `done` and `exceed`, the `pkg.Conn` | `serve`, `readPacket`, the handler, `finishPacket`, `startActiveTest`, `close` |
| Listener (`server/server.go`) | the accept delay | `Serve`, `newConn`, `ListenAndServe`, keep-alive `Accept` |
| Handler chain (`ListenAndServe`) | none | one call per packet, handlers in order until one says stop or fails |
| `pkg.Conn` (`pkg/connection.go`) | `State`, the channels and goroutines of the two number generators, the socket | `NewConnection`, `SendPkt`, `Close`, `SetState` |
| `RecvAndUnpackPkt` (`pkg/connection.go`) | the read deadline of the socket | header, checks, body, `Unpack` |
| Read buffers (`pkg/connection.go`, `pkg/options.go`) | `readBufferPool`, shared by every connection of the process | `Get`, deferred `Put`; `ParseOptions` keeps slices |
| Message ids and reports (`pkg/utils.go`, `deliver.go`) | a number generator per connection | `GenMsgID`, `UnpackMsgId`, content of reports |
| Client (`client/client.go`) | `conn` | `Connect`, `Disconnect`, send and receive |
| Login (`pkg/login.go`, `pkg/utils.go`) | none | authenticators of both sides |
| Packet codecs (`pkg/packet.go`, one file per packet) | none | `Pack`, `Unpack` |
| Long messages (`pkg/utils.go`) | `TpUdhiSeq`, a global | `SplitLongSms`, `GetMsgPkgs` |
| Example server and client (`examples/`) | none | `handleLogin`, `handleSubmit`, `mockDeliver`; a client with two goroutines |
| Tables, times, character sets, `String` methods | none | pure |

How they interact. `Serve` starts one goroutine per accepted connection, which
runs `serve`. That one starts a second goroutine, the *tester*, which sends an
active test at every tick and raises the alarm on `exceed` when N are
unanswered. The two share `counter` (atomically), `exceed` and `done`, and write
to the same socket. The submit handler of the example leaves a third kind of
goroutine behind, which sends status reports on the connection ten seconds
later. Every sender draws its sequence number from a channel fed by a generator
goroutine that `Close` stops. Connections share the pool of read buffers.

What is hard here:

- *Concurrency*: the counter is decremented by one goroutine and checked,
  then incremented, by another, with a blocking `Write` in between; `State` is
  read and written without synchronisation; two goroutines may call `Close`, and
  `Connect` may set `State` after one has; generators stop while senders draw.
- *Blocking*: no `Write` has a deadline; `exceed` is unbuffered and polled only
  between two packets.
- *Timeouts*: `serve` goes on after a read timeout, wherever in a packet it
  falls; a deadline set for one call sits on a socket used by the next; the accept
  loop sleeps longer after each failure in a row.
- *Sharing*: a buffer goes back to the pool before the packet made from it is
  handled; goroutines that split long texts share one reference number without a
  lock; a goroutine per submit outlives its handler.
- *Ordering*: tests and exit requests race with responses, the login response
  included.
- *Boundaries*: sequence numbers wrap; binary ids contain zero bytes; ids are
  padded at one end of a hash only; part numbers are bytes; announced lengths
  come from counters the caller fills in.

What makes each component correct, in a line:

- server connection: no test is lost or counted twice; the alarm needs N
  unanswered tests and ends the connection; a silent peer is dropped; responses
  leave in the order of requests;
- `pkg.Conn`: `Close` tears down in order, completes, and nothing is sent after
  it; no sender waits for a number for ever;
- receiving: packets come out whole and in order however the stream is cut; a
  call with a timeout returns, and its deadline stays its own;
- buffers: one user at a time; a packet keeps what it was received with;
- message ids: a report names its submit and no other, and every destination of
  a submit is reported on;
- client: `Connect` returns; success means accepted; failure leaks nothing;
- login: the agreed id and secret are accepted, nothing else is;
- codecs: `Unpack` inverts `Pack`, and lengths agree with contents;
- long messages: parts are as long as allowed, joined they are the message, and
  messages that follow each other have different references;
- listener: the delay doubles up to a second and starts again after a success,
  and no connection waits for ever.

`PROJECT.json` lists under `hazards` each place where one of these could go
wrong, with the property that watches it.

## 2. The modules

| Module | Models | Composes with |
|---|---|---|
| `Watchdog` | what the active test promises, without goroutines or packets | implemented by `ServerConn` |
| `ServerConn` | one server connection: `serve`, tester, report goroutines, both socket directions, the peer | `INSTANCE Watchdog` |
| `ServerConnProofs` | proofs about `ServerConn` | extends it |
| `Channel` | what the goroutines that share a connection may rely on, without generators or a stale `State` | implemented by `Conn` |
| `Conn` | generators, `SendPkt`, `Close` | `INSTANCE Channel` |
| `ConnProofs` | proofs about `Conn` | extends it |
| `Delivery` | what `RecvAndUnpackPkt` promises its caller, without units or deadlines | implemented by `RecvPkt` |
| `RecvPkt` | `RecvAndUnpackPkt` under its two kinds of caller | `INSTANCE Delivery` |
| `RecvPktProofs` | proofs about `RecvPkt` | extends it |
| `BufferPool` | `readBufferPool` and what `Unpack` keeps | |
| `BufferPoolProofs` | proofs about `BufferPool` | extends it |
| `Handshake` | `Connect` and the server's side of a login | |
| `HandshakeProofs` | proofs about `Handshake` | extends it |
| `MsgId` | the format of message ids (operators only) | used by `Gateway` |
| `Listener` | the accept loop (actions, no `Spec` of its own) | used by `Gateway` |
| `Gateway` | the example server as a whole: accept loop, submits on several connections, reports | extends `Listener` and `MsgId` |
| `GatewayProofs` | proofs about ids and about `Gateway` | extends it |
| `LongSms` | `SplitLongSms`, `GetMsgPkgs` (operators only) | used by `Outbox` |
| `Codec` | every `Pack` and `Unpack` (operators only) | used by `Outbox` |
| `Outbox` | packets and parts of long texts that go out, and how they arrive | extends `LongSms` and `Codec` |
| `OutboxProofs` | proofs about the split, the codecs and `Outbox` | extends it and `SeqFacts` |
| `SeqFacts` | induction, recursive functions and concatenation, for the proofs | used by `RecvPktProofs`, `GatewayProofs`, `OutboxProofs` |
| `MC...` | values of constants and symmetry for TLC | extend the module they are named after |

Conventions. An action is named for the code it stands for and is as large as
no other goroutine can see into: it ends where the code touches a channel, an
atomic, shared memory or the socket. A definition named `X_faulty` is *not* part
of any specification: it is `X` with one plausible programming error, kept next
to it so that one can see, by substituting it, that a property notices. A
variable that no code has (`lost`, `torn`, `returned`, `overwritten`, `forged`,
`arrived`, `raced`, `refs`, `start`) is history, read by properties only. `view` in
`Conn` stands for `State`: the values of it each goroutine may read.

### ServerConn

`spc` is where `serve` is: `poll` (the non-blocking select on `exceed`), `read`,
`handle`, `finish`, then the three steps of `close()`: `exit` (the exit request),
`closedone`, `closesock`, and `closed`. `tpc` is where the tester is: `select`,
`check` (the load of the counter), `exceed` (blocked on the channel), `send`,
`count` (the increment), `stopped`.

| Code | Actions |
|---|---|
| `serve` 313-317 | `ServeTakesExceed`, `ServePollEmpty` |
| `serve` 319-325, `readPacket` | `ServeRead`, `ServeTimeout`, `ServeReadErr` |
| the handler, a panic in it | `ServeHandle`, `ServePanic` |
| `finishPacket`, 327-335 | `FinishActiveResp`, `FinishSilent`, `FinishReply`, `FinishReplyFails` |
| `close` | `ServeExit`, `ServeCloseDone`, `ServeCloseSock` |
| `startActiveTest` | `TesterDone`, `TesterTick`, `TesterGivesUp`, `TesterProceeds`, `TesterSend`, `TesterCount` |
| `mockDeliver` of the example | `MockDeliver` |
| the peer (external) | `PeerSend`, `PeerRecv`, `PeerAnswer`, `PeerUnasked`, `PeerMute`, `PeerClose` |

A packet is a tag and an id; an outgoing one also records what the code meant
to send (`op`), since exit packets are packed with the ids of active tests
(`WireTag`). A sequence of bounded length stands for both kernels' buffers in
each direction; a full one blocks the writer. A packet the server refuses, or
whose `Unpack` fails or panics, is one tag, `Bad`: each ends the connection at
the same place. `SendPkt` either writes, or fails because a side is closed or
`Pack` refuses a field. The handler is any handler: it returns, fails or panics;
after a submit it may leave a report goroutine, as the example's does. A report
goroutine sends one report (several destinations are in `Gateway`). The peer may
send up to `MaxUnasked` answers to no test; `finishPacket` takes each of them off
the counter, as it does any other.

### Watchdog and the refinement

`Watchdog` has a number of unanswered tests, a number of answers in excess
(`surplus`, each of which lets one more test go unanswered), an alarm that is `quiet`, `raised`
or `off`, and a link that is `up`, `closing` or `down`. `ServerConn` implements
it with `unanswered <- counter + (1 if the tester is about to count)` and
`surplus <- unasked`: the
moment a test counts is its `Write`, not the increment after it. Without that
correction an answer that overtakes the increment would take an unanswered test
that is not there.

### Conn

Each generator offers, has seen its `done` channel closed, or has exited and
closed its output channel. Users draw a number (`Draw`, then `Give` or
`DrawZero`), check `State` (`CheckClosed`, `CheckOpen`) and write. Closers run
the four steps of `Close`; a second `close` of a channel panics the goroutine.

`State` is read and written without synchronisation, so a goroutine may read the
value it has written last itself or any that another has written since: `view`
is that set, and `Assign` an assignment. `State` is first `unset`, the zero that is
also `CONNECTION_CLOSED`. `newConn` sets it before anybody else has the
connection, `Connect` after (`client.go:30`, `39`), hence two initial states. In
`Connect`'s the goroutine `Connector` makes the two calls of `SetState`, and others
may send and close before, between and after them: a `Close` that reads the zero
does nothing (`CloseUnset`), and a late `SetState` puts a value over the CLOSED of a
`Close` (`overwritten`), after which the same goroutine's next `Close` gets past
the check and panics. The model tells `CONNECTED` from `AUTHOK` nowhere, since no
code does.

`Channel` is that connection as its users see it: a link that is `open`, `closing`
or `shut`, the packets that went out, those of them without a number, and whether
a `Close` has returned. `Conn` implements it with `closing` from the first closed
channel to the close of the socket, whichever goroutines run the steps between;
`State` does not appear in the mapping, for nobody may rely on it.

### RecvPkt

The stream is cut into units: two for a header, zero to `MaxBody` for a body. A
call reads unit by unit; the deadline may pass before any read; a timeout inside
a header makes `serve` go on with the stream in the middle of a packet (`torn`).
Two units that are not the header of one packet parse as arbitrary values,
accepted or refused; a genuine packet may be refused too, for its length, its
request id or an `Unpack` that fails. The client makes one call with a timeout,
then calls without, and may be disconnected by another goroutine; the server
always passes a timeout.

`Delivery` is what the caller's loop sees: a stream that is `whole`, `cut` or
`ended`, and the packets taken from it. From a whole stream only the next packet
can be taken, only `serve` can cut it, a cut stream never becomes whole again,
and after the end nothing is taken. `RecvPkt` implements it with `cut` for `torn`.

### BufferPool

`content[b]` is the packet whose bytes a buffer holds. `Unpack` copies most
fields (`copied`) and keeps a reference for options (`options`). `Put` runs
before the caller sees the packet. A read that fails may have overwritten part of
the buffer (`Fail` leaves its packet or none), and a packet may be refused after it
is read (`Refuse`). A garbage collection may drop pooled buffers.

### MsgId, Listener and Gateway

A message id is its ten bytes. `GenMsgID` writes the gateway's code and the
number with `%06x` and the time in decimal digits; `UnpackMsgId` is its inverse.

`Listener` has one action per way round the loop of `Serve`: `AcceptOK`,
`AcceptTemporary` (which also computes the delay), `Wake`, `AcceptFatal`; delays
are milliseconds. `backlog` is the kernel's queue of connections.

`Gateway` composes them. `Accept` takes a connection and gives it a generator
with a random start (`NewConnection`); `Submit` is `handleSubmit`: a number is
drawn, the id made, a goroutine started (`going`); `Report` and `DeliverReturns`
are `mockDeliver`, which sends a report per destination and ends early when a
send fails, that is, when the connection has ended (`End`, for any of the reasons
`ServerConn` has in detail). A client may stop reading while its connection stays
up (`StopReading`, `ReadAgain`, `deaf`): `Write` has no deadline, so a report to it
may wait as long as that lasts. When `Serve` has returned, so does the example's
`main`, and the process exits with all its connections and goroutines (`Exit`).
Drawing a number and making the id is one step: each connection has its own
generator, and only its own `serve` goroutine draws.

### LongSms, Codec and Outbox

A text is its length in bytes, a part is the slice `from..to` of it behind its
user data header. `Byte` is the wrap of Go's `byte`. In `Outbox` a sender is at the
read of `TpUdhiSeq` in the header literal (`header`), at the load and at the store
of `TpUdhiSeq++` (`load`, `store`), or it sends part after part (`send`): three
unsynchronised accesses between which others run. `raced` says whether one sender
ever read while another was between its read and its store.

In `Codec` a packet is a sequence of cells: a field, its width and how it is
written or read. `PackX` and `UnpackX` list the cells of each packet in the order
of the calls. A value is its length, the place of its first zero byte, since
padding, cutting and `ReadCString` depend on nothing else, and who filled it in:
the caller, nobody, or `Pack`. `Packed` is what `Pack` changes in the packet first:
it pads or cuts a `ClientID`, takes the time for a `TimeStamp` left at zero, and
writes authenticators of its own, whatever the caller has set (`login.go:33-45`,
`109-116`); such a sum or time may have a zero byte anywhere (`Digests`, `Stamps`).

`Announced` is the length in the header, `OptionsAt` the offset from which `Unpack`
parses options; both are sums of their own in the code, taken from counters.
`OptionsLen` adds up the lengths the options say they have, each a `uint16`,
`OptionsWidth` the bytes that are written. `Arrives` says what a field is when the
cells of the two ends lie on the same bytes. `Outbox` sends such packets one at a
time (`SendPlain`).

### Handshake

The client dials again and again on one `Client`; each attempt has its own
connection with a server side. An authenticator is the tuple of what is hashed.
An id is a name and a length, since padding is what the two ends treat
differently. An attempt has a timeout or none (`timeout` 0, for which no
deadline is set). The server's active tests and its exit request share the socket
with the login response.

## 3. The runs

| Run | Bounds | What it shows |
|---|---|---|
| `serverconn_safety` | N = 2, two packets each way, two packets from the peer (a submit, an exit, a refused one), one unasked answer | `TypeOK`; `TestsConserved`: counter and tests in flight, owed, lost or unserved always agree; `CounterInRange`; `PipelineIntact`: responses in order, none skipped; `ImplementsWatchdog` |
| `serverconn_live` | N = 1, one packet each way, one submit, one unasked answer | `SilentPeerDropped`; `RequestsAnswered`: a request is answered unless the connection ends first, and one whose handler has returned, with an error too, before it ends; `TesterWindsDown` |
| `serverconn_alarm` | N = 2, three packets in, none unasked | a violation, see 6 |
| `conn` | two users with one draw each, two closers with two calls each, one of which may run `Connect` with its two calls of `SetState` | `TornDownInOrder`, `PanicNeedsTwoClosers`, `ForgedOnlyWhileClosing`, `CloseCompletes` (a panic in the middle included), `DrawNeverHangs`, `ImplementsChannel` |
| `recv` | three packets, bodies of zero to two units | `FramesIntact`, `NoStaleDeadline`, `TimedCallReturns`, `ImplementsDelivery` |
| `pool` | two connections, three buffers, four packets | `Exclusive`, `CopiesIntact` |
| `pool_options` | the same | a violation, see 6 |
| `gateway` | two connections, nine failures in a row, one minute, generators that begin at 999997 and 999998, three submits of two destinations, clients that may stop reading | `BackoffRight`, `ReportFindsItsSubmit`, `FieldsRecovered`, `KnockServed`, `AllReported` |
| `outbox` | two senders, three texts of one to three parts or one of 255, one or a hundred destinations, references that begin at 0 or 254; or one packet of any type with an odd value in one field, counters that are off, two or a hundred destinations, options of 65535 and 65537 bytes | `RefsInOrder`, `PartsFit`, `TextsReassemble`, `StaysInStep`, `FieldsArrive` |
| `session` | a status report whose id has a zero byte, and an exit request | a violation, see 6 |
| `handshake` | two attempts, every combination of two ids, two lengths, two secrets, two versions, with a timeout or without, one test | `OkMeansAccepted`, `OnlyRefusalLeaks`, `RefusedForCause`, `ConnectReturns` |
| `handshake_login` | the same | a violation, see 6 |

Why the bounds are enough. *ServerConn*: N = 2 is the least that tells "one
missing" from "all missing"; buffers of two let an answer overtake the
increment, block a writer and hold a response between two tests; two packets
from the peer order two responses; one unasked answer takes the counter below
zero. The liveness run is smaller: one test unanswered, a full buffer in each
direction and an answer in excess are in it. The bounds matter little for
safety, since every safety property of every component is proved for all values
of them (section 5); they matter for liveness. The tester is not bounded: what
it has in flight is bounded by N. *Conn*: two closers and two calls each give
every race of `Close` with itself and a late call, a `Disconnect` before,
between and after the two calls of `SetState` and one more after that included;
a third closer can only panic where the second does. Two users meet both
generators in every phase. *RecvPkt*: losing the framing takes a header cut in
two and a following packet; a third packet shows what a receiver makes of the
rest. *BufferPool*: reuse takes two connections, and a third buffer shows one
that is not reused. *Gateway*: nine failures reach the cap of a second; the
starts are one apart, so that two connections meet at a number, and three
submits wrap the range; the minute has a zero field; a second destination is the
one that waits when the first report is not read. That submits of different
minutes differ is left to the proof (`IdsDiffer`, `ReportsAreFound`). Failures
happen only while a connection is still to come (`served # Clients`), since
later ones concern nobody. *Outbox*: texts of 140, 141 and 402 bytes have one
part, a last part of seven bytes, and three full parts; 34170 bytes are 255
parts, the most that bytes can number, sent alone; 254 wraps the reference;
three texts of two senders give every race. A behaviour sends a script or long
texts, not both: they share no state. A script is one packet, since `Pack` and
`Unpack` keep nothing between packets. `ScriptsAssumption` says what a packet of
a script is (`IsPacket`): numbers as wide as their types, octet strings of any
length, empty ones among them, texts without a zero byte, a content of the
length the packet has of it, reports with the fields of the protocol, and
options of any length. Counters that are off are among them, and options one
byte below and one above what a `uint16` holds. *Handshake*: a leak or a mix-up
of connections takes two attempts; N = 1 is enough for a test before, instead of
and after the response.

Deadlock is checked everywhere. Where a component really may stop, an action
without effect says when (`Terminated`, `Quiet`, `Stopped`, `Spent`, `Done`, `Idle`);
any other state without a successor is an error. `Terminated` admits a tester
blocked on `exceed` for ever: see 6.

## 4. Fairness

- `ServerConn` (`Fairness`): the scheduler runs each goroutine, so `ServeStep`
  and the tester's own steps are weakly fair. A writer that waits for room gets
  it if there is room again and again, since writers queue for the descriptor:
  `Finish`, `ServeExit`, `TesterSend`, `MockDeliver` are strongly fair. A select
  with two ready cases chooses at random, so `done` is not passed over for ever
  (`TesterDone`). A read deadline of two seconds does not expire each time before
  a packet that is there is read. *Nothing* is assumed of the peer: it need not
  read, answer or send. Hence the exception in the properties, `NeverReadAgain`:
  a peer that has stopped reading blocks `serve` inside a `Write` that has no
  deadline, and then neither the alarm nor an answer gets through.
- `Conn`: every step of a goroutine that can run is weakly fair; a generator's
  choice of `done` and a receive from a generator, which compete with other
  ready cases, are strongly fair.
- `RecvPkt`: `Receive` is weakly fair: a read ends with data, an end of file or
  the deadline. Nothing is assumed of the peer.
- `Gateway`: sleeping ends (`Wake`), and a delivery goroutine whose reports are
  out or whose connection has ended returns (weak fairness). A report goes out
  if its client reads again and again (`Sends`, strongly fair); *no* client has to,
  hence `NeverReadAgain` in `AllReported`, the exception `ServerConn` has too: a
  goroutine whose client has stopped reading for good stays in a `Write` that has
  no deadline, as long as the connection lasts. `Accept` is strongly fair: a loop
  that calls `Accept` again and again while a connection waits takes it some time,
  that is, errors that call themselves temporary are. A fatal error may come at
  any time; clients need not connect, submit, read or stay.
- `Handshake`: only the client's own steps are weakly fair; the server may never
  answer. A deadline passes if there is one: without a timeout `ConnectReturns`
  asks for a return only once the server has gone.

## 5. The proofs

Each module of proofs has an inductive invariant, `IInv`, shown by
`InvInit` (it holds at first) and `InvStep` (every step keeps it), and theorems
that follow from it. Where one property needs more than the others, it has an
invariant of its own on top of it.

### SeqFacts

Some properties are about data of any length: a stream that is a concatenation
of packets, a length that is a sum of widths, a delay that is doubled again and
again. `SeqFacts` has the induction they need. The library's theorems take the
property to prove as an operator, which no prover can be given; `SetInduction`
takes a set of numbers, and follows from the well-foundedness of the order on
the natural numbers. `Recursion` says that a function given by a first value and
a step exists, and `Flattened` what the fold `FlattenSeq` computes. For the same
reason the recursive definitions the proofs are about are functions on an
interval: `Sum` in `Codec`, `Doubled` in `Listener`.

### ServerConn

`ServerConnProofs` proves for every `N`, every buffer size and any number of
packets, from `ServerConnAssumption` alone (`N` and the capacities are positive,
the peer's packets are among those of the protocol):

- `TypeCorrect`: `Spec => []TypeOK`;
- `Invariance`: `Spec => []IInv`;
- `TestsAreConserved`: `Spec => []TestsConserved`;
- `CounterStaysInRange`: `Spec => []CounterInRange`;
- `PipelineKept`: `Spec => []PipelineIntact`;
- `Refinement`: `Spec => ImplementsWatchdog`.

`CounterInRange` is not inductive: the check of the counter and its increment
are steps apart, so the tester between them must be known to have room, and a
decrement must be known to meet a test. `IInv` adds what is missing:

- `RoomForTest`: while the tester is past the check and has not counted, the
  counter is below N. It is kept since only the tester ever increments;
- `TestsConserved`: a served answer stands for a test that was sent, so a
  decrement never goes below zero but for the increment still to come, or it is
  one of the answers in excess;
- `Lifecycle`: the three steps of `close()` come in order, and the exit request
  goes out only after `serve` has left its loop, once. It is a test to the peer
  but no increment, so conservation has a term for it; that the term is zero
  while `serve` still serves is what keeps a decrement within the range.

Conservation itself needs lemmas about counting tagged packets in a sequence
when one is appended or taken (`HowMany` of `Append` and `Tail`); these are at the
head of the module. For the refinement each action is mapped to the abstract step
it is, or to a stutter: the tester's `Write` is `Test`, the finished answer is
`Answer`, giving up is `Raise`, hearing the alarm is `Hear`, another way out of
the loop is `Leave`. `Answer` needs a positive number, which is
`TestsConserved` again.

`PipelineIntact` says that the replies under way, the request in service and the
requests under way are one run of consecutive ids. It is not inductive, since a
step must know where in the run it works. `Pipe` says so: for some `a` the ids
got + 1 to a are on their way out, a + 1 is in service if anything is, and the
rest is on its way in; `Unnumbered` adds that answers to tests carry no id, so
that dropping one leaves no gap. The lemmas `RunAppend`, `RunTail` and `RunJoin`
say what becomes of a run when a packet is appended, taken, or two runs meet.

### Conn

`ConnProofs` proves for any number of senders and of goroutines that call
`Close`, any number of draws and calls, from `ConnAssumption` (the two bounds are
natural numbers): `TypeCorrect`, `OrderedTeardown` (`TornDownInOrder`),
`PanicsNeedTwo` (`PanicNeedsTwoClosers`), and as action properties
`SilentAfterClose` (`NothingAfterClose`) and `ForgeryNeedsClosing`
(`ForgedOnlyWhileClosing`). What has to be added to make them inductive:

- `Phases`: where a goroutine is inside `Close` tells what has been closed; this
  gives the order of the teardown and that `returned` means a closed socket;
- `Window`: while the socket is open, a closed channel has a goroutine inside
  `Close` that closed it and will go on, since only the one that closed `done`
  reaches `numDone`, and only the one that closed `numDone` reaches the socket;
  a number that is not genuine exists only after that;
- `Blame`: as long as nothing has overwritten `State`, a closed channel goes back to
  a goroutine that called `Close` and is past it, has panicked, or reads its own
  CLOSED and nothing else, and so does not close again. So whoever finds the
  channel closed met another's work. `State` is overwritten only after somebody
  other than `Connect` has called `Close`, since `Connect`'s own `Close` comes after
  its last `SetState`; that is the second conjunct of `PanicNeedsTwoClosers`.

`TornDownInOrder` speaks of what goroutines may read: nobody reads the CLOSED of a
`Close` while the socket is open, whatever has been written over it.

`ChannelKept` is `Spec => ImplementsChannel`, from the same invariant. `SendPkt`'s
write is `Send` or, with the zero of a closed channel, `SendZero`, which needs a
link that is `closing`: that is `Window`. The first `close` of a channel is `Begin`,
the close of the socket `Shut` (later ones are stutters), and both ways out of
`Close` are `Tell`, which needs a link that is `shut`: `Phases` and, for the early
return, `TornDownInOrder`. That nothing is sent after a `Close` has returned is in
`Channel` already (`Send` needs a link that is not `shut`, `Tell` one that is, and
`shut` is for good), so `NothingAfterClose` is proved and no run checks it by itself.

### BufferPool

`BufferPoolProofs` proves for any number of connections, buffers and packets,
from `PoolAssumption` (`NoBuf` is not a buffer): `TypeCorrect`, `OneUser`
(`Exclusive`) and `CopiesSurvive` (`CopiesIntact`). The addition is `Kept`: between
the read and the handler, the packet that came in last is in the connection's
buffer until `Unpack` and in the copied fields after it. A step of another
connection keeps it because of `Exclusive`: it fills another buffer.

### RecvPkt

`RecvPktProofs` proves `TypeCorrect` and `DeadlinesAreOwned` (`NoStaleDeadline`)
for any number of packets and any length of bodies. A deadline ends a call
without a timeout only if it was on the socket when the call began; `IInv` says
there is one only inside the call that set it.

`FramingKept` is `Spec => []FramesIntact`, from `RecvAssumption` alone. The
invariant, `Framing`, says that nothing is lost between the socket and the
caller: while no header is torn, what the call has read, followed by what has
arrived and what is still to come, is the stream after the packets delivered
(`Read \o (buf \o coming) = Following(rest)`); and that a body is read with the
length of the packet it belongs to. When a header is complete, its two units
can be those of the next packet only (`NextHeader`), and when the announced number of
units has been read, cancelling them leaves the stream after that packet
(`WholePacket`, from `Cancel` in `SeqFacts`).

`DeliveryKept` is `Spec => ImplementsDelivery`, from `Framing` before and after the
step: a delivery from a whole stream is `Take`, since `NextHeader` says which
packet was read and that there is one; from a cut one it is `TakeAny`; a timeout
inside a header is `Cut`, or `End` for the client; every error is `End`, and all
the rest stutters.

### Handshake

`HandshakeProofs` proves for any set of ids, secrets and versions and any number
of attempts `TypeCorrect`, `SuccessIsEarned` (`OkMeansAccepted`), `RefusalHasCause`
(`RefusedForCause`) and `LeakNeedsRefusal` (`OnlyRefusalLeaks`). A timeout plays no part in them.
`IInv` adds what is under way: a login on the wire is that of its attempt, an answer on the wire tells
what that login was, and an attempt not yet made has left no trace.

### Outbox

`OutboxProofs` first proves about the operators of `LongSms`, for a text of any
length: `SplitCovers` (the chunks are the text, in order, none empty, rightly
numbered up to 255) and `PartFits` (a part and its packet fit). Then, for any
number of senders and texts: `TypeCorrect`, `ReferencesInOrder` (`RefsInOrder`) and
`PartsAlwaysFit` (`PartsFit`). `IInv` adds that, while nothing has raced, at most one
sender is between its read and its store, that `TpUdhiSeq` stands at the first
reference plus the number of those taken (less one inside that window), and that
each part on the wire is the part of its text with the number it has.

`TextsAreWhole` is `TextsReassemble` for at most 256 texts: a byte has 256
references, and the 257th long text takes the first one's again, whether or not
that one is complete. Its invariant, `WholeInv`, has three parts: `TakenInv`
(there are as many references taken as texts that have one), `ApartInv` (two of
them differ unless senders raced, by `RefsInOrder` and counting), and `PartsInv`
(what is out are the parts 1 to `out` of the texts, each of them). A complete
text then has all its parts out, they are the ones that carry its reference, and
`SplitCovers` puts them together.

`PacketsStayInStep` and `PacketsArrive` are `StaysInStep` and `FieldsArrive` for
every packet there can be (`IsPacket`): any number of destinations, any content,
any counters, any options, any report, octet strings of any length. The invariant,
`SentInv`, only says what has been sent; the work is in the lemmas about one
packet. `PackWide` adds up the width of the cells of each packet (`SumConcat` over
the pieces of a submit or deliver, `SumSame` over its destinations), and `OptionsWide`
what options write beyond what they announce (`Lost`). `PacketInStep` compares: the
difference from `Announced` is `Uncounted` plus `Lost` exactly, with no condition on
the counters, and the place of the options lies inside the announced body.

`PackedFields` says what `Pack` has made of a field before it is written.
`UnpackMatches`: cell for cell `Unpack` reads the fields `Pack` wrote, at the same
place (`SameStart`), and reads each as it was written but for two, the `MsgID` of a
deliver and the `ClientID` of a login (`ReadAs`). `RoundTrip`: what is read of a
cell is the value the caller filled in, or one of the five cases of `Altered`.
`CellArrives` and `PacketArrives` put this together for the field and the packet.

### Gateway

`GatewayProofs` proves about ids, for every code of six digits, every time and
every number: `IdRoundTrip` (`UnpackMsgId` is the inverse of `GenMsgID`) and
`IdsDiffer`. Then, for any number of connections and submits: `TypeCorrect`,
`IdsAreReadable` (`FieldsRecovered`), and, if there are at most a million submits,
`ReportsAreFound` (`ReportFindsItsSubmit`). `IInv` adds that connections that wait
are different ones and not yet served (so that a new generator cannot renumber
submits), that a generator stands at its start plus the number of submits of its
connection, and that the id of a submit is made from the place it has among them.
Two submits of one connection then differ in that place by less than a million.

`BackoffIsRight` (`BackoffRight`) is about the accept loop: doubling and capping
after each failure is the same as doubling that often and capping once, since
twice a delay past the cap is past it too. That `Doubled` is what its recursive
definition says (`Doubling`), and at least the first delay (`DoubledSize`), is
induction. Its invariant, `Backoff`, adds only that there are at most `MaxFails`
failures in a row.

### Only model-checked

The liveness properties, since fairness and `ENABLED` are beyond the prover:
`SilentPeerDropped`, `RequestsAnswered` and `TesterWindsDown` of `ServerConn`,
`CloseCompletes` and `DrawNeverHangs` of `Conn`, `TimedCallReturns` of `RecvPkt`,
`KnockServed` and `AllReported` of `Gateway`, `ConnectReturns` of `Handshake`. Every
invariant and every safety property of a step that a run checks is proved.

## 6. What the checks found

Each is a run whose single property is expected to fail.

1. `serverconn_alarm`: the alarm says a peer has not responded for N tests; it
   is raised on the counter alone, which counts answers that have arrived and
   wait to be served. A peer that has answered everything is dropped while
   `serve` sits in a handler or a `Write`.
2. `session`: `SmgpExitReqPkt.Pack` and `SmgpExitRespPkt.Pack` write the request
   ids of active tests (`exit.go:26`, `exit.go:46`). No exit packet is ever sent; the
   peer answers the exit request of `close()` as a test, and an exit response is
   taken for an answer to one.
3. `pool_options`: option values are slices of a pooled buffer that is given
   away before the packet is handled (`options.go:104`, `connection.go:144`).
4. `session` as well: the `MsgID` in the header of a deliver is read as a C string
   and cut at its first zero byte (`deliver.go:110`); the one in the content of a
   report is whole.
5. `handshake_login`: the client hashes its id before padding it, the example
   server after (`login.go:33` and `39`, `examples/server/main.go:36`), against the
   formula of `utils.go:37`. The example's own user, "100", cannot log in through
   `Client.Connect`.

Passing properties that carry an exception name a weakness too:

- `TesterWindsDown` allows a tester blocked on `exceed` for ever once `serve` has
  left (a goroutine leak);
- `SilentPeerDropped`, `RequestsAnswered` and `AllReported` except a peer that never
  reads again: a `Write` has no deadline (`connection.go:115`);
- `FramesIntact` excepts a timeout inside a header (`server.go:321`);
- `PanicNeedsTwoClosers` allows the panic of a double `Close`: of two goroutines,
  or of one whose first `Close` came during `Connect` and was overwritten by
  `SetState` (`client.go:70`);
- `ForgedOnlyWhileClosing` allows packets with the number zero of a closed channel;
- `OnlyRefusalLeaks` allows a refused login to leave its connection open
  (`client.go:66`), and `ConnectReturns` a `Connect` with timeout 0 to wait for ever;
- `StaysInStep` says by how much a packet is longer than it announces: what its
  counters leave out, and 65536 for every option that does not fit a `uint16`
  (`types.go:81`);
- `FieldsArrive` excepts exits, packets whose counters or options are off, and what
  `Altered` lists: both authenticators, which `Pack` overwrites (the one `handleLogin`
  sets in its response, `examples/server/main.go:50`, never goes out), a `ClientID` in
  eight bytes, a time left out, and message ids in ten bytes, in a deliver up to
  their first zero byte;
- `TextsReassemble` and `RefsInOrder` except races on `TpUdhiSeq` (`utils.go:175-176`),
  after which two texts can share a reference;
- `ReportFindsItsSubmit` excepts two connections whose generators meet at a number
  within a minute;
- `CounterInRange` lets every unasked answer put the alarm off by a test.

The comment of `utils.go:81-89` calls every field of a message id BCD while `%06x`
writes hexadecimal; `FieldsRecovered` shows the two functions agree with each
other.

## 7. What is not modelled

- The values of fields. `Codec` has lengths, zero bytes, widths and places; numbers
  are cells, options are the lengths of their values, and what `ParseOptions` does
  after the offset is not told. `String` methods, logs, tables, time formats and
  character sets have no property.
- What the server's authenticator is computed from (`login.go:109-113`): in `Codec` it
  is any sum of `Pack`'s own, and the client does not look at it.
- What a `Disconnect` before `SetState(CONNECTED)` should do: it does nothing
  (`CloseUnset`), and no code or comment says otherwise.
- Packets of other implementations whose counters are larger than their body, which
  make `Unpack` panic (`submit.go:106`, `deliver.go:129`): in `ServerConn` they are the
  tag `Bad`, and no property says what becomes of them.
- Time. A tick, a timeout or a timer may fire whenever the code waits for it.
- The wrap of `counter` at 2^31: `CounterInRange` bounds it by N.
- The peer's misbehaviour beyond silence, closing, not reading, answers in excess
  and refused packets.
- What a second handler of the chain does; `ServerConn`'s report goroutine sends one
  report.
- The example client, which does not compile at this commit: it calls
  `pkg.GetLongMsgPkgs` (`examples/client/main.go:87`), and the package has only
  `GetMsgPkgs`. Its use of the library is the client of `RecvPkt`, and its loop over
  the packets of a text the sender of `Outbox`.
- Crashes and restarts: nothing is persisted.
- `RecvPkt`, `BufferPool` and `ServerConn` see a receive at different grains
  (units, buffers, packets) and are not composed; a connection whose framing is
  lost is a stream of `Bad` packets or unexpected ones in `ServerConn`.

## 8. The order of the work

The modules were written in the order of what the system can least do without:
`ServerConn` with `Watchdog`, `Conn`, `BufferPool`, `RecvPkt`, `Handshake`, then
`LongSms`, `Codec` and `Outbox`, `Listener`, `MsgId` and `Gateway`, each with its
proofs; the abstract `Channel` and `Delivery` came last.

What could follow: the handler chain as a sequence of handlers; the options of a
packet one by one.
