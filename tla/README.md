# Verification of as-smpp

as-smpp is a small SMPP 3.4 client library in C (an ESME: it connects to an
SMSC, binds, submits short messages, receives deliveries and answers the
SMSC's requests). It has no tests. This directory holds TLA+ models of its
concurrent and stateful parts, TLC configurations that check them on small
instances, and proofs that TLAPS checks for every value of the constants.

Paths below are relative to `src/` of the repository; `core/` stands for
`src/as-smpp-core/src/`.

## 1. Inventory

| Part | Code | State | Operations |
|---|---|---|---|
| session state | `core/session.c` | `state`, `stateMutex`, `stateCondition` | `as_smpp_session_set_state`, `_wait_for_state`, `_get_state` |
| session object | `core/session.c`, `src/as-smpp-esme/src/esme.c` | the session struct, three handlers | `create`, `destroy`, `set_handler_*`, `as_smpp_esme_start` |
| send path | `core/smpp.c` 38-203 | `sendBuffer`, `sendMutex`, `sequenceNo` | `as_smpp_bind`, `_submit_sm`, `_enquire_link_response`, `_deliver_sm_response`, `as_smpp_send` |
| receive path | `core/smpp.c` 205-331 | `receiveBuffer`, the worker's locals | `as_smpp_receive_worker`: framing, dispatch, handlers |
| connect | `core/smpp.c` 333-354 | `socketHandle`, the worker thread | `as_smpp_connect` |
| growing buffer | `core/core.c` 163-246 | `ptr`, `capacity`, `dataLen` | `init`, `ensure_capacity`, `add`, `copy`, `remove`, `destroy` |
| map, variant | `core/core.c` 29-141, 248-357 | a binary search tree by hash | `map_add`, `map_remove`, `map_get` |
| serializer | `core/serializer.c` | none | integers, strings, addresses, dates, TLVs, PDU bodies |
| converter | `core/converter.c` | none | GSM 03.38, Latin-1, UCS-2 |
| net, threads, logger | `core/net.c`, `threads.c`, `logger.c` | none beyond the OS objects | wrappers of sockets and C11 threads |
| demo | `src/_as-smpp-demo` | none | an application |

How they interact. An application thread calls `as_smpp_esme_start`, which
connects, sets the state OPENED, starts the receive worker and sends the bind.
From then on two or more threads share one session without a common lock: the
worker reads the socket, calls the application's handlers, changes the state
and sends answers; the application's threads submit messages and wait for
states. They meet in three places: the state (under `stateMutex`), the send
buffer with the sequence counter (under `sendMutex`), and the socket.

What is hard in it:

* **interleaving**: the broadcast of `set_state` comes after the unlock; the
  send buffer is filled in several statements by whichever thread comes first;
* **ordering**: TCP cuts the PDUs anywhere; a connection ends in the middle of
  one, and with whole ones unread in the buffer;
* **boundaries**: the counter wraps, the buffer grows and is shifted, and one
  of the two requests does not use the function that wraps;
* **partial failure**: results of `send`, of thread creation and of the bind
  are ignored;
* **liveness**: waits compare with the present state only.

`PROJECT.json` lists each of them at its line under `hazards`.

## 2. Modules

| Module | Models | Abstract counterpart | Proofs |
|---|---|---|---|
| `SessionState` | `set_state`, `wait_for_state` | `SessionStateSpec` | `SessionStateProofs` |
| `Buffer` | `t_as_smpp_buffer`, as operators | | in the proofs of the modules that use it |
| `SendPath` (uses `Buffer`) | the four send functions | `SendPathSpec` | `SendPathProofs` |
| `Framing` (uses `Buffer`) | `as_smpp_receive_worker`, its loops | `FramingSpec` | `FramingProofs` |
| `Map` | `as_smpp_map_add`, `_remove`, `_get`, variants | `MapSpec` | `MapProofs` |
| `EsmeSession` | `as_smpp_esme_start`, `as_smpp_connect`, the dispatch, handlers, the application and the SMSC | composes `SessionStateSpec`, `SendPathSpec` and `FramingSpec` | `EsmeSessionProofs` |
| `Serializer` (uses `Buffer`) | every function of `serializer.c`, as operators on octets | | `PduProofs` |
| `Dispatch` (uses `Serializer`) | what the worker does with the octets of each command: bodies, TLVs, handlers, answers | | `PduProofs` |
| `Requests` (uses `Serializer`) | what bind and submit put into the send buffer | | `PduProofs` |
| `Converter` | `converter.c`, an iteration of a loop a step | | `ConverterProofs` |
| `SessionLife` | several starts of one session, their workers, and destroy | | `SessionLifeProofs` |

`MC*.tla` give the sets of the small instances, `*.cfg` their bounds. An
operator commented "Mutant of X" is a plausible mistake in X; each property of
each run is violated when one of them takes the place of X.

### SessionState

`pc[t]` says at which statement of `set_state` or `wait_for_state` thread `t`
is, `arg[t]` is its argument `a_state`. The steps are the accesses another
thread can observe: lock, store or compare, unlock, broadcast. `cnd_wait`
(`WaitSleep`, `WaitWake`) releases the mutex and joins `asleep` in one step,
as C11 says; it wakes up by a broadcast or by itself (`WaitSpurious`), and
then has to get the mutex again. Setters and waiters are separate threads: a
thread of the application that does both is covered because each thread makes
its calls in any order and number.

The abstract specification changes the state in one step and ends a wait in a
step in which the state is the awaited one. `set_state` takes effect at its
store and `wait_for_state` when it finds the state, which is why the broadcast
outside the mutex is harmless; `NoLostWakeup` says why, in terms of the code.

### Buffer

A buffer is `[ptr, dataLen]`; `ptr` is the allocated memory, so its length is
`capacity`, and cells that were never written are `Garbage`. A cell stands for
an octet (Framing, Dispatch, Requests) or for a field (SendPath). `as_smpp_buffer_copy` also stands
for the serialize functions, which ensure the capacity and write from `dataLen`
on. A serializer ensures the maximal length of a field, the model the actual
one; the capacity of the code is therefore at least that of the model. `Requests`
has the maximal length, too, and stores of its own.

### SendPath

A PDU is a sequence of fields: length, command, status, sequence number and
body. A call locks, resets `dataLen`, takes its number, writes header and body,
patches the length as `as_smpp_send` does (save `dataLen`, rewind, write,
restore), sends and unlocks. The fields of a body carry the thread and the
number, so that a field of another call, or a field that survived in the memory
from an earlier PDU, is told apart. `Starter` is the thread in `esme_start`,
which binds; other application threads may submit before that, since nothing in
the code stops them. The worker answers requests with the SMSC's numbers.
`linkUp` turns false at any time, in the middle of a send too; a send on a
broken connection fails and its result is ignored, as in the code.

The abstract specification sends whole PDUs atomically and numbers requests in
the order in which they go out. In the refinement a call takes effect at
`NetSend`; `nextNo` is the number the running call has taken, until it sends.

### Framing

The octets of a connection are numbered, and a cell of the receive buffer holds
the number of an octet: everything the framing can get wrong is which octets
are where. `SmscSend` writes a PDU of one of the lengths `PduLen`; `Receive`
returns any part of what was written, up to the size of the worker's local
buffer; `ParseHeader` reads a length from the first `LengthLen` cells only, as
`as_smpp_deserialize_pdu_header` does, and `LengthRead` gives the length of a
PDU only if those cells hold the head of one. `LinkBreaks` ends the connection
and may lose what recv has not returned. The dispatch (lines 234-318) is one
step here, `HandlePdu`, that records the octets it looked at.

### EsmeSession

The composition. Its steps are steps of `SessionStateSpec`, `SendPathSpec` and
`FramingSpec`, which is sound because the detailed modules implement them: the
state changes atomically, a PDU goes out atomically, PDUs come in one by one.
`pc` follows the starting thread through connect, OPENED, thread creation and
bind in the order `StartOrder`; other threads wait for states at any time and
submit when a wait for BOUND has ended, as the demo does. A submit is three
steps: it takes `sendMutex` and a number (`BeginSubmit`), stores the number in
the variable of its caller (`StoreNumber`) and sends (`SendSubmit`); `call` is
the submit that holds the mutex, and the bind and the answers wait for it
(`SendFree`). The worker reads a
PDU (`ReadPdu`) and works off what the dispatch does for its command
(`WorkFor`): call the handler, store the state, answer. The handler of any
PDU may submit before it returns (`HandlerSubmits`). The SMSC accepts or rejects the bind,
answers submits in any order, delivers to an accepted session, asks, and may
disconnect; a broken connection loses what was not received, and a send can
break it (`Sends`). Creating the worker may fail, which the code does not
notice. `known` is what the application finds in `*a_sequenceNo`, `reported`
what its handlers were called with. `Requested` counts the requests the SMSC has
written, up to `MaxRequests`. `Awaited` is the set of the states that the
application waits for: BOUND and CLOSED in the runs, as in the demo, any set of
states in the proofs.

### Serializer

Octets have a base `Base` (256 in the code, 4 in the runs), and the lengths of
fields are constants, so that a length field or a string can overflow in a small
instance. Layouts (`WrittenBind`, `WrittenSubmitSm`, `ReadSubmitSm`) are the
sequences of fields in the order of the calls in the code, with the kind and the
length the code gives to each; there is one for writing and one for reading a
`submit_sm`, because the code has two functions that have to agree. Each
`as_smpp_deserialize_*` returns a value and the new index, as the code does
through its pointer. The loops are recursive functions with the value after each
round (`Shifted`, `Gathered`, the fields read along a layout, the TLVs).
`InitCapacity`, `Slack` and `Garbage` are those of the buffers. The assumptions on
the constants are that there is more than one octet and the field of a length is
not empty, that command ids with the flag fit in their field, and that no string
is longer than an octet can count, so that the length of a PDU fits in its field.

### Dispatch

The receive buffer holds real octets here, and the worker is followed from the
header through the fields, the TLVs, the walk over them, the handler, the
`free`, the answer and the removal of the PDU. The memory behind the data keeps
what earlier PDUs left there, which is what the code reads when a response has
no body. `SmscLayout` is the wire format of the standard, written independently
of the layouts of the code. TLVs that are read are in `allocated` until they are
freed. `isNull` of an empty date is an arbitrary value: the code leaves the field
on the stack as it was. Any subset of the handlers may be set. `Allowed` is what the
SMSC keeps to, and `PduAssumption` says so of `Pdus`: numbers of one octet, strings
without zeros and with room for their terminator, a length of the message that is
its length, and requests with a body. The properties speak of every PDU in a
sequence: the n-th PDU of a kind has the n-th call or answer (`Handled`,
`Answered`). Two defects are left out of them, for which there are properties of
their own: the state behind a bind that the SMSC rejected (`BoundMeansAccepted`),
and the command id of the answer to a `deliver_sm` (`DeliverSmAnswered`).

### Requests

One bind and then submits, with arguments between NULL and one octet too many,
into a buffer that begins too small; `Written` grows the memory as the
serializers do and then stores. `BindArgument` and `SubmitArgument` are the C types
of the arguments: strings or NULL, octets, a message. The specification is
`RequestSpec`, apart from the `Spec` of `Dispatch`: the module of proofs extends
both. `RequestsReadable` says that no store went past
the memory and that what fits arrives. `PeerReads` reads what was sent by the wire format.

### Converter

The tables are built by `as_smpp_converter_init` in two passes, over all 256
values, as in the code; the three conversions are loops, an iteration a step.
Latin-1 input is restricted to characters below 0x80: above it the index of the
table is a `char`, negative on the platforms where `char` is signed.
`as_smpp_converter_latin1_to_gsm` never advances its pointer; `MaxOut` ends its
loop in the model (see the deviations below). `Different` lists the assignments
by which the code makes the table for encoding differ from the identity. The
properties describe texts by positions: `Place` is where the character of an
octet ends up, `Start` where the octets of a character begin. `CommonTexts` are
the texts, of any characters of both alphabets, that a decoding is compared with.

### SessionLife

One application thread creates a session, starts it up to `MaxStarts` times,
reads the state without the mutex, and destroys it, whatever the workers do; start `n` has the connection
`n` and, if its thread could be created, the worker `n`. Workers of different
starts are there at the same time, with `set_state` in its four statements, so
that a worker that has stored CLOSED and not yet unlocked or broadcast meets the
next start or the destroy. A connection carries PDUs of two parts each, and may
end between the two; the receive buffer keeps the first. The application starts
again only after it saw CLOSED, or when the last start failed
(`MayStart`). `destroy` removes what it frees, one call a step, from
`resources`. What a worker then does is undefined in C: in the model it goes on
with what the memory held, or stops, since no fairness makes it go on;
`WorkerHasSession` says which statements use what.

### Map

The map is used by one thread (it has no lock, and no other part of the library
calls it), so an operation is one step and its loops are recursive functions:
`SearchEnd` for the descent of add and get, `LastOn` for the walk of remove. The
nodes keep the pointers of the code, `up`, `r` and `l`, and remove performs the
same three updates in the same order: `ChildrenJoined`, `LinkMoved`, `UpMoved`.
A content is its rank in the order of `as_smpp_variant_compare`; the hash is a
function of the content. A variant is a scalar or points to a cell of the
caller; `as_smpp_variant_copy` keeps that pointer (see the findings), so the map
is correct only for a caller that leaves the cells alone while they are in it,
`KeepsMemory`. The memory of freed nodes can be allocated again.

## 3. Runs

| Run | Bounds | Distinct states | Shows |
|---|---|---|---|
| `session_state` | 2 setters, 2 waiters, states undefined, opened, bound | 23803 | waits end in the awaited state, no lost wake-up, refinement; waits for a stable state end |
| `send_path` | 2 application threads and the worker, 4 sends, `MaxSeqNo` 3, PDUs of 4 to 6 fields | 576k | PDUs intact, numbers distinct, refinement; every call returns |
| `send_path_deliver` | as `send_path` | | finding: a `deliver_sm` is answered with the command id of `enquire_link_resp` |
| `framing` | 4 PDUs of lengths 3 and 6, length field 2, pieces up to 4, capacity 3 | 172k | PDUs handled whole and in order, buffer drained and bounded, refinement; PDUs get handled, the session gets closed |
| `esme_session` | 2 application threads and all handlers, 2 submits, 2 requests of the SMSC, waits for BOUND and CLOSED | 2.5M | order of states, answers once, in order and after the handler, numbers known, submits behind the bind, everything reported before CLOSED |
| `esme_session_live` | 1 submit | 162k | requests get answered, waits for BOUND end when the bind is accepted |
| `esme_session_bound` | as `esme_session_live` | | finding: a rejected bind makes the session BOUND |
| `map` | 7 of 8 keys at a time over an even and an odd hash, 4 nodes; symmetry in nodes | 47k | pointers consistent, no leak, content stays in place, a finite map |
| `pdus` | up to 3 PDUs of 15 kinds, octets of base 4, two sets of handlers; a bind and 2 submits, strings from NULL to one too long | 933k | handlers get what was sent, PDUs and their TLVs are read to their end, answers readable; what fits its field is what the peer reads, stores stay in the memory |
| `converter` | all texts of two septets, texts of up to 4 octets of those that the tables treat in different ways | 80k | decoding by position, inverse of the table for encoding, UCS-2 big endian |
| `session_life` | 3 starts, 3 parts on a connection, destroyed at any time | 133k | one receiver, CLOSED by the right worker, PDUs whole unless one was cut, a start without a worker stays OPENED |
| `session_life_destroy` | 1 start, 2 parts | | finding: a session is destroyed under its worker |

`TypeOK` is the type invariant of a module; those of `SessionState` and
`SessionLife` are proved and are in no run.

Why the bounds are enough. Two waiters and two setters give every conflict on
the mutex, a broadcast that wakes a waiter for the wrong state, and a state that
changes again before the woken waiter runs; calls repeat without limit. Four
sends with `MaxSeqNo` 3 take the counter through its wrap and let three threads
queue for the mutex with PDUs of different lengths, so that a short PDU follows a
long one in the same memory, which starts too small and has to grow. In framing,
a piece of 4 octets can hold a PDU and the head of the next; the length field of
2 octets can be cut; a PDU of 6 is longer than a piece and than the initial
capacity, and with a piece of 4 behind 2 octets two PDUs of 3 are there at once.
Two submits and two requests give answers in another order than the requests,
and an answer of the worker between two sends of the application. Four nodes
allow the removal of a node with two children whose remaining child has a child
itself, on either parity of the hash, and trees of both hashes at once; sequences
of operations are not bounded. Three PDUs let one stand behind and one before
the PDU that is read, with and without a body, in one buffer; octets of base 4
make lengths of two octets and messages longer than one octet can say. The sending
and the receiving side have no variable in common, so that `MCPdus` runs one of
them in each behaviour. Texts of
two octets are all there is to one character, longer ones add escapes in a row
and at the end. Three starts let a worker be late by two of them, and three parts
are a PDU and a half. A thread that waits for a state other than BOUND and CLOSED
does nothing that the threads of `esme_session` do not: only the end of a wait
for BOUND lets it do more. `MaxSends`, `MaxSubmits`, `MaxRequests`,
`MaxPdus`, `MaxStarts`, `MaxOut` and `Awaited` bound the runs, not the proofs:
the theorems hold for all values.

Deadlock is checked in `SessionState` and `Map`, where a call is always possible.
It is not in the others, where the bounds stop the environment, the worker ends
with the connection, a wait may last for ever, a conversion returns, and a
destroyed session has no operations.

### Fairness

* A thread that was called goes on to its next statement (weak fairness).
* Taking a mutex is strongly fair: a mutex that is released again and again is
  granted in the end. C11 does not promise it, the schedulers of real
  systems provide it, and without it no claim about a contended mutex holds.
* `send` returns: the peer reads what it is sent, or the connection breaks.
  A peer that keeps the connection and never reads blocks the sender, which
  holds `sendMutex`, and with it the worker; this is outside of what
  `EveryCallReturns` says.
* recv returns when there is something to return.
* A thread that asks for `sendMutex` gets it if it is free again and again:
  strong fairness of `Bind` and `AnswerPdu` in `EsmeSession`, as above.
* A handler returns. A wait for a state that stays ends (`StableStateEndsWait`),
  which is the weak fairness of `EndWait` in `EsmeSession`.
* No fairness on the calls of the application, on the SMSC, on the breaking of
  the connection, or on spurious wake-ups.

## 4. Proofs

All are checked by TLAPS for any values of the constants that satisfy the named
assumptions of the modules.

**SessionStateProofs.** The inductive invariant is the type invariant, mutual
exclusion (a thread is between lock and unlock iff it owns the mutex), "who is
asleep is inside `cnd_wait`", `WaitEndsInState` and `NoLostWakeup`. Mutual
exclusion is what makes `WaitEndsInState` inductive: nobody can store a state
between the check and the unlock of a waiter. Sleepers wait is what makes
`NoLostWakeup` inductive. Each of the 13 actions preserves each conjunct.
Theorems: `TypeCorrect`, `WaitCorrect`, `WakeupsCorrect`, `Refinement`.

**The buffer.** `CopyData` and `RemoveData` state what copy and remove do to the
data and to the memory behind it; `EnsureCapacity` bounds the growth. They stand
at the head of each module of proofs that needs them, about the buffer of its
component.

**FramingProofs.** The invariant the runs check says nothing of the middle of
the loop, so the proof needs the position of the worker in the stream: the PDUs
tile the octets written (`Tiling`), and the data of the buffer is the
consecutive octets from the beginning of the first PDU not removed yet up to the
last octet received (`Position`). Then the first cells of the buffer are the
head of a PDU whenever the worker reads a length (lemma `LengthIsRead`), and
the length is that of this PDU. `MemoryBounded` is inductive because at `recv`
the buffer holds less than one PDU. Theorems: `TypeCorrect`, `HandledCorrect`,
`DrainedCorrect`, `MemoryCorrect`, and `Refinement`: every step of the receive
path is a step of the stream of PDUs of `FramingSpec` or none. The assumptions
are that the length field is not empty, that it lies in each PDU and in the
initial capacity, and that there is a longest PDU.

**SessionLifeProofs.** Nothing orders the worker of one start and the next start
but the state that the application reads without a lock. The argument: the
application starts again only when it has seen CLOSED or when the last start
failed (`StartingAlone`), CLOSED is stored only by the worker of the last start
that is alive (`LiveIsLast`), and that worker has left its loop by then, on its
own connection, which has ended. What it may still do, unlock and broadcast,
touches neither the socket nor the state. So `OneReceiver` and `ClosesItsOwn`
hold for any number of starts, although workers of several starts are there at
once. `Unread` says that a start without a worker stays OPENED. Theorems:
`TypeCorrect`, `OneReceiverCorrect`, `ClosesItsOwnCorrect`, `UnreadCorrect`.

`WholeUnlessCut` needs what lies where on each connection: the parts that were
taken from it are those of the PDUs handled on it, two each, and the one in the
receive buffer (`Parts`). A connection that ended within a PDU leaves its first
part in the buffer for the next one, so `Parts` is claimed only while each
connection that is down ended behind a whole PDU (`AllEven`), which is what
the property allows. Theorem: `WholeCorrect`.

**SendPathProofs.** `Exclusion`: exactly the owner of `sendMutex` is between
lock and unlock. Nobody else can then touch the buffer, and `Content` says for
each statement what the owner has made of it: the header with a length of 0, the
header and the body, and then the length stored over the first field with
`dataLen` put back. The buffer may still hold a longer PDU of an earlier call;
`dataLen` cuts it off (lemma `CopyFields`). At `NetSend` the data is therefore
the PDU of the call (`BufferIsPdu`), and that statement is where the call takes
effect: `Refinement`. `NumbersDistinct` is about pairs of PDUs any distance apart
and the counter wraps, so that the counter tells only the last number; the
invariant counts instead: from the number of a request on the wire to the next
number, the counter has advanced once for each request sent since and has
wrapped at most once (`NumbersLead`). `bind` takes its number without the function that wraps;
`BindPending` says that the counter is below its end while the bind is to come.
Theorems: `TypeCorrect`, `WireCorrect`, `NumbersCorrect`, `Refinement`.

**EsmeSessionProofs.** The properties relate what was read, reported, answered
and sent. `Progress` ties the program counter of the starting thread and the
worker to the state; `Current` says what is left to do for the PDU that was read
last; `Stream` and `Reports`, that the PDUs read are a prefix of those written
and those reported to the application are of those read; `SmscOrder`, that the
SMSC answers only what was sent and delivers only behind its answer to the bind;
`Calls`, that the running submit is at a step of `SubmitOrder` behind a bind that was
answered, has the next number, and has stored it before it sends; `NumbersKnown`, that
the application has the number of each submit on the wire;
`BoundFollowsResponse`, that BOUND comes behind a handled bind response, which
comes behind the bind; `Answers`, that the answers on the wire are in the order
of the requests read, and that the one the worker is at has none yet. Theorems:
`StatesOrdered`, `AnswersCorrect`, `HandlerFirst`, `NumbersReported`, `BindFirst`,
`ReportedWhenClosed`, and `Composition`: every step of a session is a step or a
stutter of each of the three abstract specifications. As those are implemented by
`SessionState`, `SendPath` and `Framing`, which is proved too, the session is
the composition of the detailed parts.

**MapProofs.** The trees hang on pointers, and reachability is an induction. It
is done without a recursive definition: the nodes under a node are the least
set that contains it and is closed under the pointers (`Under`), and because a
heap is finite, ways up and down end (`WayDownEnds`, from the well-foundedness
of strict inclusion on finite sets); an induction over the tree takes a lowest
counterexample. The recursive functions of the model's loops have a value since
each iteration goes on to a smaller set (`WalkExists`). Removing a node is two
operations: the other subtree is hung below the last node of the one that stays
(`Rehung`), and then the node has one child, which takes its place (`Spliced`).
Each keeps the heap a tree and its order, and `Hung` says that the nodes are
divided among the two roots by the parity of the hash. The order of the contents
(`Searchable`) is claimed only for a caller with `KeepsMemory`; the pointers,
`LinkedOnce` and `PointersStable` hold for any. Theorems: `TypeCorrect`,
`LinkedCorrect`, `StableCorrect`, and `Refinement` for a caller with
`KeepsMemory`: the trees implement a finite map.

**ConverterProofs.** About the tables: an octet that begins an extended
character ends none (`EscapesApart`), and of the characters that collide in a
table the last one stored is one that both alphabets have (`TakenBack`). About the
loops: the decoding is always at an octet that is not the second of two, and the
characters it has put out are at their `Place` (`Decoding`); in the encoding of a
text it is at the `Start` of the character behind those it has put out (`Reading`);
the units in front of the index are exchanged, and the index is never beyond the
first terminator (`Swapping`). Theorems: `DecodingCorrect`, `InverseCorrect`,
`Ucs2Correct`, for texts of any length.

**PduProofs.** What one side writes is what the other reads: proved from the
octets up. A number that is shifted out octet by octet is gathered again if it fits
(`IntegerRead`); a string without zeros ends at the zero behind it (`StringRead`); a
field is read with the length it was written with when the kinds of the two layouts
go together (`FieldRead`, `Pair`); and so are fields one behind the other, by
induction over the layout (`LayoutRead`), and TLVs up to the end of the PDU
(`TlvsRead`). Induction over a number is done as `LeastNumber` and `Induction` do it:
the numbers for which a fact holds are a set, and a set of numbers that is not empty
has a least one, since strict inclusion of finite sets is well-founded. Writing is the same along
the memory: each field makes room, stores behind the data and moves nothing that was
written (`FieldWritten`, `AlongWritten`).

`Requests` has the invariant `RequestInv`: the calls have the types of their
arguments, what is on the wire is octets, and every call that fits is readable. A
call adds one of each (`OneMore`), and what the send buffer held before, a longer PDU
perhaps, is cut off by its length. `Dispatch` has `DispatchInv`. `Traffic`: the memory
begins with the PDUs that arrived and were not removed, each behind the other, so
that the worker finds the header of the next one where it looks, and whatever a
response without a body makes it read cannot matter to the next. `AtPdu`: the header
it works with is that of the PDU at the front. `Reading`: how far it has read, at each
statement of the dispatch. `Logged`: the calls and the answers are those for the PDUs
that are done, counted: the one for the k-th PDU has the number of the PDUs of its
kind up to k, so that none is lost, repeated or exchanged. While a `deliver_sm` is
worked off, its call and its answer are made at different statements, and `Done` and
`Replied` say which of them there are. Theorems: `RequestsAreReadable`,
`HandlersCalledAsSent`, `PdusReadToTheEnd`, `RequestsAreAnswered`, for any base and
width of the numbers, any lengths of fields, any PDUs that are allowed and any number
of them in the buffer.

**Only model-checked**: all liveness (`StableStateEndsWait`, `EveryCallReturns`,
`PdusGetHandled`, `ClosedInTheEnd`, `RequestsGetAnswered`, `BoundWaitEnds`), which is
out of the prover's reach, and the three findings. Every invariant and every refinement
that a passing run checks is proved.

## 5. Assumptions about the environment

* The application ignores SIGPIPE, or the platform does not raise it: the code
  passes no flag to `send`.
* A blocking `send` takes the whole buffer unless it fails; the code does not
  look at the count.
* The SMSC conforms: the length in the header of a PDU is the number of its
  octets, and is at least the length of a header.
* Its strings fit the arrays they are read into, and it gives every command
  but a response with an error the body it has to have.
* The application does not start a session again before it saw CLOSED; after a
  start that failed it may start again at once. It may destroy a session at any
  time; the other properties of `SessionLife` suppose that a worker which then
  uses it does no more than the model has it do.
* Memory allocation succeeds; the code does not check it.

## 6. Findings

* `as_smpp_deliver_sm_response` (`core/smpp.c` 138-162) passes
  `AS_SMPP_COMMAND_ENQUIRE_LINK | AS_SMPP_COMMAND_RESPONSE_FLAG` to the header:
  the SMSC gets an `enquire_link_resp` where it waits for the
  `deliver_sm_resp` the function is named and declared for. Run
  `send_path_deliver`. `EsmeSession` models the answer by the function that is
  called, so that its other properties can be stated.
* The worker stores a BOUND state for every bind response, accepted or not
  (`core/smpp.c` 256-261), and an application that waits for BOUND as the demo
  does submits on a session the SMSC rejected. Run `esme_session_bound`.
* `as_smpp_session_destroy` (`core/session.c` 66-80) destroys the mutexes and frees
  the buffers and the session without ending its worker, which is in `recv`, or
  in a PDU, or has stored CLOSED and still unlocks and broadcasts. The demo calls it
  (`_as-smpp-demo.c` 128) with a session that is bound. Run `session_life_destroy`.

### Deviations that no run refutes a property with

They were met while the code was translated. The models contain them, and the
properties that hold are stated so that they hold beside them.

* `as_smpp_variant_copy` (`core/core.c` 29-47) does not copy what a pointer
  variant points to, although `as_smpp_map_create_node` (94, 103-110) makes room
  for it in the node: line 36 overwrites the pointer to that room. A caller that
  reuses the memory of a key finds the entry neither under the old nor under the
  new key; hence `KeepsMemory` in `Map`.
* The loop at `core/smpp.c` 299-301 walks `tlv` to NULL before
  `as_smpp_tlv_free( tlv )` at 308: the TLVs of a `deliver_sm` are never freed.
* `as_smpp_deserialize_datetime` (`core/serializer.c` 154) sets `isNull` when
  there is a date and leaves it uninitialised when there is none.
* A `submit_sm` response without a body, as an error has, is read as if it had
  one (`core/smpp.c` 266-271): the message id is made of the octets of the next
  or of an earlier PDU.
* A string that is longer than its field loses its terminator
  (`core/serializer.c` 63), which shifts the fields behind it for the peer. The
  length of a message is written in one octet; `a_maxSmLength` and
  `a_useMessagePayloadTlv` of `as_smpp_esme_start` (`esme.c` 49-50) are stored
  and not read.
* The loop of `as_smpp_converter_latin1_to_gsm` (`core/converter.c` 129-137)
  tests `*a_latin1` and never advances it: it ends for the empty text only.
* Nine GSM letters that Latin-1 has, at 0x5b-0x5f and 0x7b-0x7e, are in no table
  and are decoded to a zero.
* `as_smpp_session_destroy` (`core/session.c` 72-73) destroys `sendMutex` twice.
* The next start finds in `receiveBuffer` the part of a PDU that a connection left
  when it ended within it (`esme.c` 45); `WholeUnlessCut` is about all other cases.
* A handler of a bind response that waits for BOUND waits for its own thread
  (`core/smpp.c` 252-256).
* `as_smpp_connect` drops the result of `as_smpp_thread_create`
  (`core/smpp.c` 349): a start without a worker returns `ERROR_NONE`.
* The socket of a connection is never closed; the next start overwrites its
  handle.

## 7. Plan

Done: session state, buffer, send path, framing, the composition of one session,
the map, the octets in both directions, the converter, the life of a session
over several starts, and the proofs above.

Left: `Dispatch` as an implementation of the dispatch step of `EsmeSession`, and of
the step `HandlePdu` of `Framing`; the three agree by what their properties say of
the PDU that is at the front.

## 8. Not modelled

* The logger: it formats a line to a stream and has no state.
* Name resolution, socket options, `as_smpp_net_init` and `_fini`: no state of
  the session; that a connect may fail is modelled.
* Failures of the initialisation of mutexes and condition variables, and the
  timed wait of `threads.c`, which no caller uses.
* A `send` that takes a part of the buffer.
* Overruns: a string of the SMSC that is longer than the array it is read into.
* What the demo prints.
