# Verification of the SLMP client library

TLA+ models of `src/slmp`, a Python client for Mitsubishi PLCs that speak SLMP
(MC protocol, 3E and 4E binary frames) over TCP and UDP, in a synchronous
(`SlmpClient`) and an asynchronous (`AsyncSlmpClient`) form. One client is one
connection; its users may call it from several threads or tasks and may close
it at any time. Two things are hard in it. One is the life of an operation: its
turn among the others, a connection that may come too late, a `close()` that
does not wait, an answer that may belong to somebody else, and what a caller may
be told about a write that left and was never acknowledged. The other is that
the PLC believes whatever it gets: an entry in the wrong layout, a value in the
wrong slot or a range that is too long is answered all the same, by the wrong
device.

## Inventory

| Component | State | Operations | Interacts with |
| --- | --- | --- | --- |
| Synchronous operation queue, `_operation_queue.py:14-75` | `_waiters`, `_owner`, `_owner_generation`, `_depth`, `_generation`, under one condition variable | `turn()`, `invalidate()`, `ensure_current()` | every operation of the client; `close()` |
| Asynchronous operation queue, `_operation_queue.py:78-125` | the same with an `asyncio.Lock` and tasks | the same | the asynchronous client |
| Synchronous client, `client.py` | `_sock`, `_serial`, `_active_deadline`, `_active_state_changing`, counters | `connect`, `close`, `_request`, `_request_decoded`, `_send_no_response`, and some sixty commands that end in one of the three | the queue, the connection worker, the socket |
| Connection worker, `client.py:1799-1887` | a dictionary shared by the caller and a daemon thread | resolve, connect, hand over, give up | name service, the queue's generation, the clock |
| Asynchronous client, `async_client.py` | `_reader`, `_writer`, `_udp_transport`, `_udp_protocol`, as above | as above, with an await at each step | the asynchronous queue, the event loop |
| Asynchronous UDP protocol, `async_client.py:73-164` | one response waiter and the identity it expects | `datagram_received`, `error_received`, `connection_lost`, `begin_response_wait`, `forget_response_wait`, `fail_pending` | event loop callbacks, the client's transport generation |
| Wire codec, `core.py`, `constants.py` | none | encode requests, decode responses, pack and unpack values, device numbers and texts | the exchange |
| Request validation, `core.py:1485-1925` | none | point limits, field widths, overlap of random and block writes, read-only devices | the operation builders |
| Operation builders and decoders, `_operations.py` | none; the caller keeps the counts of a registered monitor | one payload builder and one decoder per command | both clients |
| Command policy, `_command_policy.py` | none | which commands change the PLC's state | both clients |
| High-level helpers, `utils.py` | none of their own; the cells and deadlines of a client's turn | bit-in-word read-modify-write, typed and named reads and writes, runs of values, polling, address texts | both clients; the queue's nested turns and `_active_deadline` |
| Device range catalog, `device_ranges.py` | none | a register window, counts and printed ranges, a search for the last readable address | both clients |
| Capability profiles, `capability_profiles.py` | constant tables | lookups | validation |
| Command-line tools, `cli.py` | the words a tool has changed for a test | probes that write and restore, label verification, reports | the synchronous client |
| Errors, endpoint resolution, socket options, exports, samples, scripts | none that matters here | | |

What makes each of them correct:

* **Operation queues.** One operation at a time; turns granted in the order
  asked for; nested turns of the owner do not open the gate; a close rejects
  everybody of its generation and nobody of a later one; no thread sleeps
  beside a gate it could take.
* **Clients.** A caller is told the truth: success only if no `close()`
  came first; an exact error only if the request cannot have been applied;
  `SlmpOutcomeUnknownError` only if it can. An answer is taken only for its own
  request. The transport of a closed generation is never used by the next one.
  Every operation ends and gives its turn back.
* **Connection worker.** The caller is back at its deadline; an open socket
  has one owner; a socket that comes late is closed and not used.
* **UDP protocol.** A datagram completes the waiter of its own request only;
  a lost transport retires its own generation only.
* **Codec, builders, decoders.** What a request says to the PLC is what the
  caller asked for; what a caller gets is what the PLC has there; a damaged
  answer is an error and never a value; a write changes nothing else.
* **Validation.** What is accepted fits the fields that carry it.
* **Helpers.** A read-modify-write is one step to the others, or somebody is
  told that it may not have been; each name of a named read gets the value of
  its own device, all of one moment; what one helper wrote another reads.
* **Range catalog.** It counts no point the PLC does not have, ends at a
  boundary, and prints addresses the client takes.
* **Test tools.** They leave a running PLC as they found it, or say so.

The hazards, each at its line, are listed in `PROJECT.json` with the properties
that cover them.

## The modules

| Module | What it is |
| --- | --- |
| `OperationTurn` | the abstract promise of an operation queue: a holder, a line, and the callers that a close overtook |
| `SyncQueue` | `_SyncFifoOperationQueue` |
| `AsyncQueue` | `_AsyncFifoOperationQueue` |
| `ConnectWorker` | `_open_ipv4_socket_before_deadline` |
| `SyncClient`, `MCSyncClient` | the operations and the `close()` of `SlmpClient`, over TCP and UDP |
| `AsyncClient`, `MCAsyncClient` | the same of `AsyncSlmpClient`, with `SLMPDatagramProtocol` |
| `MCClientsLive` | either client with the fairness of its own, for TLC |
| `AtomicWord` | the abstract promise of a read-modify-write: a word, and callers whose updates are one step |
| `BitInWord` | `write_bit_in_word()` over the queue's promise |
| `NamedRead` | `read_named()` and `poll()`: the plan, the read, the values |
| `MCHelpers` | `BitInWord`, `NamedRead`, `WriteProbes` and `Addresses` for TLC |
| `RangeProbe` | the search for the last readable register in `device_ranges.py`, synchronous and asynchronous |
| `RangeCatalog` | the rules of each profile, the SD window, the counts and the printed ranges |
| `Wire` | frames, device specifications, bits and words, in bytes |
| `Profiles` | the tables of the profiles and the point limits |
| `RequestLimits` | a request that grows until it is refused |
| `Requests` | the builder and the decoder of every command on devices |
| `Conversation` | a caller, the builders and decoders, and a PLC that takes the bytes apart |
| `TypedAccess` | the typed helpers of `utils.py` over `Conversation` |
| `Labels` | the label commands, and a PLC that expands the names |
| `WriteProbes` | the tools of `cli.py` that write for a test and restore |
| `Addresses` | device and address texts, parsed, printed and normalized |
| `MCCalls`, `MCRequests` | what callers ask for, and the modules from `RangeProbe` to `Labels` for TLC |
| `Subsequence` | the elements of a sequence at some of its positions, for the refinement mappings of the queues |
| `SyncQueueProofs`, `AsyncQueueProofs`, `SyncClientProofs`, `AsyncClientProofs`, `ConnectWorkerProofs` | theorems about the modules they are named for |
| `LimitsProofs` | theorems about `RangeProbe`, `RangeCatalog` and `RequestLimits` |
| `HelpersProofs` | theorems about `BitInWord`, `NamedRead`, `WriteProbes` and `Addresses` |
| `SequenceLemmas` | what is left of a line, and of what is picked from it, when somebody leaves it; induction up to a number; first and last positions |

How they are composed. `SyncQueue` and `AsyncQueue` are shown to implement
`OperationTurn`; the two clients and `BitInWord` take their turns from
`OperationTurn`. What the client models show of an exchange (a request is sent or
not, answered once or never, an answer is one's own) is what `BitInWord`,
`RangeProbe`, `Conversation` and `Labels` assume of it. `Conversation` stands on
`Requests`, that on `Wire` and `Profiles`; `TypedAccess` stands on `Conversation`.

`MCHelpers` and `MCRequests` put modules side by side that share no state: the
first state of a behaviour chooses one of them, the others stand still. So does
`MCClientsLive` with the two clients, of which a program uses one; the variables
that both modules have are there those of the client in use. `MCSyncClient` and `MCAsyncClient` do the same with setups: `setup`, a
variable that never changes, names a client (transport, frame, operations,
callers and bounds), so that a counterexample says which client it is about.

### SyncQueue

The variables are the attributes of the class, and for every thread its place
with respect to `turn()` and its local variable `generation`. One action is one
critical section of `_condition`: the lock is held from the `with` to its end
or to `condition.wait()`. `EnterFree` and `EnterWaiting` are the first pass of
the loop, `WakeRejected`, `WakeAdmitted` and `WakeWaitsAgain` the pass after a
wake-up, `LeaveNested` and `LeaveOuter` the `finally`, `Invalidate` is
`invalidate()`. `notify_all()` is `NotifyAll`: it makes the waiting threads
runnable, and each takes the lock in a step of its own. `Interrupt` is
`KeyboardInterrupt` raised by `condition.wait()`, which only the main thread
(`Interruptible`) can get; the ticket it leaves in `_waiters` belongs to no call
any more and becomes `NoThread`. The body of a turn is free to nest, to call
`ensure_current()` and to fail.

`GateSpec` is `OperationTurn!Spec` under the mapping holder = `owner`, line =
the tickets of `waiters` that belong to a call, stale = the threads whose
ticket has another generation.

### AsyncQueue

Tasks run one at a time, so an action is what a task does between two
suspensions; `turn()` suspends only in `lock.acquire()`. The lock is modelled
from `asyncio`: `locked`, and `waiters`, its deque of futures, each named by the
task that waits on it. `release()` gives the first future its result
(`WakeUpFirst`); the task takes the lock when it runs (`Admitted`), finds that a
close came meanwhile and releases it again in the same step (`Refused`), or was
cancelled before it ran ("doomed") and passes the wake-up on (`CancelledInLine`).
Unlike the synchronous queue, `invalidate()` wakes nobody: a task in line learns
of the close when the lock comes to it. `GateSpec` is `OperationTurn!Spec` with
the line made of the futures that are not cancelled.

### SyncClient

Uses `OperationTurn` for the queue (`Gate == INSTANCE OperationTurn`), so that
the client is checked against what the queue promises and not against one
primitive. `close()` is a process of its own: `CloseInvalidates`
(`invalidate()`), then `CloseReads`, `CloseClears`, `CloseCloses`, the three
statements of `_close_transport()`. An operation is cut at each point where
`close()` can change what it reads next: the generation (`Current`),
`self._sock`, and the socket object. The stages, in the order of the code:

| Action | Code |
| --- | --- |
| `StartFree`, `StartQueued`, `TurnGranted`, `TurnRefused`, `Leave` | the turn of `_request`, `_request_decoded`, `_send_no_response`, `connect` |
| `Begin` | `_request_unlocked` to the first lines of `_connect_unlocked` |
| `ConnectOpens`, `ConnectFails` | the result of the connection worker |
| `Adopt`, `CheckAdopted` | `self._sock = sock`, then `ensure_current()` |
| `Check`, `Grab` | `ensure_current()`, the test of `self._sock`, `sock = self._sock` |
| `SendNotAttempted`, `SendFails`, `Send` | `settimeout`, `attempted_send = True`, `sendall` |
| `Receive`, `ReadFrame`, `WaitFails` | `_receive_frame`, `_response_matches_request`, the loop around them |
| `Settle`, `RestoreTimeout` | the generation after correlation, the idle timeout |
| `Decode` | end code, acknowledgement, command decoder, publication |
| `SentOnly`, `Traced` | the end of `_send_no_response_unlocked` |
| `Fail` | the `except BaseException` handlers: a close wins, the transport is retired, the failure is classified |

A request is the number of its operation and, in 4E, the serial number its turn
took (`TakeSerial`). A frame is the request it answers (0: another route) and
one of four verdicts of the decoders: `ok`,
`ng` (a non-zero end code), `junk` (success with a payload that the command
rejects), `bad` (not a response, or error information of another request). A
3E frame matches by route alone, a 4E frame also by its serial number,
which wraps at `SerialModulus`. The environment answers a request at any time, once, on the
connection it came on, or never; it may answer a send-only command; frames of
another route may arrive. Four variables besides the state are history that the
properties read: `sending`, `overtaken`, `raced`, `matched`, and the number
`sockGen` of closes before a socket was opened.

On UDP an exchange sends one datagram and reads one; the socket stays after an
answer, so its receive buffer may hold duplicates and late answers of earlier
requests when the next one reads.

Abstractions: partial reads of a TCP frame (a read either completes or fails);
the trace hook; the counters; the caller-chosen serial number of the private
request functions.

### AsyncClient

Tasks of one event loop. A task that stands at a place of `Running` has the loop
and excludes every other step; a task suspended at an await stands at a place of
`Awaiting`, and there `close()`, a cancellation, another task, a datagram or a
lost transport may come first. `close()` is one action: it invalidates the gate,
clears the transport and only then awaits, after which it changes nothing.

| Action | Code |
| --- | --- |
| `StartFree`, `StartQueued`, `TurnGranted`, `TurnRefused`, `CancelledInLine`, `Leave` | the turn of an operation |
| `Begin`, `Resolved`, `ConnectFails` | `_connect_unlocked` up to the endpoint |
| `Opens` in `Adopts`; `Discards`, `DiscardEnds`, `Discarded` | the connection is there: adopted, or closed because a `close()` came |
| `Send`, `Drained` | the request is written, `drain()` |
| `ReadFrame`, `WaiterResumes` | an answer of the stream, the response future of the endpoint |
| `ExchangeFails`, `CleanupEnds` | the failure handlers of `_send_and_receive` and the await in them |
| `Sent`, `Traced`, `Decode` | the end of a send-only command, the trace hook, the decoder |
| `Cut` | a cancellation at the awaits behind the failure handlers |
| `DatagramReceived`, `TransportLost` | the callbacks of `SLMPDatagramProtocol` |
| `PlcAnswers`, `ExtraArrives` | the PLC and the network |

What is new against `SyncClient`:

* **Cancellation** at every await: in line, while connecting, in `drain()`, in
  the wait for an answer, in the cleanup of a failed exchange and in the trace
  hook, which may be a coroutine. In the last two the failure handlers are
  behind the task already: `cut` marks those, and `OutcomeContractUncut`
  excepts them (see the observations below).
* **Cleanup**: retiring a TCP transport awaits `wait_closed()`, so the turn is
  given back a suspension later than the transport was cleared.
* **UDP**: each endpoint has a protocol object with one response future
  (`waiter`). A datagram is delivered in any order, may be of another route or a
  duplicate, completes the future if it matches, and is dropped otherwise.
  `TransportLost` is the callback of an endpoint that may have been replaced long
  ago: it may fail only the waiter of its own endpoint, and retire the client's
  transport only if that is it.

### ConnectWorker

The caller holds `condition` whenever it is not in `condition.wait()`; the worker
needs it to store its socket or its exception. The clock and the generation of
the queue move whether the lock is held or not, so the checks of
`ensure_current()` and of the deadline are separate steps, before and after the
wait. `owned` is the worker's local variable `candidate`, `stored` the entry
`state["socket"]`. An attempt that was given up leaves its worker running, and
the next attempt runs beside it. In `SyncClient` an attempt is one step,
`ConnectOpens` or `ConnectFails`: that no stale socket comes out and that the
caller is back in time is what this module shows.

### BitInWord and AtomicWord

`write_bit_in_word()` beside callers that write the whole word. `Begins` installs
the deadline of the turn in `_active_deadline` and keeps the earlier one in
`prior`; both exchanges run under it; `Leave` puts the earlier one back on every
way out. An exchange is sent, carried out by the PLC, answered or failed; a
failed one that was sent may be carried out later if `orphans` is "late".
`AtomicUpdates` is a refinement of `AtomicWord` for every PLC that drops what it
did not answer; for the others `LossIsAnnounced` says that an update is lost only
after a caller was told that an outcome is unknown.

### NamedRead

`Compile...` are the branches of the loop in `_compile_read_plan()`: a word, a
double word, a read of its own, or a refusal; a bit device is read as a bit of
the word that starts at a multiple of sixteen; equal devices share an entry.
`Prepares`, `SendsPlan` and `Decodes` are one read, `PollsAgain` the next of
`poll()`. A value is a token of what was read and of the version of the memory,
so that `ValuesAreTheirs` can ask for the value of one's own device and for one
moment.

### Requests, Conversation, TypedAccess, Labels

These models are byte by byte, because a wrong byte is what they are about.
`Requests` builds the payload of every command on devices with the checks in the
order of the code, and decodes the answers. In `Conversation` a caller calls, the
PLC takes the frame apart by the protocol's layout (`Understood`), does what it
says to its memory and answers, and the answer may be cut, extended, of another
command or an error. What the PLC does is external to `src`; it is modelled from
the layouts the library is written for. `raise_on_error` is on, as by default.
`TypedAccess` replaces the caller by the typed helpers: a dtype and a kind of
device choose the command, one call may need several, and `promised` remembers
what finished writes left in the cells. `Labels` does the same for the label
commands, with names that refer to abbreviations.

### RequestLimits and Profiles

`Profiles` holds the tables, those with equal entries merged, and the checks of
the limits. `RequestLimits` lets a request grow by points, double words and blocks
while the builders accept it; `AcceptedFits` compares what they accept with the
width of the count fields, the length field of the frame and the datagram.

### RangeProbe

`low`, `high`, `left` and `right` are the local variables of
`_resolve_readable_point_count_*`; the values of `place` are its loops and the reads around
them. `_can_read_one_word_*` is `Yes` or `No`: an answer, or an end code, which
counts as "not readable" whatever its reason; any other failure leaves the whole
call (`ReadFails`). What the client model says of a read is used here: no request
is sent after a `close()`, an answer is not handed over after one, an end code
is. The PLC is a set of readable registers, of any shape, and if it is
`busy` it may refuse one that it has.

### RangeCatalog

The rules of each profile (which SD register holds the size of which device, how
wide, clipped where), the window that is read, the counts, and the ranges as
printed. The PLC keeps its sizes where its own profile lays them out, so that a
rule with a wrong register gives the size of another device.

### WriteProbes

A tool works through rows, each a sequence of exchanges (read, test write,
readback, restore), each of which may fail, be carried out late or not take its
value; the label verification may be left at the prompt. `ToolsAreHonest` says
that what stays changed is reported, that "OK" means a value was seen to move, and
that labels are put back.

### Addresses

Texts of devices are sequences of characters here, because code prefixes and
radixes are what can go wrong. `parse_address`, `format_address` and
`normalize_address` are operators; a behaviour parses a text and then its result.
`Number` and `NumberText` are recursive functions over the digits, so that
TLAPS can reason about them.

## The runs

| Run | Instance | Shows |
| --- | --- | --- |
| `sync_queue_fair` | 3 threads, one interruptible, 2 closes, 1 nested turn, 2 abandoned tickets | `OwnerInside`, `NoLostWakeup`, refinement `GateSpec`, `EveryCallEndsUnlessAbandoned` |
| `sync_queue_leak` | 2 threads, one interruptible | finding 2: `EveryCallEnds` fails |
| `async_queue_fair` | 3 tasks, each cancellable at any point, 2 closes, 1 nested turn | `WakeupPassedOn`, refinement `GateSpec`, `EveryCallEnds` |
| `sync_client_all` | `tcp`: 2 threads, 2 operations of any kind, 1 close, 3E, every verdict; `foreign`: reads and writes on TCP with one frame of another route; `udp`: the same on UDP, 4E, one late, foreign or duplicated datagram; `sequence`: 1 thread, 3 operations, 2 closes, serial numbers modulo 2 | types, `OutcomeContractUnraced`, `AnswerIsMine`, `OutcomesAreEarned`, `ClosedGenerationRetired` |
| `sync_client_race` | 1 thread, 2 writes, 1 close | finding 1: `OutcomeContract` fails |
| `async_client_all` | `tcp`: 2 tasks, 2 operations of any kind, 1 close, 3E, a trace hook that suspends; `foreign`: reads and writes on TCP with one frame of another route; `udp`: 2 tasks, 4E, one foreign or duplicated datagram; `sequence`: 1 task on UDP, 3 operations, 2 closes, 3E | types, `OutcomeContractUncut`, `AnswerIsMine`, `OutcomesAreEarned`, `OneLiveConnection` |
| `clients_live` | 2 threads, 2 writes, 1 close; or 2 tasks, 2 writes or send-only commands, 1 close; on TCP with one frame of another route | `ThreadsEnd`, `TasksEnd`: `EveryOperationEnds` of each client |
| `connect_worker` | 2 attempts, an interrupt in the first | `OneOwner`, `NoStaleSocket`, `CallerReturns`, `NoSocketLeft` |
| `helpers` | 2 callers, 3 updates of a word of 2 bits, a deadline of 2 ticks, 1 close; every list of up to 3 addresses of 19, 2 changes of the memory, 2 reads of a poll; lists of up to 2 rows of a tool on 2 words of 4 values; texts of every device code with numbers of all radixes | `AtomicUpdates`, `OwnDeadline`, `LossIsAnnounced`, `PlanIsSound`, `ValuesAreTheirs`, `ToolsAreHonest`, `TextsAgree` |
| `requests` | one call of every kind with every damage on 4 profiles, sequences of 4 calls; 2 helper calls in every combination, 3 on cells that overlap; label calls alone and in threes; requests of every command beyond every limit on all profiles; every set of readable registers of a range of 11, refused now and then; 7 families of profiles, each item of the catalog at 10 sizes | `RequestsAreUnderstood`, `AnswersAreRead`, `WritesOnlyWhatWasAsked`, `HelpersAgree`, `AcceptedFits`, `NeverOverstates`, `EndsAtBoundary`, `NoCatalogAfterClose`, `ProbesAreFew`, `CatalogHolds` |
| `requests_wide` | one random bit write to Extended Devices beyond the field, on 4 profiles | finding 3: `AddressesAreNotCut` fails |
| `requests_truth` | one single-request helper call, with an int among the bits | finding 4: `BitsComeFromBools` fails |

Why these bounds. In the queue a fault needs an owner, somebody in line, and a
third who may pass it; two closes make a ticket of a closed generation meet one
of the next. In the clients a fault needs an operation, a close between two of
its steps, and a later operation that meets what was left: two operations, one
close; the sequences add a second generation, and a modulus of 2 makes a
serial number return while the answer of its first bearer can still come. One
foreign or duplicated frame is enough because a frame of another route is dropped
before anything changes, and a duplicate does its harm, if any, with the next
request. Attempts of the connection worker share nothing but the caller, so two
show the overlap. Symmetry is used in safety runs only, between callers that
start the same operations.

Eleven registers are no power of two and no 2^k - 1, so the doubling is capped
and the halves are uneven; the sizes of a catalog are the edges of a nibble of
sixteen, of a word, of the clip at 32768 and of the search. Two bits tell a bit
from its neighbour, and three updates allow a lost one between two others. Three
addresses are enough for two of one kind with another between them, or for one
entry that two share; the nineteen take every route of the compiler. Calls use
numbers at the edges of their fields and one beyond, counts around a nibble and a byte, and
values with the sign bit of 16 and 32 bits.

Deadlock is not checked where the instance really ends: callers stop after the
operations of their setup, a connection attempt, a search and a conversation
end, and the queue with abandoned tickets can block (finding 2).
`async_queue_fair` checks it.

### Fairness

* `SyncQueue!FairSpec`: weak fairness of `Wake(t)` and `Leave(t)`. A runnable
  thread gets the lock in the end, and the body of a turn ends because every
  wait in it has a deadline. Nobody has to call or to close.
* `AsyncQueue!FairSpec`: weak fairness of `Resume(t)` and `Leave(t)`: the event
  loop runs every task that is ready. Nobody has to cancel.
* `SyncClient!FairSpec`, as `MCClientsLive` states it: weak fairness of the steps of an operation, for the
  same reason: `WaitFails` is the deadline. The PLC need not answer and
  `close()` need not be called or even finish. The fairness of a granted turn
  rests on what `SyncQueue` shows of calls.
* `AsyncClient!FairSpec`, also in `MCClientsLive`: weak fairness of `Runs(t)` and `Continues(t)`: the
  event loop goes on with a task that is ready, the deadline bounds every await
  of an exchange, `wait_closed()` and the trace hook return. Nobody has to start
  an operation, to cancel, to close or to answer.
* `ConnectWorker!FairSpec`: both threads run and time passes; `Resolves` has no
  fairness, a name service may hang for ever. `NoSocketLeft` excepts an attempt
  whose caller was interrupted.

The search, the helpers and the requests are checked for safety only; a search
ends because it asks few times (`ProbesAreFew`) and each read ends
(`ThreadsEnd`, `TasksEnd`).

## What is proved

For every value of the constants, by TLAPS:

| Theorem | Statement |
| --- | --- |
| `SyncQueueProofs!TypeCorrect` | `Spec => []TypeOK` |
| `SyncQueueProofs!MutualExclusion` | `Spec => []OwnerInside` |
| `SyncQueueProofs!WakeupsReachTheHead` | `Spec => []NoLostWakeup` |
| `SyncQueueProofs!SyncGateKept` | `Spec => GateSpec`: the queue implements `OperationTurn` |
| `AsyncQueueProofs!AsyncTypes` | `Spec => []TypeOK` |
| `AsyncQueueProofs!AsyncMutualExclusion` | `Spec => []OwnerInside` |
| `AsyncQueueProofs!WakeupsArePassedOn` | `Spec => []WakeupPassedOn` |
| `AsyncQueueProofs!AsyncGateKept` | `Spec => GateSpec`: the queue implements `OperationTurn` |
| `SyncClientProofs!Typing` | `Spec => []TypeOK` |
| `SyncClientProofs!ContractKept` | `Spec => []OutcomeContractUnraced` |
| `SyncClientProofs!OutcomesEarned` | `Spec => []OutcomesAreEarned` |
| `SyncClientProofs!TransportRetired` | `Spec => []ClosedGenerationRetired` |
| `SyncClientProofs!AnswersCorrelated` | `Spec => [](NoDuplicates \/ Signed => AnswerIsMine)` |
| `AsyncClientProofs!Typing` | `Spec => []TypeOK` |
| `AsyncClientProofs!ContractKept` | `Spec => []OutcomeContractUncut` |
| `AsyncClientProofs!OutcomesEarned` | `Spec => []OutcomesAreEarned` |
| `AsyncClientProofs!OneConnection` | `Spec => []OneLiveConnection` |
| `AsyncClientProofs!AnswersCorrelated` | `Spec => [](NoDuplicates \/ Signed => AnswerIsMine)` |
| `ConnectWorkerProofs!ConnectTypes` | `Spec => []TypeOK` |
| `ConnectWorkerProofs!OneOwnerAlways` | `Spec => []OneOwner` |
| `ConnectWorkerProofs!NoStaleSocketAlways` | `Spec => []NoStaleSocket` |
| `LimitsProofs!ProbeTypes` | `RangeProbe`: `SearchSpec => []TypeOK` |
| `LimitsProofs!CountNeverOverstates` | `SearchSpec => []NeverOverstates` |
| `LimitsProofs!CountEndsAtBoundary` | `SearchSpec => []EndsAtBoundary` |
| `LimitsProofs!CatalogIsCurrent` | `SearchSpec => []NoCatalogAfterClose` |
| `LimitsProofs!SearchIsShort` | `SearchSpec => []ProbesAreFew` |
| `LimitsProofs!CatalogInvariant` | `RangeCatalog`: `CatalogSpec => []CatalogIInv`, the types and the stages of a catalog |
| `LimitsProofs!TrueCatalog` | `CatalogSpec => []CatalogHolds` |
| `LimitsProofs!SizeTypes` | `RequestLimits`: `SizeSpec => []SizeTypeOK` |
| `LimitsProofs!Fits` | `SizeSpec => []AcceptedFits` |
| `HelpersProofs!WordTypes` | `BitInWord`: `Spec => []TypeOK` |
| `HelpersProofs!DeadlinesAreOwn` | `Spec => []OwnDeadline` |
| `HelpersProofs!UpdatesAreAtomic` | `Spec => AtomicUpdates`: every step is one of `AtomicWord` or a stutter while `orphans = "dropped"` |
| `HelpersProofs!LossesAreAnnounced` | `Spec => LossIsAnnounced` |
| `HelpersProofs!SoundPlan` | `NamedRead`: `ReadSpec => []PlanIsSound` |
| `HelpersProofs!OwnValues` | `ReadSpec => []ValuesAreTheirs` |
| `HelpersProofs!ToolInvariant` | `WriteProbes`: `ToolSpec => []ToolIInv`, the account of every changed word |
| `HelpersProofs!HonestTools` | `ToolSpec => []ToolsAreHonest` |
| `HelpersProofs!TextInvariant` | `Addresses`: `TextSpec => []TextIInv`, each result is that of its call |
| `HelpersProofs!TextsAreOne` | `TextSpec => []TextsAgree` |

They assume what each module says of its constants: `ThreadsAssumption`,
`TasksAssumption`, `BoundsAssumption` (no thread is `NoThread`, bounds are natural
numbers), `SyncClientAssumption` and `AsyncClientAssumption` (what a setup is),
`InterruptibleAssumption`, `ProbeAssumption` (a limit of at least two),
`BitInWordAssumption`, `NoJobAssumption` (no update is `NoJob`),
`NamedReadAssumption` (lists of well-formed addresses),
`WriteProbesAssumption` (lists of rows, an even number of values of a word),
`CatalogAssumption` (families that exist, sizes within the registers that hold
them, a search beyond every clip), `AddressesAssumption` (what follows a code is
characters) and `RequestLimitsAssumption`. TLC evaluates each of them in the runs. The type
invariants of these modules are repeated as invariants of runs for the two
clients only.

**SyncQueue.** The inductive invariant is `TypeOK /\ OwnerInside /\
TicketsInLine /\ NoLostWakeup`. `TicketsInLine` is what the other two lack: a
thread has at most one ticket in the line and is waiting or runnable while it
has one. Without it a thread could be admitted while a second ticket of its own
stays in line and blocks the gate, and the wake-up of the head could be owed to
a thread that is not in the loop. The only step that is not a matter of
unfolding definitions is `WakeRejected`, which takes a ticket out of the middle
of the line: `SequenceLemmas` says what that does to a sequence, and
`RejectedLeavesLine` that it removes the ticket of the rejected call and leaves
the order of the others.

The refinement needs one thing more, `NobodyLost`: whoever waits has a ticket,
and no ticket is of a generation yet to come. Then each step is one of the gate:
a call that arrives joins the line at its end (`PickAppend`), the one that is
admitted is the first of the live tickets (`PickHead`), a rejected one leaves
from where it stands (`PickWithout`), a dead ticket and a wake-up change nothing
the gate sees. The line of the gate is `Pick(waiters, Live)`, the waiters at the
positions of live tickets. It is written with a recursive function and not with
`SelectSeq`, whose definition the provers cannot expand; what the function
computes is shown by `TakenFacts`, with an induction that goes by a least
counterexample (`UpTo`).

**AsyncQueue.** `TasksInLine` as above, and `WokenAtHead`: a task that has been
woken is the first in line and the lock waits for it. It is what excludes two
woken tasks, of which the second would take a lock that is held; it survives
cancellations because a cancelled future is never the one that is woken, and
survives `EnterFree` because the lock lets nobody pass a future that is alive.
The refinement is shown as for the synchronous queue. A cancellation is the step
that differs: it takes the task out of the line of the gate although its future
stays in the deque until the task runs.

**SyncClient.** None of the five properties is inductive: each looks at the end
of an operation, and what makes it true happened places earlier. The invariant
says it place by place. `HoldsTurn`: a thread stands in a turn if and only if it
is the holder, so that the steps of an operation meet those of a `close()`, of
the PLC and of waiting threads, and no others. `Standing`: what a thread at each
place has sent and whether `activeSC` is its own. `Overtaking`: a thread that
was overtaken is in `stale` until it was told; one that was not, and did not get
its turn inside a `close()`, still has its socket, which is why it cannot run
into the `AssertionError` of finding 1. `SocketsKnown`: sockets are opened
one after the other, and one that is not open holds no messages, so that a new
one is empty. `Generations`: the socket that is adopted was opened since the last
`close()`, or its owner is about to be told.

`AnswerIsMine` is kept by two mechanisms, either of which is enough, and
`Correlation` has an invariant for each. `OneConversation`: whoever gives up a
request closes its socket, so that nothing but frames of other routes is in the
socket on which a request is sent, and at most one answer can come. It needs
`NoDuplicates`: TCP, or UDP without duplicated datagrams. `SerialsDiffer`: serial
numbers tell all requests apart; it needs `Signed`: 4E frames, and fewer
operations than serial numbers. Every setup of the runs is in one of the two
cases. What is in neither, 3E over UDP with duplicates, or 4E over UDP with
duplicates that arrive after the numbers have wrapped, is where the protocol
cannot tell (see the observations). The proof is by frames: `InsideSteps` says
what a step of the holder leaves alone, `Retires` what it does when it gives up,
and the lemmas about correlation are about these few kinds of step and not about
each action.

**AsyncClient.** The same argument with other seams. `close()` is one step, so
there is no race to except: `Transports` says that whoever exchanges has its
connection or is marked, and ties a pending response future to the task that
awaits it. `Settled` and `Earned` are the contract from the moment the outcome is
stored, which is before the cleanup that a cancellation may cut short.
`OneLiveConnection` is nearly inductive; it needs `InOrder` (a new connection is
one that no task has yet) and `Transports` (who connects has none).
`WaiterIsMine` extends the correlation to the frame a future already holds.

**ConnectWorker.** `AttemptInv` says for each place of the worker whether it has
a socket and whether the attempt is done (`WorkerInv`), for each place of the
caller what is stored (`CallerInv`), and that a result that was stale when it
was stored is still seen as stale afterwards (`StaleInv`), since neither the
clock nor a close is taken back. An action changes one attempt, so the proof is
one case per action.

**RangeProbe.** The loop invariants are the ones a reader of the code would write
beside its loops: while doubling, `low` was read and is below `high`
(`DoublingInv`); while bisecting, `low` was read, the candidates are
`low + 1 .. right`, and the register after them was refused (`BisectionInv`).
`CountInv` is what they leave at the end. The one arithmetic fact is
`MiddleBetween`. `SearchIsShort` needs an account of the requests beside it
(`CostInv`): after p answers the doubling stands at two to the p; when it ends,
fewer than two to the d candidates are left after d + 2 answers; and each
further answer leaves less than half of them. Then at most 2d + 2 requests were
sent, with two to the d below the limit. `power` is a recursive function, since
the provers know nothing of `^`, and `PowerFacts` to `PowerGrows` are its facts.
The history `probes` does not wrap before the search is over (`CountsOn`).

**BitInWord.** The invariant ties the places of the callers to the turn
(`HoldsTurn`: whoever is at a place of a turn is the holder), to their requests
(`HasJob`, `OnWire`) and to the deadlines (`Installed`: the active deadline is the
turn's own during a read-modify-write and none otherwise). `SeenIsCurrent` is what
makes the update one step: as long as no late write has come, what the holder has
read is what the word still is. `LateIsTold` says that there is a late write only
after a caller was told; it is kept because the exchange that leaves one behind
is the one that tells. `LossesAreAnnounced` then says of one step that changes a
word what `SeenIsCurrent` and `LateIsTold` say of the states before it.

**NamedRead.** `Routed` says that every entry of the plan has the kind and the
source of its own address, `Planned` that each index is in its list and the device
there is the source, `Answered` that the answer has one value for each device of
the plan. With `Distinct` (a list holds a device once) the index the code looks up
is the one it just appended or the one an equal device has: `LeastExists` gives the
first. Compilation only appends, so what was planned for earlier addresses stands.

**WriteProbes.** `ToolsAreHonest` looks at words and reports; the invariant
follows a row through its phases. `MemoryTyped` and `RowHolds` say what was
read and what would be written; `MovesAreSeen` that a readback equal to the test
values means each word changed, for which `ProbeValues` must differ from what
was there also where 16 bits wrap. `Restoring` is the account of `--restore`: a
word that differs from its origin belongs to a row that is NG, or to the row in
hand, which will be NG unless it restores it. It says the same of writes that
may still come late, and that is what makes it inductive: a late write may
undo the restore of a later row about the same word, and then an NG row about
it is already in the report. `Undoing` is the account of labels while no
exchange has failed: nothing but the label in hand differs from its origin, and
between two labels nothing does.

**RangeCatalog.** `CatalogGiven` says how the PLC's registers were laid out,
`WindowHolds` that the window holds in each of its registers the half of the
size that the PLC keeps there, and `CatalogBuilt` and `CatalogGiven` what every
entry is before and after the counts that are searched replace others. The tables are finite and written out,
so the lemmas go through them family by family; what they need of arithmetic is that two
halves make a size (`Halves`), that a clip does not raise a count, and that the
count of ZR bounds that of R. `SupportAgrees` and `BasesAgree` compare them with
the tables of the client: every device of a catalog with a last address is one
requests allow, in the radix `parse_device` reads.

**Addresses.** The one thing to show is that the text of a device is read as that
device, for numbers of any length. `CodesEnd`: no device code goes on with a
digit where another one ends, in the radix of the shorter one; it holds for
hexadecimal X, Y, B, W, SB, SW, DX and DY by looking at their letters, and for
all others because no code has a decimal digit. So the longest prefix is the
code that was printed (`CodeIsRead`). `NumberIsRead` is an induction over the
number for radixes 8, 10 and 16: a digit more multiplies and adds
(`OneMoreDigit`). The recursive functions are met as in `TakenFacts`.

**RequestLimits.** No property of reachable states is needed: `AcceptedFits` follows from
the types, by cases on the command and the profile. `WidestLimits` bounds every
entry of every table, and the lemmas beside it turn what is accepted into counts,
bytes of an entry and bytes of a payload.

Left to TLC:

* liveness under fairness (`EveryCallEnds`, `EveryCallEndsUnlessAbandoned`,
  `ThreadsEnd`, `TasksEnd`, `CallerReturns`, `NoSocketLeft`): the provers have no
  rules for fairness and `ENABLED`;
* `AnswerIsMine` outside of `NoDuplicates \/ Signed`, where it is not true;
* `RequestsAreUnderstood`, `AnswersAreRead`, `WritesOnlyWhatWasAsked` and
  `HelpersAgree`, that is everything in `Conversation`, `TypedAccess` and
  `Labels`: they relate byte sequences of many layouts to what a PLC takes out of
  them by folds over their entries, and the provers know neither folds nor
  powers.

## Findings

1. **A possibly sent write can end with `AssertionError`** (`client.py:1683`,
   run `sync_client_race`). `close()` invalidates the queue and retires the
   transport afterwards, outside any turn. An operation whose turn is granted
   between the two belongs to the new generation; `close()` still takes its
   socket away. If that happens after the send, `_receive_frame()` fails its
   assertion, and `_classify_exchange_failure()` passes an `AssertionError` on as
   it is. `API_REFERENCE.md:176-179` says: "A state-changing request whose
   result cannot be known after possible send raises `SlmpOutcomeUnknownError`".
   `OutcomeContractUnraced` shows that this window is the only one:
   every operation whose turn is not granted between the two halves of a
   `close()` keeps the contract.
2. **An interrupted waiter blocks the client** (`_operation_queue.py:48`, run
   `sync_queue_leak`). `KeyboardInterrupt` out of `condition.wait()` leaves the
   ticket in `_waiters`. When it comes to the head, nobody is admitted any more;
   `invalidate()` rejects the others and keeps the dead ticket, so calls after
   `close()` wait for ever as well. `API_REFERENCE.md:245-246` says: "`close()`
   rejects the active and queued generation; a later operation may establish a
   new transport generation."
3. **A random bit write to Extended Devices cuts its addresses**
   (`_operations.py:1281`, run `requests_wide`).
   `build_write_random_bits_ext_request()` is the one builder that does not call
   `_validate_device_span()`. Of a link-direct number, and of any number in the
   Q/L layout, `core.py:1267-1269` writes the low three bytes, so `J1\X1000000` is
   sent as X0, the address of another device. `CHANGELOG.md:114` says: "Addresses
   that exceed legacy or link-direct wire fields are now rejected rather than
   silently truncated"; `API_REFERENCE.md:137-140` says the same of both clients.
   `PlcUnderstands` and `WritesOnlyWhatWasAsked` except exactly these calls
   (`CutsOff`) and hold for every other; the run `requests` makes them too.
4. **The single-request bit helpers coerce** (`utils.py:1213-1214`, run
   `requests_truth`). `write_bits_single_request()` and its synchronous twin send
   `bool(value)` of each value, so that `[3]` or `["no"]` sets the bit.
   `API_REFERENCE.md:16-18` says: "Individual bit-write values must be actual
   Python `bool` objects. Numeric `0` and `1`, strings, bytes, `None`, and other
   truthy/falsy objects are rejected before request construction";
   `CHANGELOG.md:83` and `USAGE_GUIDE.md:805-807` say so too. `ReadsBack` expects
   nothing of the cells such a call wrote; the other helpers reject the value.

### Observations without a run

Places where code and words differ that the models met and step around. Each is
where a property has an exception or a model a restriction.

* **A write cancelled during the cleanup of its exchange** (`async_client.py:1523`).
  `_send_and_receive()` awaits `_close_tcp_unlocked()` before it classifies the
  failure; a task cancelled there ends with a bare `CancelledError` although its
  request was sent, where `API_REFERENCE.md:176-179` promises
  `SlmpOutcomeUnknownError`. `OutcomeContractUncut` excepts tasks that were `cut`
  and shows that no other task is told less than the contract says.
* **A duplicated 3E datagram** (`async_client.py:94`). A 3E response has no serial
  number, so a duplicate that arrives during the next request completes it.
  `CHANGELOG.md:62` says that duplicates are discarded. The setups with
  duplicates use 4E frames, and the one with 3E frames has none.
* **End codes and `raise_on_error=False`** (`_operations.py:722`).
  `decode_read_type_name_response()` does not look at the end code and makes a
  type name of the error information, where the comment at `client.py:346-349`
  leaves the error to the decoder. `Conversation` has `raise_on_error` on.
* **A mismatch is not restored** (`cli.py:2196-2198`, `:2119-2121`). A probe whose
  readback differs records NG and returns before it writes the old value back;
  the help at `cli.py:3739` says "write/readback/restore". `ChangedIsReported`
  asks for the NG row only.
* **Bits of bit devices** (`utils.py:806-807`). `normalize_address()` returns
  before it looks at the device and so takes `M100.3`, which `parse_address()`
  refuses; `USAGE_GUIDE.md:531-533` calls the functions a round trip. `OneText` is
  about texts that `parse_address()` takes, and those with a dtype.
* **An interrupted caller of the connection worker** (`client.py:1856`).
  `condition.wait()` is outside the handlers that set `abandoned`, so the worker
  stores a socket for nobody. `OneOwner` and `NoSocketLeft` except it.

## Not modelled, and why

* **Arguments, reports and read-only tools of `cli.py`**, samples, scripts and
  exports: they call the public API one call after another, and what they print
  is their purpose. The fixed sequence of remote commands and the load tests of
  `cli.py` are left out with them.
* **Endpoint resolution and socket options**: calls of the operating system whose
  failure is one outcome, `ConnectFails`.
* **Remote control, passwords, self test, clear error, buffers of modules**: their
  payloads are constants or copies of an argument.
* **Connection options and `open_and_connect()`**: constructor calls.
* **Extended Device texts with `U` and `J`**, blanks and case in addresses: the
  parsed device is an input of `Requests`; its text is left out.
* **Partial reads of a TCP frame**: a read completes or fails; a frame that is cut
  is one the decoder rejects (`bad`).
* **Traffic counters, error texts, trace contents**: nothing reads them.
* **The tables against the manuals of the PLCs**: command codes, device codes
  and limits are taken as the library has them.

## What remains

The manual extension specifications of the raw commands; and the composition of a
named read with calls of other threads between its requests, where each route of
the plan is a request of its own.
