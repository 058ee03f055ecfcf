# Verification of tRPC in TLA+

tRPC is a header-only RPC library in C++: a JSON-RPC client and server over one long-lived
TCP connection per client, on top of stackful coroutines and an epoll loop of one thread.
This directory holds TLA+ models of its parts, the TLC configurations that check them on
small instances, and TLAPS proofs for every instance. Line numbers refer to `src/`.

All text about the code is about the commit this directory was written for; `PROJECT.json`
maps every definition to the lines it stands for, and lists the hazards of the code with the
properties that would show each one.

## 1. The system

| part | code | state | operations |
|---|---|---|---|
| best-effort transfer | `trpc/detail/bestEffort.h` | offset, retries, clock | one loop of poll, read or write, up to `maxRetries` turns |
| Client | `trpc/Client.h` | socket, timeout, cached errno, health | `make`, `connect`, `call`, `close`, `error`, move |
| Health | `trpc/detail/Health.h` | how far the last response has been read | `check` drains an old response, `set` notes one |
| Server worker | `trpc/Server.h:266-333` | peer descriptor, buffer | waits for a byte, reads a request, answers it |
| Server listener | `trpc/Server.h:127-153, 184-254` | listening descriptor, table | `make`, `start`, `close`, move |
| dispatch, Codec, CallProxy | `Server.h:155-158, 256-264, 296-328`, `Codec.h`, `CallProxy.h`, `resolve.h`, `protocol.h` | table of methods | `bind`, `netCall`, error responses, `makeResult` |
| Coroutine, Environment | `base/co/Coroutine.h` | stack of resumptions, run states, pool of contexts | `createCoroutine`, `resume`, `yield`, end |
| Context | `base/co/Context.h`, `contextswitch.h` | registers and stack memory | switching, in assembly |
| event loop | `base/co/posix.h` | event table, epoll's interest list | `addEvent`, `loop`, `read`, `write`, `accept4`, `connect`, `sleep`, `usleep`, `poll` |
| vsjson | `base/vsjson` | none | `parse`, `dump`, conversions |
| TokenGenerator, Endpoint | | a counter, an address | |

How they interact. A user's coroutine calls `Client::call`, which first lets `Health::check`
empty the stream, then moves the request and the response by best-effort transfers. A transfer
polls with `co::poll` and moves bytes with `co::read` or `co::write`; each of these may leave
the coroutine in the event table and yield to whoever resumed it, in the end to the main
coroutine in `co::loop`, which waits for epoll and resumes the coroutines of one descriptor at
a time. `Server::start` is a coroutine that accepts peers and creates a worker coroutine for
each; the worker reads a frame, runs the user's callbacks and the bound function, and writes
the response. All shared state of a thread (event table, coroutine stack, `errno`, the table of
methods) is read and written between suspensions, so that a suspension is where things change
underneath. Between the processes there is nothing but two byte streams, and the handshakes that
set them up.

What is hard, and what makes each part correct:

- *Streams out of step* (Client, Health, worker). The ids of responses are never compared; what
  keeps a late answer apart from the answer to the next call is counting bytes. Calls are given
  up between any two bytes, the peer crashes, callbacks swallow messages. Correct means: an
  answered call has the result of its own request, a connection that is out of step is never
  used again, every call returns and every worker ends.
- *Soft timeouts* (best-effort transfer). Turns, intervals and suspensions inside a turn add up;
  `errno` belongs to the thread. Correct means: honest counts, a bounded overshoot, no early
  timeout, and an error code that names what has happened.
- *Lifetimes and resumptions* (coroutines, event loop). A coroutine lives as long as a shared
  pointer to it, and runs on a context that goes back to a pool while it still runs on it. The
  event table and epoll's list are two records of one fact, and descriptor numbers are used
  again. Correct means: nobody is lost, nobody is resumed who does not wait, nobody is destroyed
  while running, and whoever's event is there gets resumed.
- *Who is told what* (dispatch). Five ways to fail, on two sides of a `try` block, with
  suspensions in between. Correct means: an error that says "refused" implies that nothing ran.
- *A parser without an end* (vsjson, Codec). The parser gets a pointer into a buffer that is not
  terminated and was used before. Correct means: what is run is what was called, whatever stands
  behind the frame.
- *Coming and going* (connect, make, start, close). `SO_ERROR` is cleared by reading it, the
  result of `::connect` is not looked at, servers come up and go away meanwhile, descriptor
  numbers run out and are used again. Correct means: true only if connected, no failure keeps a
  descriptor, a server that is up in time is found, a peer in the backlog is accepted.

## 2. The modules

```
Transfer ------+--> BestEffort      --> BestEffortProofs
               +--> RpcConnection   --> RpcConnectionProofs --> RpcPromiseProofs
                       |  implements
                       +--> AbstractRpc
Coroutine -----+--> EventLoop       --------------+
               +--> CoroutineShared --> CoroutineProofs --> EventLoopProofs
Json ----------+--> Dispatch        --------------+
               +--> JsonProofs      --------------+--> DispatchProofs
Listener --> Connect --> ConnectProofs
```

**Transfer** has what the transfers of client and server share: the offset, the turns used, and
how a loop of turns ends. **BestEffort** is one transfer at full detail: `EnterTurn` is the
test of the loop, `PollTimeout`, `PollReady` and `PollError` the outcomes of `co::poll`,
`FuncMoves` and `FuncParks` the two ways through `co::read` or `co::write`, `Woken...` what
happens after its suspension, `Leave...` the exits, and `Wrap` the wrapper that caches `errno`.
Its clock counts milliseconds. A suspension may change `errno` (`Overwritten`).

**RpcConnection** is a client, its connection and the worker of its peer. `cpc` is the place in
`Client::call`, `spc` the place in `Server::onAccept`; each turn of a transfer is a step, so that
both sides and the network interleave there. The transfers are those of `Transfer`, without the
clock: a deadline may strike in every turn. A byte is a token `<<call, position>>`, so that the
model can tell whose bytes are read as a header or parsed as a message. A header that is not one
whole header reads as any length in `WildLengths`. `CheckRefuses`, `CheckPasses`, `DrainPart`,
`DrainHeader`, `DrainContent` and `DrainNothing` are the steps of `Health::check`. `left` is its
death countdown. A content is drained by one `::read` for all that is left of it, whose length
nobody compares with the buffer of the check; when more arrives than that buffer holds, either
nothing behind it was in use and the check goes on (`DrainContent`), or the model stops there
(`DrainOverruns`), as what a process does that has written over its stack cannot be said.
The server may die at any point; what the reader of a closed stream has not
read may be lost (`Cut`).

**AbstractRpc** is what `README.md:101-117` promises: calls one after the other, each refused,
given up, or answered after its own request has been run; a request is run at most once and
never after a later one was accepted. RpcConnection implements it (`KeepsPromise`), under the
refinement mapping at the end of the module: an answered call that got another's result maps
to a state AbstractRpc does not have.

**Coroutine** has the operations of `Environment` and `Coroutine`, for code that creates,
resumes, releases and yields as it likes; a coroutine is resumed and released by the one that
`holder` names, at first its creator. A coroutine that has ended is not re-entered: `resume` returns
at once, although the comment at `Coroutine.h:35-36` says that it may be resumed again.
**CoroutineShared** adds what a `shared_ptr` allows: it can be copied and passed on, and `resume`
looks at nothing but the end. `HandOver` gives the pointer that counts next to anybody who is
there, so that any coroutine may be resumed or dropped by any other, also by one above it in the
stack. Until the first `HandOver` (`handed`) resumptions are nested like functions; after
it a coroutine may stand in the stack twice, and control may come back to one that has ended.
What that does is undefined, and the model does not follow it. **EventLoop** extends it: `WaitFor` is one of the
waiting operations up to its `yield` (the system call that would block, `AddEvent`, the yield),
`WaitForTimer` those that open a descriptor of their own, and `StartLoop`, `Dispatch`,
`ResumeNext`, `EndTurn` are `co::loop`. `Usable` is the convention of `posix.h:17-23` that one
coroutine uses a descriptor at a time; the constant `UseClosed` lets one wait on a number that is
closed. `CloseFd` may be any coroutine's doing, as a callback has the server at hand, and it may
hit a number on which another one waits: the entry then stays in the table for good, and the
number is `Stranded`.

**Json** is what vsjson writes and reads, as operators: `Dump` is the chain of `operator<<`,
`Parse` the recursive descent of `Parser.h` (`parseImpl`, `parseArray`, `parseObject`; with
`ParseText` and `ParseNumber`). A text is a sequence of abstract characters, in which the field
names of messages are one character each; whitespace is left out, since `dump` writes none. What the
parser can read is the frame and all that stands behind it: a text is not ended by a zero, only by a
quote; of `true`, `false` and `null` the first letter is looked at and the length is skipped
unread; a power of ten is looked up in a table of 309 (`InTable`), and what is behind the table is
`Unknown`. `PlainAtom` says which values ought to survive the way there and back.
The parser is one recursive function, `Reading`, from what is read (a value, the elements of an
array, the fields of an object) and where, to what is read there and the place behind it;
`Closing` and `After` are where a text and a row of digits end. `Dump` goes three levels down, which
is how deep the library's messages are.

**Dispatch** is what happens to a request between `decode` and the response callback, and what
`makeResult` makes of the answer, for several clients whose workers share the table and the
process. Messages are values of Json; `Decodings` is the table of what the parser makes of each
message with each of `Behind` after it in the buffer. `DecodeThrows`, `RequestRejected`,
`CallbackThrows`, `MethodNotFound`, `InvalidParams`, `ConversionThrows`, `FunctionThrows`,
`FunctionThrowsForeign`, `ResponseRejected` and `ResponseSent` are the ways through `onAccept`;
`Terminate` ends the process when nobody catches. An error carries the message of the user's
exception (`ErrorFields`), and `params` that are missing are an empty object (`Params`).
RpcConnection sees the same lines as one step that runs the request.
Texts are written without an escape (`TypeCompat.h:42-45`), so that an argument, a result or a
message with a quote in it closes its field and may add a method, a result or an error.
`MessagesReadBack` is what the dispatch relies on nevertheless, whatever stands behind a
message: requests and results whose values survive their dump are read as they were, and what
reports an error is read as an error or not at all.

**Listener** is a number of servers in one process: `InitSocket`, `InitFails`, `Listen` are
`Server::make` up to `::listen`, `AcceptPeer`, `AcceptParks`, `AcceptDuplicate`,
`AcceptAgainFails` the ways through `co::accept4` in the loop of `Server::start`, `UserCloses` is
`Server::close`, and `Worker...` what a worker does with its descriptor. Numbers are natural
numbers and a new one is the lowest that is free, as the kernel has it. **Connect** extends it by
clients in another process: `Attempt` is a turn of `co::connect` up to its yield, `NoError`,
`Refused` and `OtherError` are what `SO_ERROR` says, `HasPeer` and `NoPeer` what `getpeername`
says, `GiveUp` and `Fails` the ways out. `Handshake`, `Refuse` and `TimesOut` are the kernels'
doing; `link` is what both kernels know of a connection. EventLoop is used by what it shows: a
waiter whose number was closed under it is lost, anyone else is resumed (`stale`, `entry`).

## 3. The runs

| run | shows | bounds |
|---|---|---|
| `best_effort` | results are honest; the timeout is overshot by at most an interval, a wait and two lags; no early timeout; a timeout is named ETIMEDOUT; every transfer returns | 3 turns, timeout 7, lag 1, park 2, sizes 0, 1, 3 |
| `best_effort_errno` | **violated**: a transfer cut short by a slow peer is not always reported as ETIMEDOUT (`Client.h:295`) | as above |
| `connection` | no answer is mixed up, both ends are in step when a call begins to write, dead stays dead, calls return, workers end, and AbstractRpc is implemented, when headers are moved whole, up to an overrun | 3 calls |
| `connection_huge` | **violated**: a content that does not fit the buffer of the check is read into it (`Health.h:83-86`) | as above |
| `connection_split` | calls return and workers end when headers are moved in parts, too | 2 calls |
| `connection_split_response` | **violated**: a response header drained in parts leaves bytes behind a passed check (`README.md:115`) | 3 calls |
| `connection_split_request` | **violated**: a request header written in part leaves the connection open (`README.md:109`) | 3 calls |
| `coroutine` | contexts are never shared, whoever resumes whom; until a pointer is handed on, nesting is proper and nobody is destroyed under its own yield | 3 coroutines, pool of 1, stack of 5 |
| `event_loop` | nobody is lost but those under whom a number was closed, no stray resumption, lifetimes, and every waiter whose event stays is served | 2 coroutines, 2 descriptors, pool of 1 |
| `dispatch` | what is run is what was called; values, failures and refusals agree with what was run; every call that no callback rejects is answered | 2 clients, 2 calls, 6 requests |
| `dispatch_decimal` | **violated**: a request with the decimal 1e+06 ends the server by an exception that the `try` block does not capture (`Server.h:307`) | 1 client, 1 call |
| `establish` | every open descriptor has one keeper; who is connected waits in a backlog or has a worker; who gives up has tried and leaves nothing; a server that is up in time is found; peers in the backlog are accepted; servers outlive their workers | 2 servers, 2 clients, 3 numbers, 4 retries |

Every property of a passing run has a mutant in `PROJECT.json`, an operator next to the one it
changes, marked *Mutation*; TLC finds the property violated by it.

Why the bounds are enough. In `connection` the headers have 2 bytes (so that one can be split),
the buffer of Health 2 and that of the client 5: the response of the first call fits both, that
of the second the client's only, so that the check overruns its buffer with it or, if it arrives
in small parts, does not, and that of the third fits neither, so that each limit is met by a
legal call. The death countdown is 3 instead of 5, which is enough
to run out in a header and in a content. Three calls are one that is given up, one that is made
while the answer is late, and one that comes after. Two turns stand for 10 and 6: one that moves
something and one that does not. In `event_loop` two coroutines are an owner and a creator, and
two descriptor numbers allow one to be closed and used again while the other is waited on; the
pool of one context (0xff in the code) overflows when the second coroutine ends. In `best_effort`
the timeout of 7 is not a multiple of its 3 turns, so that rounding matters; the theorems cover
every value. In `coroutine` three are one that resumes, one that is handed on and one that it is
handed to, and the pool of one is full when a second one ends. In `dispatch` there is a request
for each way through the code, with a number that has an exponent but no point, a text with a
backslash, and one that brings another method; a result that brings an error, the message of an error
that brings a result, and one that makes the error unreadable; behind a frame stand zeros or the end of a
longer request. `MaxCalls` counts the calls of both clients. In
`establish` one of the three numbers is standard input, so that two servers, or a server and a
worker, use all of them; a backlog of one is full with one connection; one close, one lost
packet, one worker for descriptor 0 and one client with a stale entry in its event table
(`Unlucky`) are enough for each of them to meet every state of the others. Four of the eight
retries are the first number for which a pause happens. One client connects at a time
(`MaxAtOnce`), the other one may be connected, accepted or closed meanwhile.

Fairness. *BestEffort*: weak fairness of the transfer's own steps: its timers fire and the event
loop resumes it. The wait inside `co::read` has no timer, so `MaxPark` bounds it by assumption
(`posix.h:152-169`). *RpcConnection*: weak fairness of the client inside a call and of the
worker, for the same reason and because bound functions are taken to return; calls, crashes and
closes need not happen. *EventLoop*: strong fairness of each coroutine's next suspension or end,
since coroutines are cooperative; strong fairness of `Dispatch` for each descriptor, since
epoll's ready list is a queue from which one element is taken at a time (`posix.h:449`); weak
fairness of the loop itself. *Dispatch*: callbacks and functions return and what was written
arrives; timeouts need not expire, because the default is 512 hours (`Client.h:93`). *Listener*
and *Connect*: weak fairness of the coroutine of a listener or a worker that runs, because
coroutines come to their next suspension; strong fairness of `Wake` as of `Dispatch` above; weak
fairness of a client in `co::connect`, whose socket or timer gets ready, and of the kernels,
which answer a request with a handshake or a refusal. Neither servers nor clients need come up,
and a backlog that is full need not be emptied.

Where deadlock is not checked the system really stops: all calls of a bounded number are made,
or all coroutines have ended and the loop waits for good.

Assumptions. SIGPIPE is ignored, as the tests do. Requests are made by `Client::call`, so they
are well-formed frames. The callbacks look at messages and do not change them; no method is
bound twice (binding one that is suspended would destroy the function under it). The retries of
`co::connect` are at most 23 (`RetriesAssumption`): with more, `1024 << (retries - 3)` does not
fit an int. The thrown
codes of bound functions (`UserCodes`) are not those the library uses itself. In Dispatch the
user asks `error()` after each call.

## 4. The proofs

`BestEffortProofs`, `RpcConnectionProofs`, `RpcPromiseProofs`, `CoroutineProofs`,
`EventLoopProofs`, `JsonProofs`, `DispatchProofs` and `ConnectProofs` are checked by TLAPS
for every value of the constants that satisfies the modules' assumptions: any number of calls and
turns, any sizes, timeouts, buffers, frames and wild lengths, any number of coroutines, workers,
functions, requests, servers, clients and descriptors. Every safety property and every action
property of the passing runs is a theorem, under the assumptions of section 3 and those named with
the constants. Three groups of theorems have a hypothesis of their own, given below: that headers
are moved whole, that closed descriptors are not used, and that messages can be written or, in
general, read back. The theorems on RpcConnection say nothing of what follows a check that has
overrun its buffer, and some of those on Coroutine hold until a pointer is handed on.

*BestEffort*. `IInv == TypeOK /\ Unfinished /\ HonestResult /\ Pace /\ Patience` is inductive.
`BoundedOvershoot` alone is not: from a state right before a wait it says nothing of how much
of the bound is used up, so `Pace` gives the clock at each place of the turn. `HonestResult`
needs `Unfinished` (while the loop turns something is left to move, so leaving early is never
complete). `NoEarlyTimeout` follows from `Patience` (every silent turn took an interval, and one
turn at most is undecided) and from the arithmetic of `IntervalFacts`: `MaxRetries` intervals
make up the timeout except for a remainder below `MaxRetries`. `TimeoutHasItsName`
(`TimeoutIsNamed`) has an invariant of its own, `Named`: a failure by deadline or by turns leaves
ETIMEDOUT in `errno`, and between there and the wrapper that caches it the coroutine does not give
up the thread. The other theorems are `TypeCorrect`, `ResultIsHonest`, `OvershootIsBounded` and
`PatienceIsKept`.

*RpcConnection, however headers are cut*. `IInv == TypeOK /\ Serving /\ Calling /\ Live` is
inductive. The type of `executed` needs `Serving` and that of `status` and `accepted` needs
`Calling`. `Live` says that behind the check the socket is valid and the health is NO_READ until
the call returns; with it, each action keeps a dead connection dead, which is `DeadIsFinal`
(`DeadStaysDead`). The lemmas on `Bytes`, `Drop`, `Cut`, `Announced`, `Decoded` and `Shortfall`
say what these return.

*RpcConnection, headers moved whole*. `RpcPromiseProofs` says why ids need not be compared.
`IPromise == IInv /\ Streams` is inductive if neither `SplitRequest` nor `SplitResponse` is set;
the runs `connection_split_request` and `connection_split_response` show that the properties fail
otherwise, so the hypothesis is needed. `Streams` accounts for every byte. `Got` and `Put` are how
much of the last accepted request the worker has taken, and of its response may have written;
`Requests` and `Responses` say that what lies in a stream is the `Segment` of that one frame
between the two ends' positions, that the client's place in the frame is the sum of what it has
read, and that a worker inside a frame that will never be completed meets a closed socket. Both
ends so count the bytes of one frame alike: a check that passes has seen the end of the response
(`Quiet`), and a new request begins in empty streams. `Order` and `Runs` tie this to the calls.
`AnswersAreOwn` (`OwnAnswer`), `StaysInStep` (`InStep`) and `NoneAccumulated`
(`NothingAccumulated`) follow. `PromiseKept` (`KeepsPromise`) is the refinement: under the mapping
at the end of RpcConnection, in which `Seen` is what AbstractRpc sees of a call's status, the
initial state is mapped to an initial state and each action to a step of AbstractRpc or a stutter.
`CheckPasses` is `Accept` and `CheckRefuses` `Refuse`, for which the calls before must have returned;
`RunRequest` is `Run`, and has not happened for this request before; the steps that fail are
`GiveUp`; `ReceiveContent` is `Answer`, for which the bytes parsed must be those of the call's own
response, and its request must have run.

*Coroutine*. The theorems are about `sharedSpec`, in which pointers are handed on. `IInv == Base /\
(~handed => Nesting)` is inductive. `Base` (`StackTypes`, `Bottom`, `ContextTypes`, `Counted` and
`ContextsApart`) holds whoever resumes whom, and `TypeCorrect` and `ContextsStayApart` with it. `Nesting` is
enough for `NestingIsProper` (`NestedLikeFunctions`) and `YieldsAlive` (`YieldKeepsAlive`):
`Distinct` (nobody is twice on the stack) could be broken by a resumption of one that is there already, and
what forbids it is `AboveHolder`: a coroutine on the stack stands right above the one that has a
pointer to it, and that one, the only one that could resume it again, is not the one that runs.
This is what ends with the first pointer that is handed on, and the code has nothing to put in its
place: without `~handed`, TLC finds a coroutine that resumes one below it.
`ContextsStayApart` (`ContextsApart`) needs that `Fresh`, a choice of an unused context, has one to
choose, which is a counting argument: contexts in use or in the pool are never more than the
coroutines that have begun (`Counted`), and starting one more leaves one over.
`ContextsAssumption`, that there are at least as many contexts as coroutines and finitely many
coroutines, says that an allocation does not fail; the code does not handle one that does.

*EventLoop*. `LoopInv == Table /\ LoopTypes /\ TakenWait /\ Running /\ ContextTypes /\ Counted` is
inductive. `Table` is about entries: where there is none nobody is left in the slots and epoll
watches nothing (`NoEntry`, `Watched`), an entry has one waiter (`OneSlot`, from the convention
`Usable`), the one in it waits for that event and has not been taken out (`SlotsWait`), and who waits
is found (`Found`). The timers' descriptors need `TimersWait`, as their entries disappear with them.
`Running` is about lifetimes: the coroutine on the stack has a pointer with the one below it or in
the array of the loop (`Supported`), and who waits is neither on the stack nor has it ended
(`Suspended`), so that no entry and no place in the array is the running coroutine's. `WaitersAreFound`
(`NoLostWaiter`), `ResumedAreWaiting` (`NoStrayResumption`) and `PoppedAreAlive`
(`PoppedStaysAlive`) follow for every use, `StrandedByOthers` (`OnlyClosesStrand`) if `UseClosed`
is not set: with it, a coroutine may strand itself by a wait on a closed number, which nothing
ever ends.

*Dispatch*. `RefusalMeansNotRun` (`RefusedNotRun`) follows from `Shapes` (the types it takes, which
the parser may fill with anything), `Before` (a request that has not reached its function has not
run it, and nothing has been written for it) and itself. It holds whatever `Decodings` contains, so
that no fact about the parser is needed. The others need one: `ValuesAreReturned`
(`ValueWasReturned`), `FailuresAreReported` (`FailureWasReported`), `NotFoundMeansUnbound`
(`NotFoundWasUnbound`), `DecodedIsSent` (`DecodedAsSent`) and `CallTypeCorrect` have the hypothesis
`MessagesReadBack`. `PlainMessagesReadBack` proves it from `PlainMessages`: the arguments that survive
their dump are any number of texts, numbers, booleans, nulls and arrays and objects of those, the
results that do may be nested once more, their texts and numbers are those that `RoundTrip` (below)
allows, and behind a frame stands anything that a buffer can hold. Of arguments and results that do
not survive their dump nothing is assumed, nor of the messages of the users' exceptions but that they are
texts. The proof goes by the shape of the messages (`RequestIsNested`, `ResultIsNested`) and the
look-up of their fields (`FieldOf`); for errors it is `ErrorsAreErrors`: the field `error` is the
first of its message, so that whatever the text behind it closes and adds, the parser has read that name
or reads nothing. `PlainDispatch` has the other properties without a hypothesis about the parser, and
with them that no request ends the process while it is decoded, if all of them can be written
(`Sendable`). `PlainIsDecoded` (`DecodedAsSent` again, with the invariant `PlainInv`) assumes nothing of the
results. The run `dispatch` is an instance of all of these.
`CallInv` is inductive under the hypothesis: for each worker, `Exchange` (what the response may be at
each stage, and that it refuses only what has not run), `Understood` (what was read is what was
sent, if that survives its dump) and `Told` (what the user was told stays true until the next call),
and `EndIsExplained` for the process.

*Json*. `RoundTrip`: parsing the dump of a value gives the value, and the place behind the dump,
whatever stands there. The values are `Nested3`, arrays and objects three deep, of any length and
with any names, of `Atoms`: null, booleans, `Texts` (no quote in them, no backslash at the end; zeros are
read as any other character) and `Numbers` (digits with a minus or not; a point before an exponent,
and that within the table of powers). A value at the top must not be a number, which would be read on
into what follows; the library's messages are objects. `ExponentNeedsPoint` is why the point is asked
for. `ParserEnds` is about everything else that a buffer may hold: the parser makes one pass over
what can be read, which does not stop at the end of the frame; it fails, or has read a value that ends
before the end of that, except for a literal, whose length is skipped unread. An induction on the structure of
values would need an operator for its hypothesis, which no prover here can instantiate. Three
things take its place. The recursive functions are over a finite range of places, and that they
exist and satisfy their equations (`AfterUnfolds`, `ClosingUnfolds`, `ReadingUnfolds`) is shown by
`Downwards`, an induction over a *set* of places, from the end of the text to its beginning. The
step of `Reading` reads only what stands further behind, so that it does not depend on the rest of
the function (`StepAgrees`); that is what makes it well defined, and why `Json` has an operator for
each of the three parsers with the function as a parameter. Lists are read by the same induction
over the places at which their elements stand (`Lined`, `SeparatedIsLined`, `ListIsRead`). And
nesting is not induction at all: `NestedReadsBack` says of any set of values that read back,
whatever they are written as (`Faithful`), that arrays and objects of them read back, and is used
three times.

*Listener* and *Connect*. `IInv` of `ConnectProofs` is inductive, and three properties follow from
it. `EachKeptByOne` says nothing of the numbers in use once a worker runs for descriptor 0, and so
do `Owned` and `Queues`, the parts of `IInv` it rests on. `Owned` says whose a number is, from both
sides. It is not inductive alone: accepting a connection would overwrite the number of a worker,
if the client had one already; `Queues` says that a client in a backlog is in no other place of any
backlog and has no worker, and `Settled`, `Types` and `StackShape` carry that through reconnections
and resumptions. That a new number is free is `LowestIsFree`: a set of numbers has a least element.
`ServerOutlivesWorkers` follows from `Employed` (the worker's server stands in its loop), with
`Possesses` (a server that may return false has no workers yet), and `StrayNeedsClose` from `Parked`
(a listener whose entry is in the table waits, unless its number was closed under it).
The proofs assume besides that no coroutine is a server and a client at once
(`NobodyAssumption`).
The client's properties rest on a second invariant, `Efforts == Limits /\ Counts /\ Trying`, which is
inductive together with `IInv`. `Trying` counts attempts: as long as the socket has not been cleared
by reading its error, the attempts that tried are ahead of half of all, and clearing it takes that
lead away, so that a client that gives up has tried in half of its turns. `Counts` has the sum of the
pauses, `Patience`, in which each is twice the one before; its closed form needs the powers of two
up to the 23 retries of `RetriesAssumption`, one by one (`Powers`), as no induction is at hand.
`GivingUpIsProper` (`GivesUpProperly`) and `ConnectTypeCorrect` follow. `ConnectionsAreHeld`
(`ConnectionIsHeld`) has a third one, `Held`, the converse of `Queues`: a client that is queued is in
a backlog, one that is accepted has a worker, and one whose `co::connect` returned true is queued,
accepted, or was ended by its server. That the backlog is one of a socket that listens and that the
worker's peer is open is `IInv` again. Closing a number is the hard step: it must reset just those that wait on it and
shut those that are served on it (`CloseEnds`, `CloseHolds`).

## 5. Only model-checked

Liveness under fairness: `Terminates`, `CallReturns`, `WorkerReleased`, `Served`, `Answered`,
`QueuedServed`, `LateServerFound` and `ConnectReturns`. It needs ENABLED and fairness, which are out
of the prover's reach.

## 6. Not modelled

- `Context` and `contextswitch.h`: registers and assembly; a context is an identity.
- `Endpoint` and `TokenGenerator`: no behaviour, and an id that no code compares.
- The storage of `Variant`, copies, moves and assignments of values, whitespace. (The assignments of
  `Json.h:89-100` destroy a value that the assignment of Variant destroys once more; all of the
  library's are to a field just made, an empty map, which bears it.)
- Moves and swaps of Client and Server, which rename an owner; `setTimeout` during a call.
- A `getsockopt` that fails (`posix.h:217-220`), and the timer of `co::poll` that cannot be created
  (`posix.h:357`), which leaves its epoll descriptor open.
- The size of the worker's buffer (`Server.h:286`), and what a client's process does after its
  check has overrun the buffer of `Health.h:66`.
- The end of a `Server` object by its owner while `start` is suspended in a coroutine; a `start`
  that returns is modelled (`ServerOutlivesWorkers`).
- Bound functions that throw the library's own exceptions for "no such method" and "invalid params"
  (`protocol.h:36-54`), which a client cannot tell from a refusal (`UserCodesAssumption`).

What the models show of the code without a run of its own, for whoever changes it:

- A server that is closed under its listener strands the number: the entry stays in the event table.
  The next owner of the number that waits for the same event is told so at once: `EPERM` from
  `co::connect`, 0 from the others (`posix.h:164, 181, 208, 259`), which for `Server::start` is a
  peer, so that it runs a worker for descriptor 0 (`Server.h:139-144`). One that waits for the other event, as
  `co::connect` does, or in `co::poll` and the timers, which yield in any case, is not resumed any
  more. `OnlyClosesStrand`, `StrayNeedsClose` and `ConnectReturns` say that nothing else leads
  there.
- The comment on the pauses (`posix.h:196`) begins with a second; the counter is advanced before the
  shift (`posix.h:193, 199`), so that the first pause is two and all are twice what it says
  (`GivesUpProperly` has the sum).
- A wait on a descriptor that was closed before suspends its coroutine for good, as the failure of
  `epoll_ctl` is not looked at (`posix.h:146`); the comments at `Client.h:86-88` and `Server.h:83-85`
  say that it raises an error. `EventLoop` has such waits with `UseClosed`.
- After an error response `call` returns nullopt and `error()` is 0 (`resolve.h:71`), although
  `README.md:71-78` and `Client.h:25-27` say that it tells why (`FailureWasReported`).
- A response that cannot be parsed, as after a text with a quote in it, leaves `call` by an exception
  (`Client.h:186`), where `README.md:71-78` promises nullopt.
- A coroutine that has ended is not re-entered (`Coroutine.h:171-173`), whatever the note at
  `Coroutine.h:35-36` says; one that is in the stack can be resumed again by whoever has a copy of its
  pointer, so that the nesting of `README.md:145` is up to the user.
- After a refusal that `SO_ERROR` has reported, the next `::connect` only clears the socket, so that
  half of the attempts try (`GivesUpProperly`), and a server must be up two attempts before the last
  (`LateServerFound`).
- A decimal that is dumped as `1e+06` makes the server's parser throw outside of the `try` block,
  which ends the process (`dispatch_decimal`); texts with a quote, or a backslash at their end, do not
  survive. `DecodedAsSent` excuses both. A result with a quote in it may reach the user as another
  result or as an error, which `ValueWasReturned` and `FailureWasReported` excuse; the message of an error
  never becomes a result.

## 7. Plan

Done, in this order: Transfer and BestEffort with proofs, RpcConnection with AbstractRpc and
proofs, Coroutine, EventLoop, Dispatch; closes by other coroutines in EventLoop, Listener and
Connect with proofs, Json under Dispatch, proofs of Coroutine and Dispatch; the promise of
RpcConnection and the refinement of AbstractRpc, the contexts of Coroutine, EventLoop, the values
of Dispatch and the efforts of Connect proved; that what is dumped is parsed as it was, and with it
the dispatch for messages that can be written. Next:

1. The descriptors that `co::poll` and the timers take from the same numbers as Listener's.
2. An owner that ends its `Server` object from elsewhere.
3. The capacity of the worker's buffer, once the code states what should happen.
