------------------------------ MODULE Dispatch ------------------------------
(***************************************************************************)
(* What becomes of a request between a client and the function that is     *)
(* bound to its method: the callbacks and the try block of                 *)
(* Server::onAccept, netCall, CallProxy, the responses of Codec, and what  *)
(* Client::call makes of them (makeResult).                                *)
(*                                                                         *)
(* Every client has a connection and a worker of its own; callbacks and    *)
(* bound functions may suspend the worker, so that workers, clients and    *)
(* bind interleave there.  Frames and streams are RpcConnection's: here a  *)
(* response reaches the call it answers, or is drained when that call has  *)
(* been given up, and the next call finds the worker idle.                 *)
(*                                                                         *)
(* Messages are dumped and parsed as in Json.  The parser does not know    *)
(* where a frame ends in the buffer it was read into: behind it are bytes  *)
(* of earlier frames, or whatever the stack held before (Behind).  Texts   *)
(* are dumped without an escape, so that one with a quote in it may close  *)
(* its field and add others; the properties say what holds nevertheless.   *)
(***************************************************************************)
EXTENDS Json

CONSTANTS
    Workers,    \* connections, each with its client and its worker
    Functions,  \* method |-> [params: types, returns: type]
    Requests,   \* [method, args: values, want: type], what clients may call
    Samples,    \* values that functions may return
    Behind,     \* what may stand behind a frame in a buffer
    UserCodes,  \* codes of the protocol exceptions that bound functions throw
    UserMessages,  \* their messages, [UserCodes -> texts]
    MaxCalls    \* calls of all clients, a bound

Methods == DOMAIN Functions
Kinds   == {"num", "text", "null", "array", "object"}
Refusals == {"notFound", "invalidParams"}
Codes   == Refusals \cup {"parse", "internal"} \cup UserCodes

\* A function may throw the library's own exceptions, too (protocol.h:36-50); it is taken not
\* to throw those that refuse a request, which nobody could tell from a refusal.
ASSUME UserCodesAssumption == UserCodes \cap (Refusals \cup {"parse", "internal", "none"}) = {}
ASSUME BoundAssumption == MaxCalls \in Nat
ASSUME RequestsAssumption  ==
    /\ Requests # {}
    /\ \A r \in Requests :
           /\ r.method \in Methods /\ r.want \in Kinds
           /\ \A i \in DOMAIN r.args : Kind(r.args[i]) \in Kinds
    /\ \A v \in Samples : Kind(v) \in Kinds

VARIABLES
    table,     \* methods that are bound
    ended,     \* what has ended the server's process: "no", "decode", "callback" or "function"
    calls,     \* calls that have been made
    request,   \* the request of the last call
    stage,     \* where the worker stands with it
    received,  \* the method and the arguments that the worker has decoded
    response,  \* [result, error], nothing in the field that is missing
    waiting,   \* the client is inside call()
    outcome,   \* what the last call returned, and what error() says after it
    \* history
    wasBound,  \* the method was bound when the call was made
    ran,       \* how often the function has been started for this request
    vetoed     \* a callback has rejected the request or its response

server == <<table, ended>>
client == <<calls, request, waiting, outcome, wasBound>>
vars == <<server, client, stage, received, response, ran, vetoed>>

Alive == ended = "no"

Stages == {"idle", "requested", "accepted", "running", "responding", "sent"}
Nothing == <<"none", <<>>>>
Empty  == [result |-> Nothing, error |-> "none"]
Result(v) == [result |-> v, error |-> "none"]
Error(e)  == [result |-> Nothing, error |-> e]
Outcomes  == {"none", "value", "nullopt", "threw"}
Untold    == [is |-> "none", error |-> "none", value |-> Nothing]
Unread    == [method |-> Nothing, params |-> Nothing]

Id      == <<<<"id">>, Num(<<"1">>)>>
Version == <<<<"jsonrpc">>, Text(<<"2", ".", "0">>)>>

\* makeRequest, and the fields in the order of the map.
RequestMessage(r) ==
    Object(<<Id, Version, <<<<"method">>, Text(<<r.method>>)>>, <<<<"params">>, Array(r.args)>>>>)

\* reportError; the library's messages are plain texts, and a user's may be empty.
ErrorFields(e) ==
    LET message == IF e \in UserCodes THEN UserMessages[e] ELSE <<"message">>
        code    == <<<<"code">>, Num(<<"-", "1">>)>>
    IN  IF message = <<>> THEN <<code>> ELSE <<code, <<<<"message">>, Text(message)>>>>

\* makeEmptyResponse, and fillResultToResponse or reportError.
ResponseMessage(r) ==
    IF r.error = "none"
      THEN Object(<<Id, Version, <<<<"result">>, r.result>>>>)
      ELSE Object(<<<<<<"error">>, Object(ErrorFields(r.error))>>, Id, Version>>)

Messages ==
    {RequestMessage(r) : r \in Requests} \cup {ResponseMessage(Result(v)) : v \in Samples}
        \cup {ResponseMessage(Error(e)) : e \in Codes}

\* Codec::decode, of a message in a buffer with t behind it.
Decodings == [m \in Messages |-> [t \in Behind |-> Parse(Dump(m) \o t)]]
Decoded(message, t) == Decodings[message][t]

\* makeEmptyResponse and prepareNetCall find what they need; of params that are not there,
\* operator[] makes an empty object.
Fit(d) ==
    /\ d.ok /\ Kind(d.value) = "object"
    /\ {<<"id">>, <<"method">>} \subseteq Names(d.value)
    /\ Kind(Field(d.value, <<"id">>)) = "num" /\ Kind(Field(d.value, <<"method">>)) = "text"

Params(o) == IF <<"params">> \in Names(o) THEN Field(o, <<"params">>) ELSE Object(<<>>)

\* Json::to<T>: from a kind to a C++ type.
Converts(v, t) == Kind(v) = t

Init ==
    /\ table = {}
    /\ ended = "no"
    /\ calls = 0
    /\ request = [w \in Workers |-> CHOOSE r \in Requests : TRUE]
    /\ stage = [w \in Workers |-> "idle"]
    /\ received = [w \in Workers |-> Unread]
    /\ response = [w \in Workers |-> Empty]
    /\ waiting = [w \in Workers |-> FALSE]
    /\ outcome = [w \in Workers |-> Untold]
    /\ wasBound = [w \in Workers |-> FALSE]
    /\ ran = [w \in Workers |-> 0]
    /\ vetoed = [w \in Workers |-> FALSE]

-----------------------------------------------------------------------------
(* The client. *)

\* Client::call makes and sends the request.
Call(w, r) ==
    /\ Alive /\ ~waiting[w] /\ stage[w] = "idle" /\ calls < MaxCalls
    /\ calls' = calls + 1
    /\ request' = [request EXCEPT ![w] = r]
    /\ stage' = [stage EXCEPT ![w] = "requested"]
    /\ received' = [received EXCEPT ![w] = Unread]
    /\ response' = [response EXCEPT ![w] = Empty]
    /\ waiting' = [waiting EXCEPT ![w] = TRUE]
    /\ outcome' = [outcome EXCEPT ![w] = Untold]
    /\ wasBound' = [wasBound EXCEPT ![w] = r.method \in table]
    /\ ran' = [ran EXCEPT ![w] = 0]
    /\ vetoed' = [vetoed EXCEPT ![w] = FALSE]
    /\ UNCHANGED server

\* call returns, or an exception leaves it; the user asks error(), which resets it.
Return(w, what, errno, v) ==
    /\ waiting[w]
    /\ waiting' = [waiting EXCEPT ![w] = FALSE]
    /\ outcome' = [outcome EXCEPT ![w] = [is |-> what, error |-> errno, value |-> v]]
    /\ UNCHANGED <<server, calls, request, wasBound, received, response, ran, vetoed>>

\* Mutation: the result is taken as it is, without a conversion.
MakeResultUnchecked(m, t) == IF <<"error">> \in Names(m) THEN "nullopt" ELSE "value"

\* Mutation: a result that does not convert is no result.
MakeResultLenient(m, t) ==
    IF <<"error">> \notin Names(m) /\ <<"result">> \in Names(m)
         /\ Converts(Field(m, <<"result">>), t) THEN "value" ELSE "nullopt"

\* makeResult looks for a message in the error, which must be an object for that; operator[]
\* makes an object of a result that is not there.
MakeResult(m, t) ==
    IF <<"error">> \in Names(m)
      THEN IF Kind(Field(m, <<"error">>)) = "object" THEN "nullopt" ELSE "threw"
    ELSE IF <<"result">> \in Names(m) /\ Converts(Field(m, <<"result">>), t) THEN "value"
    ELSE "threw"

\* The response arrives in time.
Receive(w) ==
    /\ stage[w] = "sent"
    /\ stage' = [stage EXCEPT ![w] = "idle"]
    /\ \E t \in Behind :
         LET d == Decoded(ResponseMessage(response[w]), t)
             what == IF d.ok THEN MakeResult(d.value, request[w].want) ELSE "threw"
         IN  Return(w, what, "none",
                    IF what = "value" THEN Field(d.value, <<"result">>) ELSE Nothing)

\* The timeout comes first; the worker goes on with the request.
GiveUp(w) == Return(w, "nullopt", "timedout", Nothing) /\ UNCHANGED stage

\* The server's process has gone, the connection with it.
Lost(w) ==
    /\ ~Alive
    /\ stage' = [stage EXCEPT ![w] = "idle"]
    /\ Return(w, "nullopt", "io", Nothing)

\* Health::check drains the response of a call that was given up.
Drain(w) ==
    /\ ~waiting[w] /\ stage[w] = "sent"
    /\ stage' = [stage EXCEPT ![w] = "idle"]
    /\ UNCHANGED <<server, client, received, response, ran, vetoed>>

-----------------------------------------------------------------------------
(* The worker: one request, from decode to the response callback. *)

At(w, s) == Alive /\ stage[w] = s
MoveTo(w, s) == stage' = [stage EXCEPT ![w] = s]
Respond(w, r) ==
    /\ MoveTo(w, "responding")
    /\ response' = [response EXCEPT ![w] = r]
    /\ UNCHANGED <<server, client, received, vetoed>>

\* No handler on the coroutine's stack: the process is terminated.
Terminate(by) ==
    /\ ended' = by
    /\ UNCHANGED <<table, client, stage, received, response, ran, vetoed>>

\* decode, makeEmptyResponse and prepareNetCall are outside of the try block.
DecodeThrows(w) ==
    /\ At(w, "requested")
    /\ \E t \in Behind : ~Fit(Decoded(RequestMessage(request[w]), t))
    /\ Terminate("decode")

RequestAccepted(w) ==
    /\ At(w, "requested")
    /\ \E t \in Behind :
         LET d == Decoded(RequestMessage(request[w]), t) IN
         /\ Fit(d)
         /\ received' = [received EXCEPT ![w] = [method |-> Field(d.value, <<"method">>),
                                                params |-> Params(d.value)]]
    /\ MoveTo(w, "accepted")
    /\ UNCHANGED <<server, client, response, ran, vetoed>>

Veto(w) ==
    /\ MoveTo(w, "idle")
    /\ vetoed' = [vetoed EXCEPT ![w] = TRUE]
    /\ UNCHANGED <<server, client, received, response, ran>>

RequestRejected(w) ==
    /\ At(w, "requested")
    /\ \E t \in Behind : Decoded(RequestMessage(request[w]), t).ok
    /\ Veto(w)

\* The callbacks are outside of the try block, too.
CallbackThrows(w) ==
    /\ \/ At(w, "requested") /\ \E t \in Behind : Decoded(RequestMessage(request[w]), t).ok
       \/ At(w, "responding")
    /\ Terminate("callback")

\* The method that is called, and whether the worker may run it for these arguments.
Method(w) == Functions[CHOOSE m \in Methods : received[w].method = Text(<<m>>)]
Known(w) == \E m \in table : received[w].method = Text(<<m>>)
Args(w) == Content(received[w].params)
IsArray(w) == Kind(received[w].params) = "array"
CountAgrees(w) == IsArray(w) /\ Len(Args(w)) = Len(Method(w).params)
ArgsConvert(w) == \A i \in DOMAIN Method(w).params : Converts(Args(w)[i], Method(w).params[i])

\* Mutation: an unknown method is not answered.
MethodNotFoundSilently(w) ==
    /\ At(w, "accepted") /\ ~Known(w)
    /\ MoveTo(w, "idle")
    /\ UNCHANGED <<server, client, received, response, ran, vetoed>>

\* netCall
MethodNotFound(w) ==
    At(w, "accepted") /\ ~Known(w) /\ Respond(w, Error("notFound")) /\ UNCHANGED ran

\* CallProxy::dispatch compares the number of arguments, then converts each of them; a
\* conversion throws a runtime_error, as does what is no array.
InvalidParams(w) ==
    /\ At(w, "accepted") /\ Known(w) /\ IsArray(w) /\ ~CountAgrees(w)
    /\ Respond(w, Error("invalidParams")) /\ UNCHANGED ran
ConversionThrows(w) ==
    /\ At(w, "accepted") /\ Known(w) /\ (IsArray(w) => CountAgrees(w) /\ ~ArgsConvert(w))
    /\ Respond(w, Error("internal")) /\ UNCHANGED ran

FunctionStarts(w) ==
    /\ At(w, "accepted") /\ Known(w) /\ CountAgrees(w) /\ ArgsConvert(w)
    /\ MoveTo(w, "running")
    /\ ran' = [ran EXCEPT ![w] = @ + 1]
    /\ UNCHANGED <<server, client, received, response, vetoed>>

\* A void function returns nullptr.
FunctionReturns(w) ==
    /\ At(w, "running")
    /\ \E v \in Samples : Kind(v) = Method(w).returns /\ Respond(w, Result(v))
    /\ UNCHANGED ran

\* Mutation: the handlers in the wrong order, every exception is taken for a refusal.
FunctionThrowsRefused(w) ==
    At(w, "running") /\ Respond(w, Error("invalidParams")) /\ UNCHANGED ran

\* Mutation: a function that throws is run again.
FunctionThrowsRetried(w) ==
    At(w, "running") /\ MoveTo(w, "accepted") /\ UNCHANGED <<server, client, received, response, ran, vetoed>>

\* The three handlers: protocol::Exception with its own code, JsonException, std::exception.
FunctionThrows(w) ==
    /\ At(w, "running")
    /\ \E e \in UserCodes \cup {"parse", "internal"} : Respond(w, Error(e))
    /\ UNCHANGED ran

\* An exception of another type has no handler.
FunctionThrowsForeign(w) == At(w, "running") /\ Terminate("function")

ResponseRejected(w) == At(w, "responding") /\ Veto(w)

ResponseSent(w) ==
    /\ At(w, "responding")
    /\ MoveTo(w, "sent")
    /\ UNCHANGED <<server, client, received, response, ran, vetoed>>

\* Mutation: the table is made anew.
BindReplaces(m) ==
    /\ Alive /\ m \notin table
    /\ table' = {m}
    /\ UNCHANGED <<ended, client, stage, received, response, ran, vetoed>>

\* Server::bind, under the convention that no method is bound a second time.
Bind(m) ==
    /\ Alive /\ m \notin table
    /\ table' = table \cup {m}
    /\ UNCHANGED <<ended, client, stage, received, response, ran, vetoed>>

-----------------------------------------------------------------------------
Worker(w) ==
    \/ DecodeThrows(w) \/ RequestAccepted(w) \/ RequestRejected(w) \/ CallbackThrows(w)
    \/ MethodNotFound(w) \/ InvalidParams(w) \/ ConversionThrows(w)
    \/ FunctionStarts(w) \/ FunctionReturns(w) \/ FunctionThrows(w) \/ FunctionThrowsForeign(w)
    \/ ResponseRejected(w) \/ ResponseSent(w)

Next ==
    \/ \E w \in Workers : \/ \E r \in Requests : Call(w, r)
                          \/ Receive(w) \/ GiveUp(w) \/ Lost(w) \/ Drain(w)
                          \/ Worker(w)
    \/ \E m \in Methods : Bind(m)

\* Callbacks and bound functions return; what has been sent arrives.  Timeouts need not
\* expire: the default is 512 hours.
Fairness == \A w \in Workers : WF_vars(Worker(w)) /\ WF_vars(Receive(w) \/ Lost(w))

Spec == Init /\ [][Next]_vars /\ Fairness

-----------------------------------------------------------------------------
\* The variables have their types.
TypeOK ==
    /\ table \subseteq Methods /\ ended \in {"no", "decode", "callback", "function"}
    /\ calls \in 0 .. MaxCalls
    /\ request \in [Workers -> Requests]
    /\ stage \in [Workers -> Stages]
    /\ \A w \in Workers : received[w] # Unread => Kind(received[w].method) = "text"
    /\ response \in [Workers -> [result : Samples \cup {Nothing}, error : Codes \cup {"none"}]]
    /\ waiting \in [Workers -> BOOLEAN]
    /\ \A w \in Workers : /\ outcome[w].is \in Outcomes
                          /\ outcome[w].error \in {"none", "timedout", "io"}
                          /\ Kind(outcome[w].value) \in Kinds \cup {"none"}
    /\ wasBound \in [Workers -> BOOLEAN]
    /\ ran \in [Workers -> 0 .. 1]
    /\ vetoed \in [Workers -> BOOLEAN]

\* The values of a request survive their dump.
Plain(r) == \A i \in DOMAIN r.args : PlainAtom(r.args[i])

\* What the dispatch relies on when it reads a message, whatever stands behind it in the
\* buffer: a request and a result whose values survive their dump are read as they were, and
\* what reports an error is read as that or not at all, whatever its message is.
MessagesReadBack ==
    /\ \A r \in Requests, t \in Behind : Plain(r) =>
         LET d == Decoded(RequestMessage(r), t) IN
         /\ Fit(d) /\ Field(d.value, <<"method">>) = Text(<<r.method>>)
         /\ Params(d.value) = Array(r.args)
    /\ \A v \in Samples, t \in Behind : PlainAtom(v) =>
         LET d == Decoded(ResponseMessage(Result(v)), t) IN
         /\ d.ok /\ <<"error">> \notin Names(d.value) /\ <<"result">> \in Names(d.value)
         /\ Field(d.value, <<"result">>) = v
    /\ \A e \in Codes, t \in Behind :
         LET d == Decoded(ResponseMessage(Error(e)), t) IN
         d.ok => <<"error">> \in Names(d.value)

\* A call that returns a value: its function has been run for it and no callback has rejected
\* the exchange, whatever the message of an error says; and the value is the one that the
\* function has returned, of the type that the user asked for, if that one survives its dump:
\* a text with a quote in it may bring another result (resolve.h:65-76, Server.h:298-328).
ValueWasReturned ==
    \A w \in Workers : outcome[w].is = "value" =>
        /\ ran[w] = 1 /\ ~vetoed[w]
        /\ PlainAtom(response[w].result) =>
               Method(w).returns = request[w].want /\ outcome[w].value = response[w].result

\* A call that fails although it was answered, so that error() says that nothing has failed,
\* whatever README.md:71-78 promises of it: it returns nothing only if an error was reported,
\* and throws only at a result of another type than the user asked for or at an error that
\* cannot be read, unless its result was one that does not survive its dump, like a text that
\* brings an error of its own (resolve.h:65-76, Server.h:313-319, TypeCompat.h:42-45).
FailureWasReported ==
    \A w \in Workers :
        /\ outcome[w].is \in {"nullopt", "threw"} /\ outcome[w].error = "none"
        /\ PlainAtom(response[w].result)
        => \/ response[w].error # "none" /\ ~vetoed[w]
           \/ outcome[w].is = "threw" /\ Kind(response[w].result) # request[w].want

\* Whatever stands behind the frame in the buffer, a request whose values survive their
\* dump is run with the arguments of the call, and is not what ends the process
\* (Codec.h:56-58, Server.h:296-305, Parser.h, Json.h:165-210).
DecodedAsSent ==
    /\ \A w \in Workers : Plain(request[w]) /\ received[w] # Unread =>
           received[w] = [method |-> Text(<<request[w].method>>), params |-> Array(request[w].args)]
    /\ ended = "decode" => \E w \in Workers : received[w] = Unread /\ ~Plain(request[w])

\* An error that says that the request was refused (no such method, wrong number of
\* parameters) means that the function has not been run: the call may be repeated
\* (Server.h:256-264, CallProxy.h:24-26).
RefusedNotRun ==
    \A w \in Workers : response[w].error \in Refusals => ran[w] = 0

\* "Method not found" is never the answer to a call of a method that was bound when the
\* call was made, whatever is bound while callbacks suspend the worker, if the arguments
\* survive their dump and do not bring another method (Server.h:155-158, 256-264).
NotFoundWasUnbound ==
    \A w \in Workers : response[w].error = "notFound" /\ Plain(request[w]) => ~wasBound[w]

\* A call returns even if its timeout never expires, unless a callback rejects the
\* exchange: every other way through onAccept ends in a response or in the end of the
\* connection (Server.h:310-330).
Answered == \A w \in Workers : waiting[w] ~> (~waiting[w] \/ vetoed[w])

\* Server.h:307: "try-catch can capture all the exceptions".  The one that decode throws is
\* thrown before the try block, and ends the process.
AllAreCaptured == ended # "decode"
=============================================================================
