----------------------------- MODULE MCDispatch -----------------------------
(* The functions of test_server.cpp:18-19, one request for each way through *)
(* the dispatch, and values that do and do not survive dump and parse.      *)
EXTENDS Dispatch

One == Num(<<"1">>)
A   == Text(<<"a">>)

\* What is written of a million.
Million == Num(<<"1", "e", "+", "0", "6">>)

\* The text a","name":<content>,"a":"a, which closes its field and adds another.
Adding(before, name, content, after) ==
    Text(<<"a", Quote>> \o before \o <<",", Quote, name, Quote, ":">> \o content
            \o <<",", Quote, "a", Quote, ":">> \o after \o <<Quote, "a">>)

MCFunctions ==
    [add    |-> [params |-> <<"num", "num">>,   returns |-> "num"],
     append |-> [params |-> <<"text", "text">>, returns |-> "text"]]

\* Two that are run, the second for a result of the wrong type; one with an argument of a wrong
\* type, one with too few; one that ends the process, and one that brings another method.
MCRequests ==
    {[method |-> "add",    args |-> <<One, Num(<<"-", "1", ".", "1", "e", "+", "0", "6">>)>>, want |-> "num"],
     [method |-> "append", args |-> <<Text(<<"a", Backslash, "a">>), A>>, want |-> "num"],
     [method |-> "add",    args |-> <<One, A>>,                           want |-> "num"],
     [method |-> "append", args |-> <<>>,                                 want |-> "text"],
     [method |-> "add",    args |-> <<Million, One>>,                     want |-> "num"],
     [method |-> "append", args |-> <<Adding(<<"]">>, "method", <<Quote, "a", Quote>>, <<"[">>)>>, want |-> "text"]}

\* The last one brings an error.
MCSamples == {One, A, Adding(<<>>, "error", <<"{", "}">>, <<>>)}

\* One message cannot be read, the other one brings a result.
MCUserMessages ==
    [busy |-> <<"a", Quote>>,
     full |-> Content(Adding(<<"}">>, "result", <<"1">>, <<"{", Quote, "a", Quote, ":">>))]

\* Zeros, or the end of a longer request.
MCBehind == {<<Zero>>, <<"a", Quote, ",", Quote, "a", Quote, "]", "}", Zero>>}
=============================================================================
