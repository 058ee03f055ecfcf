---------------------------- MODULE AbstractRpc ----------------------------
(***************************************************************************)
(* What one long-lived RPC connection promises to its user (README.md      *)
(* 101-117): calls are made one after the other; a call is refused, or     *)
(* accepted and then answered or given up; the server runs a request at    *)
(* most once, never after a later one has been accepted; a call that       *)
(* returns a result returns the result of its own request.                 *)
(***************************************************************************)
EXTENDS Naturals, Sequences

CONSTANT MaxCalls    \* how many calls the user makes

Calls == 1 .. MaxCalls

VARIABLES
    status,    \* how each call stands
    accepted,  \* the last call that was accepted, 0 before the first
    ran        \* the requests the server has run, in order

vars == <<status, accepted, ran>>

Settled == {"refused", "answered", "failed"}

Init ==
    /\ status = [c \in Calls |-> "new"]
    /\ accepted = 0
    /\ ran = <<>>

HasRun(c) == \E i \in DOMAIN ran : ran[i] = c

\* The calls before c have returned, c has not been made.
Due(c) == status[c] = "new" /\ \A d \in 1 .. c - 1 : status[d] \in Settled

Accept(c) ==
    /\ Due(c)
    /\ status' = [status EXCEPT ![c] = "open"]
    /\ accepted' = c
    /\ UNCHANGED ran

Refuse(c) ==
    /\ Due(c)
    /\ status' = [status EXCEPT ![c] = "refused"]
    /\ UNCHANGED <<accepted, ran>>

\* The server runs the request of the last accepted call, waited for or not.
Run ==
    /\ accepted \in Calls
    /\ ~HasRun(accepted)
    /\ ran' = Append(ran, accepted)
    /\ UNCHANGED <<status, accepted>>

Answer(c) ==
    /\ status[c] = "open"
    /\ HasRun(c)
    /\ status' = [status EXCEPT ![c] = "answered"]
    /\ UNCHANGED <<accepted, ran>>

GiveUp(c) ==
    /\ status[c] = "open"
    /\ status' = [status EXCEPT ![c] = "failed"]
    /\ UNCHANGED <<accepted, ran>>

Next ==
    \/ \E c \in Calls : Accept(c) \/ Refuse(c) \/ Answer(c) \/ GiveUp(c)
    \/ Run

Spec == Init /\ [][Next]_vars
============================================================================
