------------------------------ MODULE Transfer ------------------------------
(***************************************************************************)
(* The data of one bestEffortTemplate call (trpc/detail/bestEffort.h): how *)
(* many bytes were asked for, how many have been moved, and how many turns *)
(* of the retry loop have begun.  BestEffort gives these operators time    *)
(* and errno, RpcConnection uses them for the transfers of both peers.     *)
(***************************************************************************)
EXTENDS Integers

\* size_t retries = 0, size_t offset = 0.
Begin(size) == [size |-> size, off |-> 0, tries |-> 0]

\* retries++: every turn of the loop is counted, also one that moves nothing.
Attempt(x) == [x EXCEPT !.tries = @ + 1]

\* offset += ret
Advance(x, moved) == [x EXCEPT !.off = @ + moved]

\* offset == size
Complete(x) == x.off = x.size

\* Mutation: while(retries++ <= maxRetries).
ExhaustedOneLater(x, maxRetries) == x.tries > maxRetries

\* The loop condition is false.
Exhausted(x, maxRetries) == x.tries >= maxRetries

\* What is returned behind the loop: bytes moved so far, or -1 if there are none.
ResultWhenExhausted(x) == IF x.off = 0 THEN -1 ELSE x.off

\* A transfer of one of the given sizes that the loop may be working on.
IsTransfer(x, Sizes, maxRetries) ==
    /\ x \in [size : Sizes, off : Nat, tries : 0 .. maxRetries]
    /\ x.off <= x.size
=============================================================================
