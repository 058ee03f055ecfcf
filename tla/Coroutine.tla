----------------------------- MODULE Coroutine -----------------------------
(***************************************************************************)
(* The asymmetric coroutines of one thread (base/co/Coroutine.h): the      *)
(* stack of nested resumptions, the run state of every coroutine, and the  *)
(* contexts (stacks and registers) that are allocated late and recycled.   *)
(* Exactly one coroutine runs, the top of the stack.                       *)
(*                                                                         *)
(* A coroutine exists as long as a shared pointer to it does: on the stack *)
(* or in the hands of somebody.  coNext lets the running code do what it   *)
(* likes with the coroutines that it has created; CoroutineShared adds     *)
(* that their pointers are handed on, and has the specification.           *)
(* EventLoop composes the same operations with the event table.            *)
(***************************************************************************)
EXTENDS Naturals, Sequences, FiniteSets

CONSTANTS
    Co,        \* coroutines, each created once
    Main,      \* the coroutine that stands for the thread itself
    Contexts,  \* contexts that may be allocated
    PoolSize,  \* size of _recycleStack
    Nobody     \* a null pointer

ASSUME NamesAssumption == Main \notin Co /\ Nobody \notin Co \cup {Main} \cup Contexts
ASSUME PoolAssumption  == PoolSize \in Nat
\* An allocation does not fail.
ASSUME ContextsAssumption ==
    IsFiniteSet(Co) /\ IsFiniteSet(Contexts) /\ Cardinality(Contexts) >= Cardinality(Co)

VARIABLES
    stack,     \* _cStack, shared pointers
    life,      \* _runtime; "none" before createCoroutine
    context,   \* _context of each coroutine
    pool,      \* _recycleStack up to _recycleTop
    holder     \* who has a shared pointer to it, at first the one that created it

coVars == <<stack, life, context, pool>>

InSeq(e, s) == \E i \in 1 .. Len(s) : s[i] = e
Last(s) == s[Len(s)]
Front(s) == SubSeq(s, 1, Len(s) - 1)

InitCoroutines ==
    /\ stack = <<Main>>
    /\ life = [c \in Co |-> "none"]
    /\ context = [c \in Co |-> Nobody]
    /\ pool = <<>>
    /\ holder = [c \in Co |-> Nobody]

\* Environment::current()
Current == Last(stack)

\* A context that is not allocated while the coroutines of alive exist.
Fresh(alive) ==
    CHOOSE k \in Contexts : ~InSeq(k, pool) /\ \A c \in alive : context[c] # k

\* Mutation: reuse() hands out the top of the pool and leaves it there.
StartLeavesPool(c, alive) ==
    /\ life' = [life EXCEPT ![c] = "running"]
    /\ context' = [context EXCEPT ![c] = IF pool # <<>> THEN Last(pool) ELSE Fresh(alive)]
    /\ stack' = Append(stack, c)
    /\ UNCHANGED pool

\* Coroutine::resume starts c: a context is popped from the pool, or allocated.  The
\* caller stays suspended below c.
Start(c, alive) ==
    /\ life' = [life EXCEPT ![c] = "running"]
    /\ IF pool # <<>>
         THEN context' = [context EXCEPT ![c] = Last(pool)] /\ pool' = Front(pool)
         ELSE context' = [context EXCEPT ![c] = Fresh(alive)] /\ UNCHANGED pool
    /\ stack' = Append(stack, c)

\* Mutation: the test for the end is left out.
ResumeEnded(c) ==
    /\ stack' = Append(stack, c)
    /\ UNCHANGED <<life, context, pool>>

\* Coroutine::resume continues c, unless it has ended, whatever Note 1 (Coroutine.h:35)
\* says of re-entering it.  Nothing keeps c from being in the stack already.
Resume(c) ==
    /\ stack' = IF life[c] = "exit" THEN stack ELSE Append(stack, c)
    /\ UNCHANGED <<life, context, pool>>

\* Coroutine::yield of the current coroutine: back to the one that resumed it.
Yield ==
    /\ stack' = Front(stack)
    /\ UNCHANGED <<life, context, pool>>

\* The end of routineWrapper: EXIT, the context goes to the pool if there is room,
\* although it is still the one in use, and the coroutine yields for good.
Finish ==
    LET c == Current IN
    /\ life' = [life EXCEPT ![c] = "exit"]
    /\ IF Len(pool) # PoolSize
         THEN /\ pool' = Append(pool, context[c])
              /\ context' = [context EXCEPT ![c] = Nobody]
         ELSE UNCHANGED <<pool, context>>
    /\ stack' = Front(stack)

\* The pointers that c holds go out of scope.
ReleaseAll(c) == holder' = [d \in Co |-> IF holder[d] = c THEN Nobody ELSE holder[d]]

-----------------------------------------------------------------------------
(* Coroutines without an event loop, as the library offers them.            *)

Held == {c \in Co : InSeq(c, stack) \/ holder[c] # Nobody}

\* Mutation: the only pointer is moved to the stack.
SpawnMoved(d) ==
    /\ life[d] = "none"
    /\ Start(d, Held)
    /\ UNCHANGED holder

\* createCoroutine, and the first resume through the pointer it returns.
SpawnHeld(d) ==
    /\ life[d] = "none"
    /\ holder' = [holder EXCEPT ![d] = Current]
    /\ Start(d, Held)

ResumeHeld(d) ==
    /\ holder[d] = Current
    /\ Resume(d)
    /\ UNCHANGED holder

ReleaseHeld(d) ==
    /\ holder[d] = Current
    /\ holder' = [holder EXCEPT ![d] = Nobody]
    /\ UNCHANGED coVars

YieldCurrent == Current # Main /\ Yield /\ UNCHANGED holder

EndCurrent == Current # Main /\ Finish /\ ReleaseAll(Current)

\* Control that comes back into a coroutine after its end finds no context, or one that
\* has returned: undefined, and followed no further.
coNext ==
    /\ Current \in Co => life[Current] = "running"
    /\ \/ \E d \in Co : SpawnHeld(d) \/ ResumeHeld(d) \/ ReleaseHeld(d)
       \/ YieldCurrent \/ EndCurrent

-----------------------------------------------------------------------------
coTypeOK ==
    /\ stack \in Seq(Co \cup {Main}) /\ stack # <<>> /\ stack[1] = Main
    /\ life \in [Co -> {"none", "running", "exit"}]
    /\ context \in [Co -> Contexts \cup {Nobody}]
    /\ pool \in Seq(Contexts) /\ Len(pool) <= PoolSize
    /\ holder \in [Co -> Co \cup {Main, Nobody}]

\* Coroutines that can still run have contexts of their own: no two share one, and
\* none of them is in the pool to be handed out (Coroutine.h:170-184, 201-214).
ContextsApart ==
    /\ \A c, d \in Held :
         c # d /\ life[c] = "running" /\ life[d] = "running" => context[c] # context[d]
    /\ \A c \in Held :
         life[c] = "running" => context[c] # Nobody /\ ~InSeq(context[c], pool)
    /\ \A i, j \in 1 .. Len(pool) : i # j => pool[i] # pool[j]
=============================================================================
