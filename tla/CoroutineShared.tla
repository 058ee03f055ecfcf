-------------------------- MODULE CoroutineShared --------------------------
(***************************************************************************)
(* The coroutines of base/co/Coroutine.h when their pointers are shared:   *)
(* createCoroutine returns a shared pointer, which can be copied, passed   *)
(* on and made anew by shared_from_this, so that any coroutine can come to *)
(* resume any other, also one that waits below it in the stack.            *)
(***************************************************************************)
EXTENDS Coroutine

CONSTANT MaxDepth    \* bound on the stack, which has none in the code

ASSUME DepthAssumption == MaxDepth \in Nat

VARIABLE handed      \* history: a pointer has been handed on

sharedVars == <<coVars, holder, handed>>

sharedInit == InitCoroutines /\ handed = FALSE

\* The pointer to d that counts next, for a resumption or as the last that is left, is
\* with e.
HandOver(d, e) ==
    /\ d \in Held
    /\ e = Main \/ (e \in Held /\ life[e] = "running")
    /\ holder' = [holder EXCEPT ![d] = e]
    /\ handed' = TRUE
    /\ UNCHANGED coVars

sharedNext ==
    \/ coNext /\ Len(stack') <= MaxDepth /\ UNCHANGED handed
    \/ \E d \in Co, e \in Co \cup {Main} : HandOver(d, e)

sharedSpec == sharedInit /\ [][sharedNext]_sharedVars

-----------------------------------------------------------------------------
\* README.md:145: asymmetric coroutines are like nested functions.  As long as each pointer
\* is with the coroutine that created what it points to, each one in the stack waits for the
\* one above it: none is resumed again while it is suspended in a resumption of its own, and
\* control does not come back to one that has ended.  With a pointer that was handed on both
\* happen: resume() looks at the end only (Coroutine.h:170-184).
NestedLikeFunctions ==
    ~handed =>
        /\ \A i, j \in 1 .. Len(stack) : i # j => stack[i] # stack[j]
        /\ \A c \in Co : InSeq(c, stack) => life[c] = "running"

\* yield pops the stack's pointer and then still uses the coroutine's context
\* (Coroutine.h:186-199): another pointer to it must exist at that moment.  Its creator
\* has one, which it could only lose by handing it over.
YieldKeepsAlive ==
    [][ \A c \in Co :
          ~handed /\ c = Current /\ Len(stack') < Len(stack) => holder'[c] # Nobody
      ]_sharedVars
=============================================================================
