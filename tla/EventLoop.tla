----------------------------- MODULE EventLoop -----------------------------
(***************************************************************************)
(* The event loop of one thread and the operations that suspend on it      *)
(* (base/co/posix.h).  A coroutine tries its system call, and if nothing   *)
(* is ready leaves itself in the event table with addEvent and yields;     *)
(* loop() takes one ready descriptor at a time, removes its entry and      *)
(* resumes the coroutines found there.                                     *)
(*                                                                         *)
(* A coroutine exists as long as a shared pointer to it does: on the       *)
(* stack, in the variable of its creator, in an entry of the event table,  *)
(* or in the array of pointers that loop() has just taken out of an entry. *)
(***************************************************************************)
EXTENDS Coroutine

CONSTANTS
    Fd,        \* descriptor numbers, used again after a close
    UseClosed  \* coroutines may wait on a descriptor that has been closed

ASSUME UsageAssumption == UseClosed \in BOOLEAN

Type == {"READ", "WRITE"}

VARIABLES
    owner,     \* the coroutine that opened a descriptor, Nobody if it is closed
    timers,    \* descriptors that co::poll, sleep and usleep opened for themselves
    ready,     \* pairs of a descriptor and a type of event that it is ready for
    interest,  \* epoll's interest list, {} for a descriptor that is not in it
    mask,      \* events[fd].event.events, {} if there is no entry
    slot,      \* events[fd].routines
    loopAt,    \* where the main coroutine is: before loop(), or inside
    routines,  \* the coroutines that loop() has taken from an entry
    turn,      \* how many of them it has resumed
    wait       \* history: what a suspended coroutine waits for, <<>> for nothing

vars == <<coVars, holder, owner, timers, ready, interest, mask, slot, loopAt, routines,
          turn, wait>>

\* A strong reference to c exists.
Alive(c) ==
    \/ InSeq(c, stack)
    \/ holder[c] # Nobody
    \/ \E f \in Fd, t \in Type : slot[f][t] = c
    \/ InSeq(c, routines)

AliveOnes == {c \in Co : Alive(c)}

NoSlots == [t \in Type |-> Nobody]

Init ==
    /\ InitCoroutines
    /\ owner = [f \in Fd |-> Nobody]
    /\ timers = {}
    /\ ready = {}
    /\ interest = [f \in Fd |-> {}]
    /\ mask = [f \in Fd |-> {}]
    /\ slot = [f \in Fd |-> NoSlots]
    /\ loopAt = "setup" /\ routines = <<>> /\ turn = 0
    /\ wait = [c \in Co |-> <<>>]

-----------------------------------------------------------------------------
(* What the running code does: a coroutine, or main before its loop.        *)

Runs(c) == Current = c /\ (c = Main => loopAt = "setup")

IsOpen(f) == owner[f] # Nobody

\* createCoroutine and the first resume, through the pointer that the creator keeps.
Spawn(c, d) ==
    /\ Runs(c)
    /\ life[d] = "none"
    /\ holder' = [holder EXCEPT ![d] = c]
    /\ Start(d, AliveOnes)
    /\ UNCHANGED <<owner, timers, ready, interest, mask, slot, loopAt, routines, turn, wait>>

\* The creator's pointer goes out of scope.
Release(c, d) ==
    /\ Runs(c)
    /\ holder[d] = c
    /\ holder' = [holder EXCEPT ![d] = Nobody]
    /\ UNCHANGED <<coVars, owner, timers, ready, interest, mask, slot, loopAt, routines, turn, wait>>

\* socket, accept4, timerfd_create, epoll_create1: a free number.
Open(c, f) ==
    /\ c # Main /\ Runs(c)
    /\ ~IsOpen(f)
    /\ owner' = [owner EXCEPT ![f] = c]
    /\ UNCHANGED <<coVars, timers, ready, interest, mask, slot, holder, loopAt, routines, turn, wait>>

\* ::close, by the owner or by another coroutine that has the object at hand (a callback
\* calls server.close(), test_unreliable.cpp:80); a timer is in nobody else's hands.
\* The kernel forgets the descriptor, the event table does not.
CloseFd(c, f) ==
    /\ c # Main /\ Runs(c)
    /\ IsOpen(f) /\ f \notin timers
    /\ owner' = [owner EXCEPT ![f] = Nobody]
    /\ ready' = {r \in ready : r[1] # f}
    /\ interest' = [interest EXCEPT ![f] = {}]
    /\ UNCHANGED <<coVars, timers, mask, slot, holder, loopAt, routines, turn, wait>>

\* A system call succeeds and uses up what was ready.
Transfers(c, f, t) ==
    /\ c # Main /\ Runs(c)
    /\ owner[f] = c
    /\ <<f, t>> \in ready
    /\ ready' = ready \ {<<f, t>>}
    /\ UNCHANGED <<coVars, owner, timers, interest, mask, slot, holder, loopAt, routines, turn, wait>>

\* The descriptors that a coroutine is allowed to wait on.
Usable(c, f) ==
    \/ owner[f] = c
    \/ UseClosed /\ ~IsOpen(f)

\* Mutation: the operation is chosen after the entry has been inserted.
AddEventModifies(c, f, t) ==
    /\ mask' = [mask EXCEPT ![f] = @ \cup {t}]
    /\ slot' = IF mask[f] = {} THEN [slot EXCEPT ![f][t] = c] ELSE slot
    /\ interest' = IF interest[f] # {} THEN [interest EXCEPT ![f] = @ \cup {t}] ELSE interest

\* addEvent for an event that is not in the entry yet: only a new entry gets the
\* coroutine; epoll_ctl adds or modifies, and what it reports is not looked at.
AddEvent(c, f, t) ==
    /\ mask' = [mask EXCEPT ![f] = @ \cup {t}]
    /\ slot' = IF mask[f] = {} THEN [slot EXCEPT ![f][t] = c] ELSE slot
    /\ interest' = IF IsOpen(f) /\ (mask[f] = {} <=> interest[f] = {})
                     THEN [interest EXCEPT ![f] = mask[f] \cup {t}] ELSE interest

\* co::read, write, accept4 whose system call got nothing (or an error, or the end of
\* the stream: the descriptor may be ready), and co::connect: register and yield.  For
\* an event that is registered already they return at once instead.
WaitFor(c, f, t) ==
    /\ c # Main /\ Runs(c)
    /\ Usable(c, f)
    /\ t \notin mask[f]
    /\ AddEvent(c, f, t)
    /\ wait' = [wait EXCEPT ![c] = <<f, t>>]
    /\ Yield
    /\ UNCHANGED <<owner, timers, ready, holder, loopAt, routines, turn>>

\* co::poll, sleep, usleep open a descriptor of their own (co::poll: an epoll that
\* watches the polled ones and a timer) and yield whatever addEvent says.
WaitForTimer(c, f) ==
    /\ c # Main /\ Runs(c)
    /\ ~IsOpen(f)
    /\ owner' = [owner EXCEPT ![f] = c]
    /\ timers' = timers \cup {f}
    /\ IF "READ" \in mask[f]
         THEN UNCHANGED <<mask, slot, interest>>
         ELSE /\ mask' = [mask EXCEPT ![f] = @ \cup {"READ"}]
              /\ slot' = IF mask[f] = {} THEN [slot EXCEPT ![f]["READ"] = c] ELSE slot
              /\ interest' = IF mask[f] = {} THEN [interest EXCEPT ![f] = {"READ"}]
                             ELSE interest
    /\ wait' = [wait EXCEPT ![c] = <<f, "READ">>]
    /\ Yield
    /\ UNCHANGED <<ready, holder, loopAt, routines, turn>>

\* The entry function returns: what its objects own is closed and released.
Ends(c) ==
    /\ c # Main /\ Runs(c)
    /\ owner' = [f \in Fd |-> IF owner[f] = c THEN Nobody ELSE owner[f]]
    /\ ready' = {r \in ready : owner[r[1]] # c}
    /\ interest' = [f \in Fd |-> IF owner[f] = c THEN {} ELSE interest[f]]
    /\ ReleaseAll(c)
    /\ Finish
    /\ UNCHANGED <<timers, mask, slot, loopAt, routines, turn, wait>>

-----------------------------------------------------------------------------
(* loop()                                                                   *)

StartLoop ==
    /\ Runs(Main)
    /\ loopAt' = "wait"
    /\ UNCHANGED <<coVars, owner, timers, ready, interest, mask, slot, holder, routines, turn, wait>>

\* A slot goes into the array only if it holds a coroutine.
NotNull(c) == IF c = Nobody THEN <<>> ELSE <<c>>

\* Mutation: the entry is not erased.
DispatchKeepsEntry(f) ==
    /\ Current = Main /\ loopAt = "wait"
    /\ \E t \in interest[f] : <<f, t>> \in ready
    /\ interest' = [interest EXCEPT ![f] = {}]
    /\ routines' = NotNull(slot[f]["READ"]) \o NotNull(slot[f]["WRITE"])
    /\ turn' = 0
    /\ loopAt' = "resume"
    /\ UNCHANGED <<coVars, owner, timers, ready, mask, slot, holder, wait>>

\* Mutation: only the read slot is resumed.
DispatchReaders(f) ==
    /\ Current = Main /\ loopAt = "wait"
    /\ \E t \in interest[f] : <<f, t>> \in ready
    /\ interest' = [interest EXCEPT ![f] = {}]
    /\ routines' = NotNull(slot[f]["READ"])
    /\ turn' = 0
    /\ mask' = [mask EXCEPT ![f] = {}]
    /\ slot' = [slot EXCEPT ![f] = NoSlots]
    /\ loopAt' = "resume"
    /\ UNCHANGED <<coVars, owner, timers, ready, holder, wait>>

\* epoll_wait delivers one descriptor; its entry is erased after the pointers have
\* been moved to the array, the read slot before the write slot.
Dispatch(f) ==
    /\ Current = Main /\ loopAt = "wait"
    /\ \E t \in interest[f] : <<f, t>> \in ready
    /\ mask[f] # {}
    /\ interest' = [interest EXCEPT ![f] = {}]
    /\ routines' = NotNull(slot[f]["READ"]) \o NotNull(slot[f]["WRITE"])
    /\ turn' = 0
    /\ mask' = [mask EXCEPT ![f] = {}]
    /\ slot' = [slot EXCEPT ![f] = NoSlots]
    /\ loopAt' = "resume"
    /\ UNCHANGED <<coVars, owner, timers, ready, holder, wait>>

\* Mutation: the pointer is moved out of the array into the stack.
ResumeNextMoved ==
    /\ Current = Main /\ loopAt = "resume"
    /\ turn < Len(routines)
    /\ LET c == routines[turn + 1] IN
         /\ wait' = [wait EXCEPT ![c] = <<>>]
         /\ Resume(c)
    /\ routines' = Tail(routines)
    /\ UNCHANGED <<owner, timers, ready, interest, mask, slot, holder, loopAt, turn>>

\* routines[...]->resume(), each in its turn.  What co::poll, sleep and usleep opened
\* for the wait is closed by the guard of the resumed operation.
ResumeNext ==
    /\ Current = Main /\ loopAt = "resume"
    /\ turn < Len(routines)
    /\ turn' = turn + 1
    /\ LET c == routines[turn']
           own == {f \in timers : owner[f] = c}
       IN  /\ wait' = [wait EXCEPT ![c] = <<>>]
           /\ Resume(c)
           /\ owner' = [f \in Fd |-> IF f \in own THEN Nobody ELSE owner[f]]
           /\ timers' = timers \ own
           /\ ready' = {r \in ready : r[1] \notin own}
           /\ interest' = [f \in Fd |-> IF f \in own THEN {} ELSE interest[f]]
    /\ UNCHANGED <<mask, slot, holder, loopAt, routines>>

\* Mutation: the position outlives the array.
EndTurnInPlace ==
    /\ Current = Main /\ loopAt = "resume"
    /\ turn = Len(routines)
    /\ loopAt' = "wait" /\ routines' = <<>>
    /\ UNCHANGED <<coVars, owner, timers, ready, interest, mask, slot, holder, turn, wait>>

\* The end of the iteration destroys the array.
EndTurn ==
    /\ Current = Main /\ loopAt = "resume"
    /\ turn = Len(routines)
    /\ loopAt' = "wait" /\ routines' = <<>> /\ turn' = 0
    /\ UNCHANGED <<coVars, owner, timers, ready, interest, mask, slot, holder, wait>>

\* Data, buffer space, an expired timer or a hang-up: the kernel's doing.
BecomesReady(f, t) ==
    /\ IsOpen(f) /\ <<f, t>> \notin ready
    /\ ready' = ready \cup {<<f, t>>}
    /\ UNCHANGED <<coVars, owner, timers, interest, mask, slot, holder, loopAt, routines, turn, wait>>

\* A running coroutine gets to its next suspension, or to its end.
Leaves(c) ==
    \/ \E f \in Fd, t \in Type : WaitFor(c, f, t)
    \/ \E f \in Fd : WaitForTimer(c, f)
    \/ Ends(c)

Next ==
    \/ \E c \in Co \cup {Main}, d \in Co : Spawn(c, d) \/ Release(c, d)
    \/ \E c \in Co, f \in Fd : Open(c, f) \/ CloseFd(c, f)
    \/ \E c \in Co, f \in Fd, t \in Type : Transfers(c, f, t)
    \/ \E c \in Co : Leaves(c)
    \/ StartLoop
    \/ \E f \in Fd : Dispatch(f)
    \/ ResumeNext \/ EndTurn
    \/ \E f \in Fd, t \in Type : BecomesReady(f, t)

\* Coroutines are cooperative: each one runs only so long before it waits or ends.
\* epoll's ready list is a queue, so that a descriptor that stays ready is
\* delivered although the loop takes one at a time: strong fairness for each.
Spec ==
    /\ Init /\ [][Next]_vars
    /\ \A c \in Co : SF_vars(Leaves(c))
    /\ WF_vars(StartLoop \/ ResumeNext \/ EndTurn)
    /\ \A f \in Fd : SF_vars(Dispatch(f))

-----------------------------------------------------------------------------
TypeOK ==
    /\ coTypeOK
    /\ owner \in [Fd -> Co \cup {Nobody}]
    /\ timers \subseteq Fd
    /\ ready \subseteq Fd \X Type
    /\ interest \in [Fd -> SUBSET Type]
    /\ mask \in [Fd -> SUBSET Type]
    /\ slot \in [Fd -> [Type -> Co \cup {Nobody}]]
    /\ loopAt \in {"setup", "wait", "resume"}
    /\ routines \in Seq(Co)
    /\ turn \in 0 .. Len(routines)
    /\ wait \in [Co -> {<<>>} \cup (Fd \X Type)]

\* The coroutine is suspended in one of the waiting operations.
Waiting(c) == wait[c] # <<>>

\* loop() has taken c from its entry and is going to resume it.
Taken(c) == \E i \in turn + 1 .. Len(routines) : routines[i] = c

\* The entry is there and epoll does not watch for it: what it holds was waiting when the
\* descriptor was closed.  addEvent finds the entry and modifies what is not there, so the
\* number stays of no use, whoever gets it next.
Stranded(f) == mask[f] # {} /\ interest[f] = {}

\* A suspended coroutine can be found again: it sits in the entry of its descriptor,
\* and epoll watches for its event (posix.h:103-150, 459-465).  Lost are only those that
\* wait on a number that was closed under somebody.
NoLostWaiter ==
    \A c \in Co : Waiting(c) /\ ~Taken(c) =>
        LET f == wait[c][1]
            t == wait[c][2]
        IN  Stranded(f) \/ (slot[f][t] = c /\ t \in interest[f])

\* Nothing but the ::close of a coroutine that is not the one waiting strands a number: not
\* the owner's own close, its end, a resumption, or the next use of the number
\* (posix.h:104-150, 456-474; Client.h:282-287).
OnlyClosesStrand ==
    [][ \A f \in Fd : Stranded(f)' /\ ~Stranded(f) =>
            IsOpen(f) /\ ~IsOpen(f)' /\ Current \in Co \ {owner[f]} ]_vars

\* The loop resumes only coroutines that are suspended in a wait, each once for
\* each wait: never one that runs, has ended or waits for something else.
NoStrayResumption ==
    /\ \A f \in Fd, t \in Type : slot[f][t] # Nobody => wait[slot[f][t]] = <<f, t>>
    /\ \A c \in Co : Taken(c) => Waiting(c)
    /\ \A c \in Co : Waiting(c) => ~InSeq(c, stack) /\ life[c] = "running"

\* yield pops the stack's pointer and then still uses the coroutine's context
\* (Coroutine.h:186-199): the loop's array or the creator must hold another one.
PoppedStaysAlive ==
    [][ Len(stack') < Len(stack) => \A c \in Co : c = Current => Alive(c)' ]_vars

\* A coroutine whose event is there, and stays, is resumed, unless its number has been or
\* gets stranded (posix.h:446-474).
Served ==
    \A c \in Co : wait[c] \in ready ~> wait[c] = <<>> \/ Stranded(wait[c][1])
=============================================================================
