----------------------------- MODULE BestEffort -----------------------------
(***************************************************************************)
(* bestEffortTemplate (trpc/detail/bestEffort.h:35-91) with its clock and  *)
(* errno, called again and again by the wrappers that cache errno for      *)
(* error() (trpc/Client.h:289-311, trpc/Server.h:335-355).                 *)
(*                                                                         *)
(* Time is in milliseconds since the call began.  Whatever suspends the    *)
(* coroutine lets other coroutines of the thread run, and errno belongs to *)
(* the thread: after a suspension it may hold any code.                    *)
(***************************************************************************)
EXTENDS Transfer

CONSTANTS
    Sizes,       \* numbers of bytes a caller asks for
    MaxRetries,  \* maxRetries
    Timeout,     \* timeout, in milliseconds
    MaxLag,      \* longest delay of a timer or of a resumption
    MaxPark,     \* longest wait for the next event on the descriptor
    Errnos,      \* codes the system calls fail with
    ETIMEDOUT,   \* the code of a timeout
    NoError      \* errno 0

ASSUME SizesAssumption   == Sizes \subseteq Nat
ASSUME RetriesAssumption == MaxRetries \in Nat \ {0}
ASSUME TimesAssumption   == Timeout \in Nat /\ MaxLag \in Nat /\ MaxPark \in Nat
ASSUME ErrnosAssumption  == NoError \notin Errnos /\ ETIMEDOUT # NoError

VARIABLES
    pc,       \* where the call is
    x,        \* its transfer
    elapsed,  \* tick() - start
    patient,  \* history: turns that were spent waiting a whole interval
    ret,      \* what it returned
    why,      \* history: which exit it took
    errno,    \* errno of the thread
    cached    \* _errno of the client or server

vars == <<pc, x, elapsed, patient, ret, why, errno, cached>>

Codes == Errnos \cup {ETIMEDOUT, NoError}
Exits == {"none", "complete", "fin", "exhausted", "deadline", "poll", "func"}

\* Mutation: one interval too many is cut out of the timeout.
IntervalTooShort == Timeout \div (MaxRetries + 1)

\* int interval = timeout.count() / maxRetries
Interval == Timeout \div MaxRetries

\* What errno may hold after a suspension: what it held, or another's failure.
Overwritten == {errno} \cup (Codes \ {NoError})

-----------------------------------------------------------------------------
Init ==
    /\ pc = "idle"
    /\ x = Begin(0)
    /\ elapsed = 0
    /\ patient = 0
    /\ ret = 0
    /\ why = "none"
    /\ errno = NoError
    /\ cached = NoError

\* A wrapper starts a transfer.
Start(size) ==
    /\ pc = "idle"
    /\ pc' = "loop"
    /\ x' = Begin(size)
    /\ elapsed' = 0
    /\ patient' = 0
    /\ why' = "none"
    /\ UNCHANGED <<ret, errno, cached>>

\* The user collects the cached code: int Client::error().
ReadError ==
    /\ pc = "idle"
    /\ cached' = NoError
    /\ UNCHANGED <<pc, x, elapsed, patient, ret, why, errno>>

\* The function returns r through exit e with errno c.
Leave(r, e, c) ==
    /\ pc' = "returned"
    /\ ret' = r
    /\ why' = e
    /\ errno' = c

\* Loop condition false: all turns are used up.
LeaveExhausted ==
    /\ pc = "loop"
    /\ Exhausted(x, MaxRetries)
    /\ Leave(ResultWhenExhausted(x), "exhausted",
             IF x.off = 0 THEN ETIMEDOUT ELSE errno)
    /\ UNCHANGED <<x, elapsed, patient, cached>>

\* Mutation: errno is not set before the early return.
LeaveDeadlineSilently ==
    /\ pc = "loop"
    /\ ~Exhausted(x, MaxRetries)
    /\ elapsed > Timeout
    /\ Leave(-1, "deadline", errno)
    /\ UNCHANGED <<x, elapsed, patient, cached>>

\* tick() - start > timeout at the top of a turn.
LeaveDeadline ==
    /\ pc = "loop"
    /\ ~Exhausted(x, MaxRetries)
    /\ elapsed > Timeout
    /\ Leave(-1, "deadline", ETIMEDOUT)
    /\ UNCHANGED <<x, elapsed, patient, cached>>

\* Mutation: the deadline is not looked at, only the number of turns.
EnterTurnAnyTime ==
    /\ pc = "loop"
    /\ ~Exhausted(x, MaxRetries)
    /\ pc' = "poll"
    /\ x' = Attempt(x)
    /\ UNCHANGED <<elapsed, patient, ret, why, errno, cached>>

\* Mutation: while(retries < maxRetries) without the increment.
EnterTurnUncounted ==
    /\ pc = "loop"
    /\ ~Exhausted(x, MaxRetries)
    /\ elapsed <= Timeout
    /\ pc' = "poll"
    /\ x' = x
    /\ UNCHANGED <<elapsed, patient, ret, why, errno, cached>>

\* A turn begins.
EnterTurn ==
    /\ pc = "loop"
    /\ ~Exhausted(x, MaxRetries)
    /\ elapsed <= Timeout
    /\ pc' = "poll"
    /\ x' = Attempt(x)
    /\ UNCHANGED <<elapsed, patient, ret, why, errno, cached>>

\* co::poll returned 0: the timer fired, maybe late; the turn is spent.
PollTimeout(lag) ==
    /\ pc = "poll"
    /\ elapsed' = elapsed + Interval + lag
    /\ patient' = patient + 1
    /\ errno' \in Overwritten
    /\ pc' = "loop"
    /\ UNCHANGED <<x, ret, why, cached>>

\* co::poll returned 1, at once or after some waiting.
PollReady(waited) ==
    /\ pc = "poll"
    /\ elapsed' = elapsed + waited
    /\ errno' \in Overwritten
    /\ pc' = "func"
    /\ UNCHANGED <<x, patient, ret, why, cached>>

\* co::poll returned -1.
PollError(code) ==
    /\ pc = "poll"
    /\ Leave(-1, "poll", code)
    /\ UNCHANGED <<x, elapsed, patient, cached>>

\* Bytes moved: the transfer is complete, or another turn begins.
Moved(n) ==
    /\ x' = Advance(x, n)
    /\ IF Complete(x')
         THEN Leave(x.size, "complete", errno)
         ELSE pc' = "loop" /\ UNCHANGED <<ret, why, errno>>
    /\ UNCHANGED <<elapsed, patient, cached>>

\* co::read or co::write moves n bytes with its first system call.
FuncMoves(n) ==
    /\ pc = "func"
    /\ n <= x.size - x.off
    /\ Moved(n)

\* The first system call returned 0 or -1: wait for the next event.
FuncParks(waited) ==
    /\ pc = "func"
    /\ elapsed' = elapsed + waited
    /\ errno' \in Overwritten
    /\ pc' = "parked"
    /\ UNCHANGED <<x, patient, ret, why, cached>>

\* Resumed by the event loop, the second system call moves n bytes.
WokenMoves(n) ==
    /\ pc = "parked"
    /\ n <= x.size - x.off
    /\ Moved(n)

\* It is interrupted, or nothing is there yet (then co::usleep(1)): next turn.
WokenAgain(lag) ==
    /\ pc = "parked"
    /\ elapsed' = elapsed + lag
    /\ errno' \in Overwritten
    /\ pc' = "loop"
    /\ UNCHANGED <<x, patient, ret, why, cached>>

\* Mutation: the end of the stream counts as all that was asked for.
WokenFinComplete ==
    /\ pc = "parked"
    /\ Leave(x.size, "fin", errno)
    /\ UNCHANGED <<x, elapsed, patient, cached>>

\* It returns 0, end of stream: the offset so far is returned, errno untouched.
WokenFin ==
    /\ pc = "parked"
    /\ Leave(x.off, "fin", errno)
    /\ UNCHANGED <<x, elapsed, patient, cached>>

\* It fails for any other reason.
WokenError(code) ==
    /\ pc = "parked"
    /\ Leave(-1, "func", code)
    /\ UNCHANGED <<x, elapsed, patient, cached>>

\* Back in the wrapper: a short count or -1 caches errno, or ETIMEDOUT for 0.
Wrap ==
    /\ pc = "returned"
    /\ pc' = "idle"
    /\ cached' = IF ret = x.size THEN cached
                 ELSE IF errno = NoError THEN ETIMEDOUT ELSE errno
    /\ UNCHANGED <<x, elapsed, patient, ret, why, errno>>

Run ==
    \/ LeaveExhausted
    \/ LeaveDeadline
    \/ EnterTurn
    \/ \E lag \in 0 .. MaxLag : PollTimeout(lag)
    \/ \E waited \in 0 .. Interval + MaxLag : PollReady(waited)
    \/ \E code \in Errnos : PollError(code)
    \/ \E n \in 1 .. x.size : FuncMoves(n)
    \/ \E waited \in 0 .. MaxPark : FuncParks(waited)
    \/ \E n \in 1 .. x.size : WokenMoves(n)
    \/ \E lag \in 0 .. MaxLag : WokenAgain(lag)
    \/ WokenFin
    \/ \E code \in Errnos : WokenError(code)
    \/ Wrap

Next == Run \/ (\E size \in Sizes : Start(size)) \/ ReadError

\* The call itself always goes on: the event loop resumes it, its timers fire.
Spec == Init /\ [][Next]_vars /\ WF_vars(Run)

-----------------------------------------------------------------------------
TypeOK ==
    /\ pc \in {"idle", "loop", "poll", "func", "parked", "returned"}
    /\ IsTransfer(x, Sizes \cup {0}, MaxRetries)
    /\ elapsed \in Nat
    /\ patient \in 0 .. x.tries
    /\ ret \in Int
    /\ why \in Exits
    /\ errno \in Codes
    /\ cached \in Codes

\* The caller may take a result equal to the size for success, and nothing else:
\* bytes that were all moved are never reported as a failure, nor the reverse,
\* whichever of the exits is taken (bestEffort.h:43, 53, 72, 77, 80, 86, 89).
\* A count that is not -1 tells exactly how far the stream has advanced.
HonestResult ==
    pc = "returned" =>
        /\ x.size > 0 => (ret = x.size <=> Complete(x))
        /\ ret = -1 \/ ret = x.off

\* The timeout is soft: a call may exceed it, but only by one interval, one wait
\* inside co::read or co::write and two late resumptions (bestEffort.h:42-45).
BoundedOvershoot == elapsed <= Timeout + Interval + MaxPark + 2 * MaxLag

\* A call that gives up because every turn found the peer silent has waited for
\* the whole timeout, up to what dividing it into intervals rounds away.
NoEarlyTimeout ==
    (pc = "returned" /\ patient = MaxRetries) =>
        elapsed > Timeout - MaxRetries

\* After a failed transfer error() names this failure: ETIMEDOUT when the call ran
\* out of time or turns with nothing moved, although other coroutines set errno
\* during every suspension (bestEffort.h:43, 86; Client.h:294).
TimeoutIsNamed ==
    [][ (pc = "returned" /\ ret = -1 /\ why \in {"deadline", "exhausted"})
            => cached' = ETIMEDOUT ]_vars

\* What Client.h:295 says: a transfer that moved m of n bytes, m < n, because the
\* peer is too slow is reported as ETIMEDOUT.
ShortIsTimeout ==
    [][ (pc = "returned" /\ why = "exhausted" /\ ret \in 1 .. x.size - 1)
            => cached' = ETIMEDOUT ]_vars

\* Every transfer returns to its caller, whatever polls, reads and writes answer, if every
\* wait inside co::read and co::write ends, which has no timer (MaxPark).
Terminates == pc # "idle" ~> pc = "idle"
=============================================================================
