-------------------------- MODULE BestEffortProofs --------------------------
(* What BestEffort promises for every size, timeout and number of turns.    *)
EXTENDS BestEffort, TLAPS

\* The parts of a transfer are natural numbers.
LEMMA TransferFacts ==
  ASSUME NEW S \in SUBSET Nat, NEW max \in Nat, NEW y, IsTransfer(y, S, max)
  PROVE  y.size \in S /\ y.size \in Nat /\ y.off \in Nat /\ y.tries \in Nat
<1>1. y.size \in S /\ y.off \in Nat /\ y.tries \in 0 .. max
  BY DEF IsTransfer
<1>2. 0 .. max \subseteq Nat
  OBVIOUS
<1>3. QED BY <1>1, <1>2, Zenon

\* Advancing by what is missing at most leaves a transfer one.
LEMMA AdvanceIsTransfer ==
  ASSUME NEW S \in SUBSET Nat, NEW max \in Nat, NEW y,
         IsTransfer(y, S, max), NEW n \in Nat, n <= y.size - y.off
  PROVE  /\ IsTransfer(Advance(y, n), S, max)
         /\ Advance(y, n).size = y.size
         /\ Advance(y, n).off = y.off + n
         /\ Advance(y, n).tries = y.tries
<1>1. y.size \in Nat /\ y.off \in Nat
  BY TransferFacts
<1>2. QED BY <1>1 DEF IsTransfer, Advance

Turning == {"loop", "poll", "func", "parked"}

\* While the loop turns, something is left to move.
Unfinished == pc \in Turning /\ x.size > 0 => x.off < x.size

\* The clock at each point of a turn: every wait has its own place in the bound.
Pace ==
    /\ pc = "poll"   => elapsed <= Timeout
    /\ pc = "func"   => elapsed <= Timeout + Interval + MaxLag
    /\ pc = "parked" => elapsed <= Timeout + Interval + MaxLag + MaxPark
    /\ elapsed <= Timeout + Interval + MaxPark + 2 * MaxLag

\* Every silent turn has taken a whole interval; one turn at most is not decided.
Patience ==
    /\ elapsed >= patient * Interval
    /\ pc \in {"poll", "func", "parked"} => patient < x.tries

IInv == TypeOK /\ Unfinished /\ HonestResult /\ Pace /\ Patience

\* An interval is a natural number, and MaxRetries of them make up the timeout
\* except for a remainder smaller than MaxRetries.
LEMMA IntervalFacts ==
    /\ Interval \in Nat
    /\ MaxRetries * Interval <= Timeout
    /\ Timeout < MaxRetries * Interval + MaxRetries
  BY RetriesAssumption, TimesAssumption DEF Interval

\* The state before any call satisfies the invariant.
LEMMA InitIInv == Init => IInv
<1> SUFFICES ASSUME Init PROVE IInv
  OBVIOUS
<1>1. TypeOK
  BY RetriesAssumption DEF Init, TypeOK, IsTransfer, Begin, Exits, Codes
<1>2. Unfinished /\ HonestResult
  BY DEF Init, Unfinished, HonestResult, Begin, Turning
<1>3. Pace /\ Patience
  BY IntervalFacts, TimesAssumption DEF Init, Pace, Patience, Begin
<1>4. QED BY <1>1, <1>2, <1>3 DEF IInv

\* Every step keeps it.
LEMMA NextIInv == IInv /\ [Next]_vars => IInv'
<1> SUFFICES ASSUME IInv, [Next]_vars PROVE IInv'
  OBVIOUS
<1> USE TimesAssumption, RetriesAssumption, SizesAssumption
<1>0. /\ TypeOK /\ Unfinished /\ HonestResult /\ Pace /\ Patience
      /\ x.size \in Nat /\ x.off \in Nat /\ x.tries \in Nat
      /\ patient \in Nat
  <2>1. TypeOK /\ Unfinished /\ HonestResult /\ Pace /\ Patience
    BY DEF IInv
  <2>2. x.size \in Nat /\ x.off \in Nat /\ x.tries \in Nat
    <3>1. x.size \in Sizes \cup {0} /\ x.off \in Nat /\ x.tries \in 0 .. MaxRetries
      BY <2>1 DEF TypeOK, IsTransfer
    <3>2. Sizes \cup {0} \subseteq Nat /\ 0 .. MaxRetries \subseteq Nat
      OBVIOUS
    <3>3. QED BY <3>1, <3>2, Zenon
  <2>3. patient \in Nat
    BY <2>1, <2>2 DEF TypeOK
  <2>4. QED BY <2>1, <2>2, <2>3
<1>1. CASE LeaveExhausted
  <2>1. TypeOK'
    BY <1>0, <1>1 DEF TypeOK, IsTransfer, Exits, Codes, LeaveExhausted, Leave, Exhausted, ResultWhenExhausted
  <2>2. Unfinished'
    BY <1>0, <1>1 DEF Unfinished, Turning, LeaveExhausted, Leave, Exhausted, ResultWhenExhausted
  <2>3. HonestResult'
    BY <1>0, <1>1 DEF HonestResult, Unfinished, Turning, Complete, LeaveExhausted, Leave, Exhausted, ResultWhenExhausted
  <2>4. Pace'
    BY <1>0, <1>1, IntervalFacts DEF TypeOK, Pace, LeaveExhausted, Leave, Exhausted, ResultWhenExhausted
  <2>5. Patience'
    BY <1>0, <1>1, IntervalFacts DEF TypeOK, Patience, LeaveExhausted, Leave, Exhausted, ResultWhenExhausted
  <2>6. QED BY <2>1, <2>2, <2>3, <2>4, <2>5 DEF IInv
<1>2. CASE LeaveDeadline
  <2>1. TypeOK'
    BY <1>0, <1>2 DEF TypeOK, IsTransfer, Exits, Codes, LeaveDeadline, Leave
  <2>2. Unfinished'
    BY <1>0, <1>2 DEF Unfinished, Turning, LeaveDeadline, Leave
  <2>3. HonestResult'
    BY <1>0, <1>2 DEF HonestResult, Unfinished, Turning, Complete, LeaveDeadline, Leave
  <2>4. Pace'
    BY <1>0, <1>2, IntervalFacts DEF TypeOK, Pace, LeaveDeadline, Leave
  <2>5. Patience'
    BY <1>0, <1>2, IntervalFacts DEF TypeOK, Patience, LeaveDeadline, Leave
  <2>6. QED BY <2>1, <2>2, <2>3, <2>4, <2>5 DEF IInv
<1>3. CASE EnterTurn
  <2>1. TypeOK'
    BY <1>0, <1>3, IntervalFacts DEF TypeOK, Patience, IsTransfer, Exits, Codes, EnterTurn, Attempt, Exhausted
  <2>2. Unfinished'
    BY <1>0, <1>3 DEF Unfinished, Turning, EnterTurn, Attempt, Exhausted
  <2>3. HonestResult'
    BY <1>0, <1>3 DEF HonestResult, Unfinished, Turning, Complete, EnterTurn, Attempt, Exhausted
  <2>4. Pace'
    BY <1>0, <1>3, IntervalFacts DEF TypeOK, Pace, EnterTurn, Attempt, Exhausted
  <2>5. Patience'
    BY <1>0, <1>3, IntervalFacts DEF TypeOK, Patience, EnterTurn, Attempt, Exhausted
  <2>6. QED BY <2>1, <2>2, <2>3, <2>4, <2>5 DEF IInv
<1>4. ASSUME NEW lag \in 0 .. MaxLag, PollTimeout(lag) PROVE IInv'
  <2>1. TypeOK'
    BY <1>0, <1>4, IntervalFacts DEF TypeOK, Patience, IsTransfer, Exits, Codes, PollTimeout, Overwritten
  <2>2. Unfinished'
    BY <1>0, <1>4 DEF Unfinished, Turning, PollTimeout, Overwritten
  <2>3. HonestResult'
    BY <1>0, <1>4 DEF HonestResult, Unfinished, Turning, Complete, PollTimeout, Overwritten
  <2>4. Pace'
    BY <1>0, <1>4, IntervalFacts DEF TypeOK, Pace, PollTimeout, Overwritten
  <2>5. Patience'
    BY <1>0, <1>4, IntervalFacts DEF TypeOK, Patience, PollTimeout, Overwritten
  <2>6. QED BY <2>1, <2>2, <2>3, <2>4, <2>5 DEF IInv
<1>5. ASSUME NEW waited \in 0 .. Interval + MaxLag, PollReady(waited) PROVE IInv'
  <2>1. TypeOK'
    BY <1>0, <1>5 DEF TypeOK, IsTransfer, Exits, Codes, PollReady, Overwritten
  <2>2. Unfinished'
    BY <1>0, <1>5 DEF Unfinished, Turning, PollReady, Overwritten
  <2>3. HonestResult'
    BY <1>0, <1>5 DEF HonestResult, Unfinished, Turning, Complete, PollReady, Overwritten
  <2>4. Pace'
    BY <1>0, <1>5, IntervalFacts DEF TypeOK, Pace, PollReady, Overwritten
  <2>5. Patience'
    BY <1>0, <1>5, IntervalFacts DEF TypeOK, Patience, PollReady, Overwritten
  <2>6. QED BY <2>1, <2>2, <2>3, <2>4, <2>5 DEF IInv
<1>6. ASSUME NEW code \in Errnos, PollError(code) PROVE IInv'
  <2>1. TypeOK'
    BY <1>0, <1>6 DEF TypeOK, IsTransfer, Exits, Codes, PollError, Leave
  <2>2. Unfinished'
    BY <1>0, <1>6 DEF Unfinished, Turning, PollError, Leave
  <2>3. HonestResult'
    BY <1>0, <1>6 DEF HonestResult, Unfinished, Turning, Complete, PollError, Leave
  <2>4. Pace'
    BY <1>0, <1>6, IntervalFacts DEF TypeOK, Pace, PollError, Leave
  <2>5. Patience'
    BY <1>0, <1>6, IntervalFacts DEF TypeOK, Patience, PollError, Leave
  <2>6. QED BY <2>1, <2>2, <2>3, <2>4, <2>5 DEF IInv
<1>7. ASSUME NEW n \in 1 .. x.size, FuncMoves(n) PROVE IInv'
  <2>0. /\ IsTransfer(x', Sizes \cup {0}, MaxRetries)
        /\ x'.size = x.size /\ x'.off = x.off + n /\ x'.tries = x.tries
    <3>1. /\ Sizes \cup {0} \in SUBSET Nat /\ MaxRetries \in Nat /\ n \in Nat
          /\ IsTransfer(x, Sizes \cup {0}, MaxRetries)
          /\ n <= x.size - x.off /\ x' = Advance(x, n)
      BY <1>0, <1>7 DEF TypeOK, FuncMoves, Moved
    <3>2. QED BY <3>1, AdvanceIsTransfer
  <2>1. TypeOK'
    BY <1>0, <1>7, <2>0 DEF TypeOK, Exits, Codes, FuncMoves, Moved, Leave
  <2>2. Unfinished'
    BY <1>0, <1>7, <2>0 DEF Unfinished, Turning, FuncMoves, Moved, Leave, Complete
  <2>3. HonestResult'
    BY <1>0, <1>7, <2>0 DEF HonestResult, Unfinished, Turning, Complete, FuncMoves, Moved, Leave
  <2>4. Pace'
    BY <1>0, <1>7, <2>0, IntervalFacts DEF TypeOK, Pace, FuncMoves, Moved, Leave, Complete
  <2>5. Patience'
    BY <1>0, <1>7, <2>0, IntervalFacts DEF TypeOK, Patience, FuncMoves, Moved, Leave, Complete
  <2>6. QED BY <2>1, <2>2, <2>3, <2>4, <2>5 DEF IInv
<1>8. ASSUME NEW waited \in 0 .. MaxPark, FuncParks(waited) PROVE IInv'
  <2>1. TypeOK'
    BY <1>0, <1>8 DEF TypeOK, IsTransfer, Exits, Codes, FuncParks, Overwritten
  <2>2. Unfinished'
    BY <1>0, <1>8 DEF Unfinished, Turning, FuncParks, Overwritten
  <2>3. HonestResult'
    BY <1>0, <1>8 DEF HonestResult, Unfinished, Turning, Complete, FuncParks, Overwritten
  <2>4. Pace'
    BY <1>0, <1>8, IntervalFacts DEF TypeOK, Pace, FuncParks, Overwritten
  <2>5. Patience'
    BY <1>0, <1>8, IntervalFacts DEF TypeOK, Patience, FuncParks, Overwritten
  <2>6. QED BY <2>1, <2>2, <2>3, <2>4, <2>5 DEF IInv
<1>9. ASSUME NEW n \in 1 .. x.size, WokenMoves(n) PROVE IInv'
  <2>0. /\ IsTransfer(x', Sizes \cup {0}, MaxRetries)
        /\ x'.size = x.size /\ x'.off = x.off + n /\ x'.tries = x.tries
    <3>1. /\ Sizes \cup {0} \in SUBSET Nat /\ MaxRetries \in Nat /\ n \in Nat
          /\ IsTransfer(x, Sizes \cup {0}, MaxRetries)
          /\ n <= x.size - x.off /\ x' = Advance(x, n)
      BY <1>0, <1>9 DEF TypeOK, WokenMoves, Moved
    <3>2. QED BY <3>1, AdvanceIsTransfer
  <2>1. TypeOK'
    BY <1>0, <1>9, <2>0 DEF TypeOK, Exits, Codes, WokenMoves, Moved, Leave
  <2>2. Unfinished'
    BY <1>0, <1>9, <2>0 DEF Unfinished, Turning, WokenMoves, Moved, Leave, Complete
  <2>3. HonestResult'
    BY <1>0, <1>9, <2>0 DEF HonestResult, Unfinished, Turning, Complete, WokenMoves, Moved, Leave
  <2>4. Pace'
    BY <1>0, <1>9, <2>0, IntervalFacts DEF TypeOK, Pace, WokenMoves, Moved, Leave, Complete
  <2>5. Patience'
    BY <1>0, <1>9, <2>0, IntervalFacts DEF TypeOK, Patience, WokenMoves, Moved, Leave, Complete
  <2>6. QED BY <2>1, <2>2, <2>3, <2>4, <2>5 DEF IInv
<1>10. ASSUME NEW lag \in 0 .. MaxLag, WokenAgain(lag) PROVE IInv'
  <2>1. TypeOK'
    BY <1>0, <1>10 DEF TypeOK, IsTransfer, Exits, Codes, WokenAgain, Overwritten
  <2>2. Unfinished'
    BY <1>0, <1>10 DEF Unfinished, Turning, WokenAgain, Overwritten
  <2>3. HonestResult'
    BY <1>0, <1>10 DEF HonestResult, Unfinished, Turning, Complete, WokenAgain, Overwritten
  <2>4. Pace'
    BY <1>0, <1>10, IntervalFacts DEF TypeOK, Pace, WokenAgain, Overwritten
  <2>5. Patience'
    BY <1>0, <1>10, IntervalFacts DEF TypeOK, Patience, WokenAgain, Overwritten
  <2>6. QED BY <2>1, <2>2, <2>3, <2>4, <2>5 DEF IInv
<1>11. CASE WokenFin
  <2>1. TypeOK'
    BY <1>0, <1>11 DEF TypeOK, IsTransfer, Exits, Codes, WokenFin, Leave
  <2>2. Unfinished'
    BY <1>0, <1>11 DEF Unfinished, Turning, WokenFin, Leave
  <2>3. HonestResult'
    BY <1>0, <1>11 DEF HonestResult, Unfinished, Turning, Complete, WokenFin, Leave
  <2>4. Pace'
    BY <1>0, <1>11, IntervalFacts DEF TypeOK, Pace, WokenFin, Leave
  <2>5. Patience'
    BY <1>0, <1>11, IntervalFacts DEF TypeOK, Patience, WokenFin, Leave
  <2>6. QED BY <2>1, <2>2, <2>3, <2>4, <2>5 DEF IInv
<1>12. ASSUME NEW code \in Errnos, WokenError(code) PROVE IInv'
  <2>1. TypeOK'
    BY <1>0, <1>12 DEF TypeOK, IsTransfer, Exits, Codes, WokenError, Leave
  <2>2. Unfinished'
    BY <1>0, <1>12 DEF Unfinished, Turning, WokenError, Leave
  <2>3. HonestResult'
    BY <1>0, <1>12 DEF HonestResult, Unfinished, Turning, Complete, WokenError, Leave
  <2>4. Pace'
    BY <1>0, <1>12, IntervalFacts DEF TypeOK, Pace, WokenError, Leave
  <2>5. Patience'
    BY <1>0, <1>12, IntervalFacts DEF TypeOK, Patience, WokenError, Leave
  <2>6. QED BY <2>1, <2>2, <2>3, <2>4, <2>5 DEF IInv
<1>13. CASE Wrap
  <2>1. TypeOK'
    BY <1>0, <1>13 DEF TypeOK, IsTransfer, Exits, Codes, Wrap
  <2>2. Unfinished'
    BY <1>0, <1>13 DEF Unfinished, Turning, Wrap
  <2>3. HonestResult'
    BY <1>0, <1>13 DEF HonestResult, Unfinished, Turning, Complete, Wrap
  <2>4. Pace'
    BY <1>0, <1>13, IntervalFacts DEF TypeOK, Pace, Wrap
  <2>5. Patience'
    BY <1>0, <1>13, IntervalFacts DEF TypeOK, Patience, Wrap
  <2>6. QED BY <2>1, <2>2, <2>3, <2>4, <2>5 DEF IInv
<1>14. ASSUME NEW size \in Sizes, Start(size) PROVE IInv'
  <2>1. TypeOK'
    BY <1>0, <1>14 DEF TypeOK, IsTransfer, Exits, Codes, Start, Begin
  <2>2. Unfinished'
    BY <1>0, <1>14 DEF Unfinished, Turning, Start, Begin
  <2>3. HonestResult'
    BY <1>0, <1>14 DEF HonestResult, Unfinished, Turning, Complete, Start, Begin
  <2>4. Pace'
    BY <1>0, <1>14, IntervalFacts DEF TypeOK, Pace, Start, Begin
  <2>5. Patience'
    BY <1>0, <1>14, IntervalFacts DEF TypeOK, Patience, Start, Begin
  <2>6. QED BY <2>1, <2>2, <2>3, <2>4, <2>5 DEF IInv
<1>15. CASE ReadError
  <2>1. TypeOK'
    BY <1>0, <1>15 DEF TypeOK, IsTransfer, Exits, Codes, ReadError
  <2>2. Unfinished'
    BY <1>0, <1>15 DEF Unfinished, Turning, ReadError
  <2>3. HonestResult'
    BY <1>0, <1>15 DEF HonestResult, Unfinished, Turning, Complete, ReadError
  <2>4. Pace'
    BY <1>0, <1>15, IntervalFacts DEF TypeOK, Pace, ReadError
  <2>5. Patience'
    BY <1>0, <1>15, IntervalFacts DEF TypeOK, Patience, ReadError
  <2>6. QED BY <2>1, <2>2, <2>3, <2>4, <2>5 DEF IInv
<1>16. CASE UNCHANGED vars
  BY <1>0, <1>16 DEF vars, IInv, TypeOK, Unfinished, HonestResult, Complete, Pace, Patience
<1>17. QED
  BY <1>1, <1>2, <1>3, <1>4, <1>5, <1>6, <1>7, <1>8, <1>9, <1>10, <1>11, <1>12, <1>13, <1>14, <1>15, <1>16 DEF Next, Run

\* The invariant holds throughout.
THEOREM Invariance == Spec => []IInv
<1>1. QED BY InitIInv, NextIInv, PTL DEF Spec

\* The variables keep their types; no turn beyond maxRetries ever begins.
THEOREM TypeCorrect == Spec => []TypeOK
<1>1. IInv => TypeOK BY DEF IInv
<1>2. QED BY Invariance, <1>1, PTL

\* A result equal to the size and a complete transfer are the same thing, for every
\* size but 0, every timeout and every order of events (bestEffort.h:35-91).
THEOREM ResultIsHonest == Spec => []HonestResult
<1>1. IInv => HonestResult BY DEF IInv
<1>2. QED BY Invariance, <1>1, PTL

\* No call outlasts its soft timeout by more than an interval, a wait and two lags.
THEOREM OvershootIsBounded == Spec => []BoundedOvershoot
<1>1. IInv => BoundedOvershoot BY DEF IInv, Pace, BoundedOvershoot
<1>2. QED BY Invariance, <1>1, PTL

\* A call that met a silent peer in every turn has used its whole timeout.
THEOREM PatienceIsKept == Spec => []NoEarlyTimeout
<1>1. ASSUME IInv PROVE NoEarlyTimeout
  <2>1. SUFFICES ASSUME patient = MaxRetries PROVE elapsed > Timeout - MaxRetries
    BY DEF NoEarlyTimeout
  <2>2. elapsed \in Nat /\ elapsed >= MaxRetries * Interval
    BY <1>1, <2>1 DEF IInv, Patience, TypeOK
  <2>3. QED BY <2>2, IntervalFacts, TimesAssumption, RetriesAssumption
<1>2. QED BY Invariance, <1>1, PTL

\* A call that runs out of time or turns leaves the code of a timeout in errno, and keeps
\* the thread until the wrapper has read it.
Named ==
    pc = "returned" /\ ret = -1 /\ why \in {"deadline", "exhausted"} => errno = ETIMEDOUT

LEMMA NextNamed == IInv /\ Named /\ [Next]_vars => Named'
<1> SUFFICES ASSUME IInv, Named, [Next]_vars PROVE Named'
  OBVIOUS
<1>1. CASE LeaveExhausted
  <2>1. x.off \in Nat
    BY DEF IInv, TypeOK, IsTransfer
  <2>2. CASE x.off = 0
    BY <1>1, <2>2 DEF LeaveExhausted, Leave, Named
  <2>3. CASE x.off # 0
    BY <1>1, <2>1, <2>3 DEF LeaveExhausted, Leave, ResultWhenExhausted, Named
  <2>4. QED BY <2>2, <2>3
<1>2. CASE LeaveDeadline
  BY <1>2 DEF LeaveDeadline, Leave, Named
<1>3. CASE UNCHANGED vars
  BY <1>3 DEF vars, Named
<1>4. CASE Next /\ ~LeaveExhausted /\ ~LeaveDeadline
  <2>1. pc' # "returned" \/ why' \in {"complete", "fin", "poll", "func"}
    BY <1>4 DEF Next, Run, EnterTurn, PollTimeout, PollReady, PollError, FuncMoves, WokenMoves,
                Moved, FuncParks, WokenAgain, WokenFin, WokenError, Wrap, Start, ReadError, Leave
  <2>2. QED BY <2>1 DEF Named
<1>5. QED BY <1>1, <1>2, <1>3, <1>4

\* After a transfer that ran out of time, or of turns with nothing moved, error() says
\* ETIMEDOUT, whatever other coroutines do to errno while the call is suspended
\* (bestEffort.h:43, 86; Client.h:294).
THEOREM TimeoutHasItsName == Spec => TimeoutIsNamed
<1>1. Init => Named
  BY DEF Init, Named
<1>2. IInv /\ Named /\ [Next]_vars =>
        [ (pc = "returned" /\ ret = -1 /\ why \in {"deadline", "exhausted"})
            => cached' = ETIMEDOUT ]_vars
  <2> SUFFICES ASSUME IInv, Named, Next,
                      pc = "returned", ret = -1, why \in {"deadline", "exhausted"}
               PROVE  cached' = ETIMEDOUT
    OBVIOUS
  <2>1. Wrap
    BY DEF Next, Run, LeaveExhausted, LeaveDeadline, EnterTurn, PollTimeout, PollReady, PollError,
           FuncMoves, WokenMoves, FuncParks, WokenAgain, WokenFin, WokenError, Start, ReadError
  <2>2. ret # x.size
    <3>1. x.size \in Sizes \cup {0}
      BY DEF IInv, TypeOK, IsTransfer
    <3>2. Sizes \cup {0} \subseteq Nat
      BY SizesAssumption
    <3>3. x.size \in Nat
      BY <3>1, <3>2, Zenon
    <3>4. QED BY <3>3
  <2>3. QED BY <2>1, <2>2, ErrnosAssumption DEF Wrap, Named
<1>3. QED BY Invariance, NextNamed, <1>1, <1>2, PTL DEF Spec, TimeoutIsNamed
=============================================================================
