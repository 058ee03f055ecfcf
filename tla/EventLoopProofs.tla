-------------------------- MODULE EventLoopProofs --------------------------
(* What EventLoop promises for any number of coroutines and of descriptors. *)
(* The stack, the event table and the array of loop() are proved about one  *)
(* by one; CoroutineProofs has the contexts.                                 *)
EXTENDS EventLoop, CoroutineProofs

TableTypes ==
    /\ owner \in [Fd -> Co \cup {Nobody}]
    /\ timers \subseteq Fd
    /\ ready \subseteq Fd \X Type
    /\ interest \in [Fd -> SUBSET Type]
    /\ mask \in [Fd -> SUBSET Type]
    /\ slot \in [Fd -> [Type -> Co \cup {Nobody}]]
    /\ wait \in [Co -> {<<>>} \cup (Fd \X Type)]

\* Where there is no entry nobody is left and nothing is watched.
NoEntry == \A f \in Fd : mask[f] = {} => interest[f] = {} /\ slot[f] = NoSlots

\* What epoll watches for is what the descriptor's owner waits for, and nothing else.
Watched ==
    \A f \in Fd : interest[f] # {} =>
        \E t \in Type :
            /\ owner[f] \in Co /\ wait[owner[f]] = <<f, t>> /\ slot[f][t] = owner[f]
            /\ interest[f] = {t} /\ mask[f] = {t}

\* An entry holds one coroutine.
OneSlot ==
    \A f \in Fd, t, u \in Type : slot[f][t] # Nobody /\ slot[f][u] # Nobody => t = u

\* The coroutine in an entry waits for that event, and loop() has not taken it out.
SlotsWait ==
    \A f \in Fd, t \in Type :
        slot[f][t] # Nobody => wait[slot[f][t]] = <<f, t>> /\ ~Taken(slot[f][t])

\* A timer is open as long as its coroutine waits for it.
TimersWait ==
    \A f \in timers : owner[f] \in Co /\ wait[owner[f]] = <<f, "READ">>

\* Who waits is found, unless the number is stranded.
Found ==
    \A c \in Co, f \in Fd, t \in Type :
        wait[c] = <<f, t>> /\ ~Taken(c) =>
            Stranded(f) \/ (slot[f][t] = c /\ t \in interest[f])

Table ==
    /\ TableTypes /\ NoEntry /\ Watched /\ OneSlot /\ SlotsWait /\ TimersWait /\ Found

\* The array of loop() has one coroutine at most, and only while it resumes.
LoopTypes ==
    /\ loopAt \in {"setup", "wait", "resume"}
    /\ routines \in Seq(Co) /\ Len(routines) \in 0 .. 1
    /\ turn \in 0 .. Len(routines)
    /\ loopAt # "resume" => routines = <<>> /\ turn = 0

TakenWait == \A c \in Co : Taken(c) => wait[c] # <<>>

\* A coroutine in the stack has a pointer to it elsewhere: with the one below it, or in
\* the array of the loop that has resumed it.
Supported ==
    \A i \in 2 .. Len(stack) :
        \/ holder[stack[i]] = stack[i - 1]
        \/ i = 2 /\ turn = 1 /\ routines = <<stack[i]>>

\* Who waits does not run and has not ended.
Suspended == \A c \in Co : wait[c] # <<>> => ~InSeq(c, stack) /\ life[c] = "running"

Running == StackTypes /\ Distinct /\ OnStackRuns /\ Supported /\ Suspended

LoopInv == Table /\ LoopTypes /\ TakenWait /\ Running /\ ContextTypes /\ Counted

-----------------------------------------------------------------------------
(* Who runs, and who is taken.                                              *)

\* The coroutine that runs waits for nothing, so it is in no entry and in nobody's way.
LEMMA RunningFacts ==
  ASSUME LoopInv, NEW c \in Co, Runs(c)
  PROVE  /\ Current = c /\ Current # Main /\ wait[c] = <<>> /\ life[c] = "running" /\ ~Taken(c)
         /\ Len(stack) \in Nat /\ Len(stack) > 1 /\ stack[Len(stack)] = c
         /\ \A f \in Fd : owner[f] = c \/ owner[f] = Nobody => interest[f] = {}
         /\ \A f \in timers : owner[f] # c /\ owner[f] # Nobody
<1>1. Current = c /\ c # Main
  BY NamesAssumption DEF Runs
<1>2. Len(stack) \in Nat /\ Len(stack) > 1 /\ stack[Len(stack)] = c
  BY <1>1, CurrentFacts DEF LoopInv, Running
<1>3. Len(stack) \in 1 .. Len(stack)
  BY <1>2
<1>4. InSeq(c, stack) /\ life[c] = "running"
  BY <1>2, <1>3 DEF InSeq, LoopInv, Running, OnStackRuns
<1>5. wait[c] = <<>>
  BY <1>4 DEF LoopInv, Running, Suspended
<1>6. ~Taken(c)
  BY <1>5 DEF LoopInv, TakenWait
<1>7. \A f, t : <<f, t>> # <<>>
  OBVIOUS
<1>8. ASSUME NEW f \in Fd, owner[f] = c \/ owner[f] = Nobody PROVE interest[f] = {}
  BY <1>5, <1>7, <1>8, NamesAssumption DEF LoopInv, Table, Watched
<1>9. \A f \in timers : owner[f] # c /\ owner[f] # Nobody
  <2>1. ASSUME NEW f \in timers PROVE owner[f] \in Co /\ wait[owner[f]] # <<>>
    BY <1>7 DEF LoopInv, Table, TimersWait
  <2>2. QED BY <1>5, <2>1, NamesAssumption
<1>10. QED BY <1>1, <1>2, <1>4, <1>5, <1>6, <1>8, <1>9

\* While the main coroutine runs, it is alone on the stack.
LEMMA MainFacts ==
  ASSUME StackTypes, Distinct, Current = Main
  PROVE  Len(stack) = 1 /\ stack[1] = Main
<1>1. Len(stack) \in Nat \ {0} /\ stack[Len(stack)] = Main
  BY CurrentFacts
<1>2. Len(stack) \in 1 .. Len(stack) /\ 1 \in 1 .. Len(stack)
  BY <1>1
<1>3. Len(stack) = 1
  BY <1>1, <1>2 DEF Distinct
<1>4. QED BY <1>3 DEF Distinct

\* The one coroutine in the array is taken until it has had its turn.
LEMMA TakenIs ==
  ASSUME LoopTypes, NEW c
  PROVE  Taken(c) <=> turn = 0 /\ Len(routines) = 1 /\ routines[1] = c
<1>1. /\ Len(routines) = 0 \/ Len(routines) = 1
      /\ turn = 0 \/ turn = Len(routines)
  <2>1. Len(routines) \in 0 .. 1 /\ turn \in 0 .. Len(routines)
    BY DEF LoopTypes
  <2>2. Len(routines) = 0 \/ Len(routines) = 1
    BY <2>1
  <2>3. CASE Len(routines) = 0
    BY <2>1, <2>3
  <2>4. CASE Len(routines) = 1
    BY <2>1, <2>4
  <2>5. QED BY <2>2, <2>3, <2>4
<1>2. CASE turn = 0 /\ Len(routines) = 1
  <2>1. turn + 1 .. Len(routines) = {1}
    BY <1>2
  <2>2. QED BY <1>2, <2>1 DEF Taken
<1>3. CASE ~(turn = 0 /\ Len(routines) = 1)
  <2>1. turn + 1 .. Len(routines) = {}
    <3>1. CASE Len(routines) = 0 /\ turn = 0
      BY <3>1
    <3>2. CASE Len(routines) = 1 /\ turn = 1
      BY <3>2
    <3>3. QED BY <1>1, <1>3, <3>1, <3>2
  <2>2. QED BY <1>3, <2>1 DEF Taken
<1>4. QED BY <1>2, <1>3
-----------------------------------------------------------------------------
(* The event table.                                                         *)

\* What touches none of the table leaves it in order.
LEMMA TableSame ==
  ASSUME Table, UNCHANGED <<owner, timers, interest, mask, slot, wait>>,
         ready' \subseteq Fd \X Type, \A c \in Co : Taken(c)' <=> Taken(c)
  PROVE  Table'
<1>1. TableTypes' /\ NoEntry' /\ Watched' /\ OneSlot' /\ TimersWait'
  BY DEF Table, TableTypes, NoEntry, Watched, OneSlot, TimersWait
<1>2. SlotsWait'
  BY DEF Table, TableTypes, SlotsWait
<1>3. Found'
  BY DEF Table, Found, Stranded
<1>4. QED BY <1>1, <1>2, <1>3 DEF Table

\* A new descriptor: nothing is watched under its number.
LEMMA TableOpens ==
  ASSUME LoopInv, NEW c \in Co, NEW f \in Fd, Runs(c), Open(c, f)
  PROVE  Table'
<1>1. /\ owner[f] = Nobody /\ owner' = [owner EXCEPT ![f] = c]
      /\ UNCHANGED <<timers, ready, interest, mask, slot, wait, routines, turn>>
  BY DEF Open, IsOpen
<1>2. Table /\ interest[f] = {} /\ f \notin timers
  BY <1>1, RunningFacts DEF LoopInv
<1>3. \A g \in Fd : g # f => owner'[g] = owner[g]
  BY <1>1, <1>2 DEF Table, TableTypes
<1>4. TableTypes' /\ NoEntry' /\ OneSlot'
  BY <1>1, <1>2 DEF Table, TableTypes, NoEntry, OneSlot
<1>5. Watched'
  <2>1. ASSUME NEW g \in Fd, interest[g] # {} PROVE owner'[g] = owner[g]
    BY <1>2, <1>3, <2>1
  <2>2. QED BY <1>1, <1>2, <2>1 DEF Table, Watched
<1>6. SlotsWait' /\ Found'
  <2>1. \A d : Taken(d)' = Taken(d)
    BY <1>1 DEF Taken
  <2>2. SlotsWait'
    BY <1>1, <1>2, <2>1 DEF Table, SlotsWait
  <2>3. Found'
    BY <1>1, <1>2, <2>1 DEF Table, Found, Stranded
  <2>4. QED BY <2>2, <2>3
<1>7. TimersWait'
  BY <1>1, <1>2, <1>3 DEF Table, TableTypes, TimersWait
<1>8. QED BY <1>4, <1>5, <1>6, <1>7 DEF Table

\* Descriptors of F are closed, none of them a timer: whoever waits on one is stranded.
LEMMA TableCloses ==
  ASSUME Table, NEW F \in SUBSET Fd, F \cap timers = {},
         owner' = [g \in Fd |-> IF g \in F THEN Nobody ELSE owner[g]],
         interest' = [g \in Fd |-> IF g \in F THEN {} ELSE interest[g]],
         ready' \subseteq ready,
         UNCHANGED <<timers, mask, slot, wait, routines, turn>>
  PROVE  Table'
<1>1. \A g \in Fd : /\ g \in F => owner'[g] = Nobody /\ interest'[g] = {}
                    /\ g \notin F => owner'[g] = owner[g] /\ interest'[g] = interest[g]
  OBVIOUS
<1>2. TableTypes' /\ NoEntry' /\ OneSlot'
  BY <1>1 DEF Table, TableTypes, NoEntry, OneSlot
<1>3. Watched'
  BY <1>1 DEF Table, Watched
<1>4. SlotsWait'
  BY DEF Table, SlotsWait, Taken
<1>5. TimersWait'
  BY <1>1 DEF Table, TableTypes, TimersWait
<1>6. Found'
  <2>1. ASSUME NEW c \in Co, NEW f \in Fd, NEW t \in Type, wait[c] = <<f, t>>, ~Taken(c)
        PROVE  Stranded(f)' \/ (slot[f][t] = c /\ t \in interest'[f])
    <3>1. Stranded(f) \/ (slot[f][t] = c /\ t \in interest[f])
      BY <2>1 DEF Table, Found
    <3>2. mask[f] # {}
      <4>1. CASE slot[f][t] = c
        BY <4>1, NamesAssumption DEF Table, NoEntry, NoSlots
      <4>2. CASE Stranded(f)
        BY <4>2 DEF Stranded
      <4>3. QED BY <3>1, <4>1, <4>2
    <3>3. QED BY <1>1, <3>1, <3>2 DEF Stranded
  <2>2. QED BY <2>1 DEF Found, Taken
<1>7. QED BY <1>2, <1>3, <1>4, <1>5, <1>6 DEF Table

\* c goes to wait for t on f, where epoll watches for nothing: a new entry gets it, and is
\* watched if the descriptor is open; an entry left by others stays stranded.
LEMMA TableWaits ==
  ASSUME LoopInv, NEW c \in Co, NEW f \in Fd, NEW t \in Type,
         wait[c] = <<>>, ~Taken(c), interest[f] = {}, f \notin timers,
         wait' = [wait EXCEPT ![c] = <<f, t>>],
         mask' = [mask EXCEPT ![f] = @ \cup {t}],
         slot' = IF mask[f] = {} THEN [slot EXCEPT ![f][t] = c] ELSE slot,
         owner' = [owner EXCEPT ![f] = owner'[f]], owner'[f] \in {c, Nobody},
         interest' = IF owner'[f] = c /\ mask[f] = {} THEN [interest EXCEPT ![f] = {t}]
                     ELSE interest,
         timers' = timers \/ (timers' = timers \cup {f} /\ owner'[f] = c /\ t = "READ"),
         \A g \in timers : owner[g] # c,
         UNCHANGED <<ready, routines, turn>>
  PROVE  Table'
<1>1. /\ TableTypes /\ NoEntry /\ Watched /\ OneSlot /\ SlotsWait /\ TimersWait /\ Found
      /\ c # Nobody
  BY NamesAssumption DEF LoopInv, Table
<1>2. /\ \A d \in Co : d # c => wait'[d] = wait[d]
      /\ wait'[c] = <<f, t>>
      /\ \A g \in Fd : g # f => /\ mask'[g] = mask[g] /\ slot'[g] = slot[g]
                                /\ owner'[g] = owner[g] /\ interest'[g] = interest[g]
      /\ \A d : Taken(d)' <=> Taken(d)
  BY <1>1 DEF TableTypes, Taken
<1>3. \A g \in Fd, u \in Type : slot[g][u] # c
  <2>1. \A g, u : <<g, u>> # <<>>
    OBVIOUS
  <2>2. QED BY <1>1, <2>1 DEF SlotsWait
<1>4. TableTypes'
  <2>1. wait' \in [Co -> {<<>>} \cup (Fd \X Type)]
    BY <1>1 DEF TableTypes
  <2>2. mask' \in [Fd -> SUBSET Type]
    BY <1>1 DEF TableTypes
  <2>3. slot' \in [Fd -> [Type -> Co \cup {Nobody}]]
    BY <1>1 DEF TableTypes
  <2>4. owner' \in [Fd -> Co \cup {Nobody}]
    BY <1>1 DEF TableTypes
  <2>5. interest' \in [Fd -> SUBSET Type]
    BY <1>1 DEF TableTypes
  <2>6. QED BY <1>1, <2>1, <2>2, <2>3, <2>4, <2>5 DEF TableTypes
<1>5. TimersWait'
  <2>1. ASSUME NEW g \in timers' PROVE owner'[g] \in Co /\ wait'[owner'[g]] = <<g, "READ">>
    <3>1. CASE g \in timers
      <4>1. /\ g \in Fd /\ g # f
            /\ owner[g] \in Co /\ owner[g] # c /\ wait[owner[g]] = <<g, "READ">>
        BY <1>1, <3>1 DEF TableTypes, TimersWait
      <4>2. QED BY <1>2, <4>1
    <3>2. CASE g \notin timers
      <4>1. g = f /\ owner'[f] = c /\ t = "READ"
        BY <2>1, <3>2
      <4>2. QED BY <1>2, <4>1
    <3>3. QED BY <3>1, <3>2
  <2>2. QED BY <2>1 DEF TimersWait
<1>6. CASE mask[f] = {}
  <2>1. /\ mask'[f] = {t} /\ slot'[f][t] = c
        /\ \A u \in Type : u # t => slot'[f][u] = Nobody
        /\ interest'[f] = {t} <=> owner'[f] = c
        /\ interest'[f] \in {{t}, {}}
    <3>1. slot[f] = NoSlots /\ interest[f] = {}
      BY <1>1, <1>6 DEF NoEntry
    <3>2. slot'[f] = [NoSlots EXCEPT ![t] = c]
      BY <1>1, <1>6, <3>1 DEF TableTypes
    <3>3. mask'[f] = {t}
      BY <1>1, <1>6 DEF TableTypes
    <3>4. interest'[f] = IF owner'[f] = c THEN {t} ELSE {}
      BY <1>1, <1>6, <3>1 DEF TableTypes
    <3>5. QED BY <3>2, <3>3, <3>4 DEF NoSlots
  <2>2. NoEntry'
    BY <1>1, <1>2, <2>1 DEF NoEntry
  <2>3. Watched'
    <3>1. ASSUME NEW g \in Fd, interest'[g] # {}
          PROVE  \E u \in Type :
                   /\ owner'[g] \in Co /\ wait'[owner'[g]] = <<g, u>> /\ slot'[g][u] = owner'[g]
                   /\ interest'[g] = {u} /\ mask'[g] = {u}
      <4>1. CASE g = f
        BY <1>2, <2>1, <3>1, <4>1
      <4>2. CASE g # f
        <5>1. PICK u \in Type :
                /\ owner[g] \in Co /\ wait[owner[g]] = <<g, u>> /\ slot[g][u] = owner[g]
                /\ interest[g] = {u} /\ mask[g] = {u}
          BY <1>1, <1>2, <3>1, <4>2 DEF Watched
        <5>2. owner[g] # c
          BY <1>3, <5>1
        <5>3. QED BY <1>2, <4>2, <5>1, <5>2
      <4>3. QED BY <4>1, <4>2
    <3>2. QED BY <3>1 DEF Watched
  <2>4. OneSlot'
    BY <1>1, <1>2, <2>1 DEF OneSlot
  <2>5. SlotsWait'
    BY <1>1, <1>2, <1>3, <2>1 DEF SlotsWait, TableTypes
  <2>6. Found'
    <3>1. ASSUME NEW d \in Co, NEW g \in Fd, NEW u \in Type, wait'[d] = <<g, u>>, ~Taken(d)
          PROVE  Stranded(g)' \/ (slot'[g][u] = d /\ u \in interest'[g])
      <4>1. CASE d = c
        <5>1. g = f /\ u = t
          BY <1>2, <3>1, <4>1
        <5>2. QED BY <2>1, <4>1, <5>1 DEF Stranded
      <4>2. CASE d # c
        <5>1. wait[d] = <<g, u>>
          BY <1>2, <3>1, <4>2
        <5>2. Stranded(g) \/ (slot[g][u] = d /\ u \in interest[g])
          BY <1>1, <3>1, <5>1 DEF Found
        <5>3. g # f
          BY <1>6, <5>2 DEF Stranded
        <5>4. QED BY <1>2, <5>2, <5>3 DEF Stranded
      <4>3. QED BY <4>1, <4>2
    <3>2. QED BY <1>2, <3>1 DEF Found
  <2>7. QED BY <1>4, <1>5, <2>2, <2>3, <2>4, <2>5, <2>6 DEF Table
<1>7. CASE mask[f] # {}
  <2>1. /\ mask'[f] # {} /\ slot' = slot /\ interest' = interest
    BY <1>1, <1>7 DEF TableTypes
  <2>2. NoEntry' /\ OneSlot'
    BY <1>1, <1>2, <2>1 DEF NoEntry, OneSlot
  <2>3. Watched'
    <3>1. ASSUME NEW g \in Fd, interest'[g] # {}
          PROVE  \E u \in Type :
                   /\ owner'[g] \in Co /\ wait'[owner'[g]] = <<g, u>> /\ slot'[g][u] = owner'[g]
                   /\ interest'[g] = {u} /\ mask'[g] = {u}
      <4>1. g # f
        BY <2>1, <3>1
      <4>2. PICK u \in Type :
              /\ owner[g] \in Co /\ wait[owner[g]] = <<g, u>> /\ slot[g][u] = owner[g]
              /\ interest[g] = {u} /\ mask[g] = {u}
        BY <1>1, <2>1, <3>1 DEF Watched
      <4>3. owner[g] # c
        BY <1>3, <4>2
      <4>4. QED BY <1>2, <2>1, <4>1, <4>2, <4>3
    <3>2. QED BY <3>1 DEF Watched
  <2>4. SlotsWait'
    BY <1>1, <1>2, <1>3, <2>1 DEF SlotsWait, TableTypes
  <2>5. Found'
    <3>1. ASSUME NEW d \in Co, NEW g \in Fd, NEW u \in Type, wait'[d] = <<g, u>>, ~Taken(d)
          PROVE  Stranded(g)' \/ (slot'[g][u] = d /\ u \in interest'[g])
      <4>1. CASE g = f
        BY <2>1, <4>1 DEF Stranded
      <4>2. CASE g # f
        <5>1. wait[d] = <<g, u>>
          BY <1>2, <3>1, <4>2
        <5>2. Stranded(g) \/ (slot[g][u] = d /\ u \in interest[g])
          BY <1>1, <3>1, <5>1 DEF Found
        <5>3. QED BY <1>2, <2>1, <4>2, <5>2 DEF Stranded
      <4>3. QED BY <4>1, <4>2
    <3>2. QED BY <1>2, <3>1 DEF Found
  <2>6. QED BY <1>4, <1>5, <2>2, <2>3, <2>4, <2>5 DEF Table
<1>8. QED BY <1>6, <1>7

\* The loop takes the coroutine out of the entry of f: the one slot that is filled is its.
LEMMA TableDispatches ==
  ASSUME LoopInv, NEW f \in Fd, Dispatch(f)
  PROVE  /\ Table' /\ LoopTypes' /\ TakenWait'
         /\ Current = Main /\ UNCHANGED <<stack, life, context, pool, holder, wait, owner>>
         /\ interest'[f] = {} /\ mask'[f] = {}
         /\ \A g \in Fd : g # f => interest'[g] = interest[g] /\ mask'[g] = mask[g]
<1>1. /\ Current = Main /\ loopAt = "wait" /\ interest[f] # {}
      /\ interest' = [interest EXCEPT ![f] = {}]
      /\ routines' = NotNull(slot[f]["READ"]) \o NotNull(slot[f]["WRITE"])
      /\ turn' = 0 /\ loopAt' = "resume"
      /\ mask' = [mask EXCEPT ![f] = {}]
      /\ slot' = [slot EXCEPT ![f] = NoSlots]
      /\ UNCHANGED <<stack, life, context, pool, holder, owner, timers, ready, wait>>
  BY DEF Dispatch, coVars
<1>2. /\ TableTypes /\ NoEntry /\ Watched /\ OneSlot /\ SlotsWait /\ TimersWait /\ Found
      /\ LoopTypes
  BY DEF LoopInv, Table
<1>3. PICK t \in Type :
        /\ owner[f] \in Co /\ wait[owner[f]] = <<f, t>> /\ slot[f][t] = owner[f]
        /\ interest[f] = {t}
  BY <1>1, <1>2 DEF Watched
<1> DEFINE c == owner[f]
<1>4. /\ c \in Co /\ c # Nobody /\ slot[f][t] = c /\ wait[c] = <<f, t>>
      /\ \A u \in Type : u # t => slot[f][u] = Nobody
  BY <1>2, <1>3, NamesAssumption DEF OneSlot
<1> HIDE DEF c
<1>5. routines' = <<c>>
  <2>1. /\ NotNull(c) = <<c>> /\ NotNull(Nobody) = <<>>
        /\ <<c>> \o <<>> = <<c>> /\ <<>> \o <<c>> = <<c>>
    BY <1>4 DEF NotNull
  <2>2. CASE t = "READ"
    BY <1>1, <1>4, <2>1, <2>2 DEF Type
  <2>3. CASE t = "WRITE"
    BY <1>1, <1>4, <2>1, <2>3 DEF Type
  <2>4. QED BY <2>2, <2>3 DEF Type
<1>6. Len(routines') = 1 /\ routines'[1] = c /\ routines' \in Seq(Co)
  BY <1>4, <1>5
<1>7. LoopTypes'
  BY <1>1, <1>6 DEF LoopTypes
<1>8. \A d : Taken(d)' <=> d = c
  <2>1. turn' + 1 .. Len(routines') = {1}
    BY <1>1, <1>6
  <2>2. QED BY <1>6, <2>1 DEF Taken
<1>9. \A d \in Co : ~Taken(d)
  BY <1>1, <1>2, TakenIs DEF LoopTypes
<1>10. TakenWait'
  <2>1. <<f, t>> # <<>>
    OBVIOUS
  <2>2. QED BY <1>1, <1>4, <1>8, <2>1 DEF TakenWait
<1>11. /\ \A g \in Fd : g # f => /\ interest'[g] = interest[g] /\ mask'[g] = mask[g]
                                 /\ slot'[g] = slot[g]
       /\ interest'[f] = {} /\ mask'[f] = {} /\ slot'[f] = NoSlots
       /\ \A u \in Type : slot'[f][u] = Nobody
  BY <1>1, <1>2 DEF TableTypes, NoSlots
<1>12. TableTypes'
  BY <1>1, <1>2 DEF TableTypes, NoSlots
<1>13. NoEntry' /\ OneSlot' /\ TimersWait' /\ Watched'
  <2>1. NoEntry' /\ OneSlot'
    BY <1>2, <1>11 DEF NoEntry, OneSlot
  <2>2. TimersWait'
    BY <1>1, <1>2 DEF TimersWait
  <2>3. Watched'
    <3>1. ASSUME NEW g \in Fd, interest'[g] # {}
          PROVE  \E u \in Type :
                   /\ owner[g] \in Co /\ wait[owner[g]] = <<g, u>> /\ slot'[g][u] = owner[g]
                   /\ interest'[g] = {u} /\ mask'[g] = {u}
      <4>1. g # f /\ interest[g] # {}
        BY <1>11, <3>1
      <4>2. PICK u \in Type :
              /\ owner[g] \in Co /\ wait[owner[g]] = <<g, u>> /\ slot[g][u] = owner[g]
              /\ interest[g] = {u} /\ mask[g] = {u}
        BY <1>2, <4>1 DEF Watched
      <4>3. QED BY <1>11, <4>1, <4>2
    <3>2. QED BY <1>1, <3>1 DEF Watched
  <2>4. QED BY <2>1, <2>2, <2>3
<1>14. SlotsWait'
  <2>1. ASSUME NEW g \in Fd, NEW u \in Type, slot'[g][u] # Nobody
        PROVE  /\ wait'[slot'[g][u]] = <<g, u>>
               /\ ~ \E i \in turn' + 1 .. Len(routines') : routines'[i] = slot'[g][u]
    <3>1. g # f /\ slot'[g][u] = slot[g][u]
      BY <1>11, <2>1
    <3>2. wait[slot[g][u]] = <<g, u>>
      BY <1>2, <2>1, <3>1 DEF SlotsWait
    <3>3. slot[g][u] # c
      <4>1. <<g, u>> # <<f, t>>
        BY <3>1
      <4>2. QED BY <1>4, <3>2, <4>1
    <3>4. turn' + 1 .. Len(routines') = {1} /\ routines'[1] = c
      BY <1>1, <1>6
    <3>5. QED BY <1>1, <3>1, <3>2, <3>3, <3>4
  <2>2. QED BY <2>1 DEF SlotsWait, Taken
<1>15. Found'
  <2>1. ASSUME NEW d \in Co, NEW g \in Fd, NEW u \in Type, wait[d] = <<g, u>>, d # c
        PROVE  Stranded(g)' \/ (slot'[g][u] = d /\ u \in interest'[g])
    <3>1. Stranded(g) \/ (slot[g][u] = d /\ u \in interest[g])
      BY <1>2, <1>9, <2>1 DEF Found
    <3>2. g # f
      BY <1>1, <1>4, <2>1, <3>1, NamesAssumption DEF Stranded
    <3>3. QED BY <1>11, <3>1, <3>2 DEF Stranded
  <2>2. QED BY <1>1, <1>8, <2>1 DEF Found
<1>16. QED BY <1>1, <1>7, <1>10, <1>11, <1>12, <1>13, <1>14, <1>15 DEF Table

\* The coroutine in the array has its turn.  It is in no entry, so that nothing is watched
\* for it any more; its timers are closed.
LEMMA TableResumes ==
  ASSUME LoopInv, ResumeNext
  PROVE  /\ Table' /\ LoopTypes' /\ TakenWait' /\ UNCHANGED <<mask, interest, holder>>
         /\ \E c \in Co : /\ ~InSeq(c, stack) /\ life[c] = "running"
                          /\ stack' = Append(stack, c)
                          /\ UNCHANGED <<life, context, pool>>
                          /\ wait' = [wait EXCEPT ![c] = <<>>]
                          /\ routines' = <<c>> /\ turn' = 1
         /\ Current = Main
<1>1. /\ Current = Main /\ loopAt = "resume" /\ turn < Len(routines) /\ turn' = turn + 1
      /\ UNCHANGED <<mask, slot, holder, loopAt, routines>>
  BY DEF ResumeNext
<1>2. /\ TableTypes /\ NoEntry /\ Watched /\ OneSlot /\ SlotsWait /\ TimersWait /\ Found
      /\ LoopTypes /\ TakenWait
  BY DEF LoopInv, Table
<1>3. /\ turn = 0 /\ Len(routines) = 1 /\ turn' = 1
      /\ routines[1] \in Co /\ routines = <<routines[1]>>
  <2>1. Len(routines) \in 0 .. 1 /\ turn \in 0 .. Len(routines) /\ routines \in Seq(Co)
    BY <1>2 DEF LoopTypes
  <2>2. turn = 0 /\ Len(routines) = 1
    <3>1. CASE Len(routines) = 0
      BY <1>1, <2>1, <3>1
    <3>2. CASE Len(routines) = 1
      BY <1>1, <2>1, <3>2
    <3>3. QED BY <2>1, <3>1, <3>2
  <2>3. QED BY <1>1, <2>1, <2>2
<1>4. PICK c \in Co : c = routines[1]
  BY <1>3
<1> DEFINE own == {f \in timers : owner[f] = c}
<1>5. /\ wait' = [wait EXCEPT ![c] = <<>>]
      /\ Resume(c)
      /\ owner' = [f \in Fd |-> IF f \in own THEN Nobody ELSE owner[f]]
      /\ timers' = timers \ own
      /\ ready' = {r \in ready : r[1] \notin own}
      /\ interest' = [f \in Fd |-> IF f \in own THEN {} ELSE interest[f]]
  BY <1>3, <1>4 DEF ResumeNext
<1>6. own \in SUBSET Fd /\ \A f \in own : owner[f] = c
  BY <1>2 DEF TableTypes
<1>7. \A f \in Fd : f \in timers /\ f \notin own => owner[f] # c
  OBVIOUS
<1> HIDE DEF own
<1>8. Taken(c) /\ \A d : Taken(d) => d = c
  BY <1>2, <1>3, <1>4, TakenIs
<1>9. \A d : ~Taken(d)'
  <2>1. turn' + 1 .. Len(routines') = {}
    BY <1>1, <1>3
  <2>2. QED BY <2>1 DEF Taken
<1>10. c # Nobody /\ \A g \in Fd, u \in Type : slot[g][u] # c
  BY <1>2, <1>8, NamesAssumption DEF SlotsWait
<1>11. ASSUME NEW f \in own PROVE interest[f] = {}
  BY <1>2, <1>6, <1>10 DEF Watched
<1>12. interest' = interest
  BY <1>2, <1>5, <1>11 DEF TableTypes
<1>13. /\ \A d \in Co : d # c => wait'[d] = wait[d]
       /\ wait'[c] = <<>>
       /\ \A g \in Fd : g \notin own => owner'[g] = owner[g]
  BY <1>2, <1>5 DEF TableTypes
<1>14. TableTypes' /\ NoEntry' /\ OneSlot'
  <2>1. wait' \in [Co -> {<<>>} \cup (Fd \X Type)] /\ owner' \in [Fd -> Co \cup {Nobody}]
    BY <1>2, <1>5 DEF TableTypes
  <2>2. timers' \subseteq Fd /\ ready' \subseteq Fd \X Type
    BY <1>2, <1>5 DEF TableTypes
  <2>3. QED BY <1>1, <1>2, <1>12, <2>1, <2>2 DEF TableTypes, NoEntry, OneSlot
<1>15. Watched'
  <2>1. ASSUME NEW g \in Fd, interest[g] # {}
        PROVE  \E u \in Type :
                 /\ owner'[g] \in Co /\ wait'[owner'[g]] = <<g, u>> /\ slot[g][u] = owner'[g]
                 /\ interest[g] = {u} /\ mask[g] = {u}
    <3>1. PICK u \in Type :
            /\ owner[g] \in Co /\ wait[owner[g]] = <<g, u>> /\ slot[g][u] = owner[g]
            /\ interest[g] = {u} /\ mask[g] = {u}
      BY <1>2, <2>1 DEF Watched
    <3>2. owner[g] # c /\ g \notin own
      BY <1>6, <1>10, <3>1
    <3>3. QED BY <1>13, <3>1, <3>2
  <2>2. QED BY <1>1, <1>12, <2>1 DEF Watched
<1>16. SlotsWait'
  BY <1>1, <1>2, <1>9, <1>10, <1>13 DEF SlotsWait, TableTypes
<1>17. TimersWait'
  <2>1. ASSUME NEW g \in timers' PROVE owner'[g] \in Co /\ wait'[owner'[g]] = <<g, "READ">>
    <3>1. g \in timers /\ g \notin own /\ g \in Fd
      BY <1>2, <1>5, <2>1 DEF TableTypes
    <3>2. QED BY <1>2, <1>7, <1>13, <3>1 DEF TimersWait
  <2>2. QED BY <2>1 DEF TimersWait
<1>18. Found'
  <2>1. ASSUME NEW d \in Co, NEW g \in Fd, NEW u \in Type, wait'[d] = <<g, u>>
        PROVE  Stranded(g) \/ (slot[g][u] = d /\ u \in interest[g])
    <3>1. d # c
      <4>1. <<g, u>> # <<>>
        OBVIOUS
      <4>2. QED BY <1>13, <2>1, <4>1
    <3>2. QED BY <1>2, <1>8, <1>13, <2>1, <3>1 DEF Found
  <2>2. QED BY <1>1, <1>12, <2>1 DEF Found, Stranded
<1>19. LoopTypes' /\ TakenWait'
  BY <1>1, <1>2, <1>3, <1>9 DEF LoopTypes, TakenWait
<1>20. ~InSeq(c, stack) /\ life[c] = "running"
  BY <1>2, <1>8 DEF TakenWait, LoopInv, Running, Suspended
<1>21. stack' = Append(stack, c) /\ UNCHANGED <<life, context, pool>>
  BY <1>5, <1>20 DEF Resume
<1>22. Table'
  BY <1>14, <1>15, <1>16, <1>17, <1>18 DEF Table
<1>23. QED BY <1>1, <1>3, <1>4, <1>5, <1>12, <1>19, <1>20, <1>21, <1>22

-----------------------------------------------------------------------------
(* The stack.                                                               *)

\* A coroutine comes on top: started by the one that runs, or resumed by the loop.
LEMMA RunningPushes ==
  ASSUME Running, NEW c \in Co, ~InSeq(c, stack), stack' = Append(stack, c),
         life' = [life EXCEPT ![c] = "running"],
         holder' \in [Co -> Co \cup {Main, Nobody}],
         \A d \in Co : d # c => holder'[d] = holder[d] /\ wait'[d] = wait[d],
         wait'[c] = <<>>,
         \/ holder'[c] = Current /\ UNCHANGED <<routines, turn>>
         \/ Current = Main /\ routines' = <<c>> /\ turn' = 1
  PROVE  Running'
<1>1. StackTypes /\ Distinct /\ OnStackRuns /\ Supported /\ Suspended
  BY DEF Running
<1>2. \A i \in 1 .. Len(stack) : stack[i] # c
  BY DEF InSeq
<1>3. /\ StackTypes' /\ Distinct' /\ OnStackRuns' /\ Len(stack') = Len(stack) + 1
      /\ \A i \in 1 .. Len(stack) : stack'[i] = stack[i]
      /\ stack'[Len(stack) + 1] = c
  BY <1>1, <1>2, PushStack
<1>4. Len(stack) \in Nat \ {0} /\ Current = stack[Len(stack)]
  BY <1>1, CurrentFacts
<1>5. Supported'
  <2>1. ASSUME NEW i \in 2 .. Len(stack')
        PROVE  \/ holder'[stack'[i]] = stack'[i - 1]
               \/ i = 2 /\ turn' = 1 /\ routines' = <<stack'[i]>>
    <3>1. CASE i = Len(stack) + 1
      <4>1. stack'[i] = c /\ i - 1 = Len(stack) /\ i - 1 \in 1 .. Len(stack)
        BY <1>3, <1>4, <3>1
      <4>2. stack'[i - 1] = Current
        BY <1>3, <1>4, <4>1
      <4>3. CASE holder'[c] = Current
        BY <4>1, <4>2, <4>3
      <4>4. CASE Current = Main /\ routines' = <<c>> /\ turn' = 1
        <5>1. Len(stack) = 1
          BY <1>1, <4>4, MainFacts
        <5>2. QED BY <3>1, <4>1, <4>4, <5>1
      <4>5. QED BY <4>3, <4>4
    <3>2. CASE i # Len(stack) + 1
      <4>1. i \in 2 .. Len(stack) /\ i \in 1 .. Len(stack) /\ i - 1 \in 1 .. Len(stack)
        BY <1>3, <1>4, <3>2
      <4>2. stack'[i] = stack[i] /\ stack'[i - 1] = stack[i - 1] /\ stack[i] # c
        BY <1>2, <1>3, <4>1
      <4>3. stack[i] \in Co
        BY <1>1, <4>1, CurrentFacts
      <4>4. CASE UNCHANGED <<routines, turn>>
        BY <1>1, <4>1, <4>2, <4>3, <4>4 DEF Supported
      <4>5. CASE Current = Main
        <5>1. Len(stack) = 1
          BY <1>1, <4>5, MainFacts
        <5>2. QED BY <4>1, <5>1
      <4>6. QED BY <4>4, <4>5
    <3>3. QED BY <3>1, <3>2
  <2>2. QED BY <2>1 DEF Supported
<1>6. Suspended'
  <2>1. ASSUME NEW d \in Co, wait'[d] # <<>> PROVE ~InSeq(d, stack') /\ life'[d] = "running"
    <3>1. d # c /\ wait[d] # <<>>
      BY <2>1
    <3>2. ~InSeq(d, stack) /\ life[d] = "running"
      BY <1>1, <3>1 DEF Suspended
    <3>3. \A i \in 1 .. Len(stack') : i \in 1 .. Len(stack) \/ i = Len(stack) + 1
      BY <1>3, <1>4
    <3>4. ~InSeq(d, stack')
      BY <1>3, <3>1, <3>2, <3>3 DEF InSeq
    <3>5. QED BY <1>1, <3>1, <3>2, <3>4 DEF StackTypes
  <2>2. QED BY <2>1 DEF Suspended
<1>7. QED BY <1>3, <1>5, <1>6 DEF Running

\* The one on top goes, to wait or for good.
LEMMA RunningPops ==
  ASSUME Running, Current # Main, stack' = Front(stack),
         life' \in [Co -> {"none", "running", "exit"}],
         holder' \in [Co -> Co \cup {Main, Nobody}],
         \A d \in Co : d # Current => life'[d] = life[d] /\ wait'[d] = wait[d],
         \A d \in Co : holder'[d] = holder[d] \/ holder[d] = Current,
         wait'[Current] # <<>> => life'[Current] = "running",
         UNCHANGED <<routines, turn>>
  PROVE  Running'
<1>1. StackTypes /\ Distinct /\ OnStackRuns /\ Supported /\ Suspended
  BY DEF Running
<1>2. /\ StackTypes' /\ Distinct' /\ OnStackRuns'
      /\ Len(stack) > 1 /\ Len(stack') = Len(stack) - 1
      /\ \A i \in 1 .. Len(stack') : stack'[i] = stack[i] /\ stack[i] # Current
  BY <1>1, PopStack
<1>3. Len(stack) \in Nat
  BY <1>1, CurrentFacts
<1>4. Supported'
  <2>1. ASSUME NEW i \in 2 .. Len(stack')
        PROVE  \/ holder'[stack'[i]] = stack'[i - 1]
               \/ i = 2 /\ turn' = 1 /\ routines' = <<stack'[i]>>
    <3>1. i \in 2 .. Len(stack) /\ i \in 1 .. Len(stack') /\ i - 1 \in 1 .. Len(stack')
      BY <1>2, <1>3
    <3>2. /\ stack'[i] = stack[i] /\ stack'[i - 1] = stack[i - 1] /\ stack[i] \in Co
          /\ stack[i - 1] # Current
      BY <1>1, <1>2, <3>1, CurrentFacts
    <3>3. QED BY <1>1, <3>1, <3>2 DEF Supported
  <2>2. QED BY <2>1 DEF Supported
<1>5. Suspended'
  <2>1. ASSUME NEW d \in Co, wait'[d] # <<>> PROVE ~InSeq(d, stack') /\ life'[d] = "running"
    <3>1. CASE d = Current
      BY <1>2, <2>1, <3>1 DEF InSeq
    <3>2. CASE d # Current
      <4>1. ~InSeq(d, stack) /\ life[d] = "running"
        BY <1>1, <2>1, <3>2 DEF Suspended
      <4>2. \A i \in 1 .. Len(stack') : i \in 1 .. Len(stack)
        BY <1>2, <1>3
      <4>3. QED BY <1>2, <3>2, <4>1, <4>2 DEF InSeq
    <3>3. QED BY <3>1, <3>2
  <2>2. QED BY <2>1 DEF Suspended
<1>6. QED BY <1>2, <1>4, <1>5 DEF Running

\* Nobody comes or goes; the array may change while the main coroutine runs, and the one
\* that runs may drop a pointer.
LEMMA RunningSame ==
  ASSUME Running, UNCHANGED <<stack, life, wait>>,
         holder' \in [Co -> Co \cup {Main, Nobody}],
         \A d \in Co : holder'[d] = holder[d] \/ holder[d] = Current,
         UNCHANGED <<routines, turn>> \/ Current = Main
  PROVE  Running'
<1>1. StackTypes /\ Distinct /\ OnStackRuns /\ Supported /\ Suspended
  BY DEF Running
<1>2. StackTypes' /\ Distinct' /\ OnStackRuns' /\ Suspended'
  BY <1>1 DEF StackTypes, Distinct, OnStackRuns, Suspended
<1>3. Len(stack) \in Nat \ {0} /\ Current = stack[Len(stack)]
  BY <1>1, CurrentFacts
<1>4. Supported'
  <2>1. CASE Current = Main
    <3>1. Len(stack) = 1
      BY <1>1, <2>1, MainFacts
    <3>2. 2 .. Len(stack) = {}
      BY <3>1
    <3>3. QED BY <3>2 DEF Supported
  <2>2. CASE UNCHANGED <<routines, turn>>
    <3>1. ASSUME NEW i \in 2 .. Len(stack)
          PROVE  \/ holder'[stack[i]] = stack[i - 1]
                 \/ i = 2 /\ turn = 1 /\ routines = <<stack[i]>>
      <4>1. stack[i] \in Co /\ i - 1 \in 1 .. Len(stack) /\ i - 1 # Len(stack)
        BY <1>1, <1>3, CurrentFacts
      <4>2. Len(stack) \in 1 .. Len(stack)
        BY <1>3
      <4>3. stack[i - 1] # Current
        BY <1>1, <1>3, <4>1, <4>2 DEF Distinct
      <4>4. QED BY <1>1, <4>1, <4>3 DEF Supported
    <3>2. QED BY <2>2, <3>1 DEF Supported
  <2>3. QED BY <2>1, <2>2
<1>5. QED BY <1>2, <1>4 DEF Running

-----------------------------------------------------------------------------
(* Every action keeps the invariant.                                        *)

LEMMA SameCounts ==
  ASSUME ContextTypes, Counted, UNCHANGED <<life, context, pool>>
  PROVE  ContextTypes' /\ Counted'
BY DEF ContextTypes, Counted, Used, Begun

\* The array stays, and who is taken keeps waiting.
LEMMA SameArray ==
  ASSUME LoopTypes, TakenWait, UNCHANGED <<loopAt, routines, turn>>,
         \A d \in Co : Taken(d) => wait'[d] = wait[d]
  PROVE  LoopTypes' /\ TakenWait'
BY DEF LoopTypes, TakenWait, Taken

\* What stays when the one that runs only deals with descriptors.
LEMMA OnlyDescriptors ==
  ASSUME LoopInv, Table', UNCHANGED <<coVars, holder, wait, loopAt, routines, turn>>
  PROVE  LoopInv'
<1>1. UNCHANGED <<stack, life, context, pool>> /\ holder \in [Co -> Co \cup {Main, Nobody}]
  BY DEF coVars, LoopInv, Running, StackTypes
<1>2. Running' /\ LoopTypes' /\ TakenWait' /\ ContextTypes' /\ Counted'
  BY <1>1, RunningSame, SameArray, SameCounts DEF LoopInv
<1>3. QED BY <1>2 DEF LoopInv

LEMMA SpawnKeeps ==
  ASSUME LoopInv, NEW c \in Co \cup {Main}, NEW d \in Co, Spawn(c, d)
  PROVE  LoopInv'
<1>1. /\ Current = c /\ life[d] = "none" /\ Start(d, AliveOnes)
      /\ life' = [life EXCEPT ![d] = "running"] /\ stack' = Append(stack, d)
      /\ holder' = [holder EXCEPT ![d] = c]
      /\ UNCHANGED <<owner, timers, ready, interest, mask, slot, loopAt, routines, turn, wait>>
  BY DEF Spawn, Start, Runs
<1>2. /\ StackTypes /\ Suspended /\ OnStackRuns /\ Running /\ Table /\ ContextTypes /\ Counted
      /\ LoopTypes /\ TakenWait /\ ready \subseteq Fd \X Type
  BY DEF LoopInv, Running, Table, TableTypes
<1>3. Table'
  BY <1>1, <1>2, TableSame DEF Taken
<1>4. LoopTypes' /\ TakenWait'
  BY <1>1, <1>2, SameArray
<1>5. ~InSeq(d, stack) /\ wait[d] = <<>>
  BY <1>1, <1>2 DEF InSeq, OnStackRuns, Suspended
<1>6. /\ holder' \in [Co -> Co \cup {Main, Nobody}] /\ holder'[d] = c
      /\ \A e \in Co : e # d => holder'[e] = holder[e]
  BY <1>1, <1>2 DEF StackTypes
<1>7. Running'
  BY <1>1, <1>2, <1>5, <1>6, RunningPushes
<1>8. ContextTypes' /\ Counted'
  BY <1>1, <1>2, StartContexts DEF StackTypes, AliveOnes
<1>9. QED BY <1>3, <1>4, <1>7, <1>8 DEF LoopInv

LEMMA ReleaseKeeps ==
  ASSUME LoopInv, NEW c \in Co \cup {Main}, NEW d \in Co, Release(c, d)
  PROVE  LoopInv'
<1>1. /\ Current = c /\ holder[d] = c /\ holder' = [holder EXCEPT ![d] = Nobody]
      /\ UNCHANGED <<stack, life, context, pool, owner, timers, ready, interest, mask, slot,
                     loopAt, routines, turn, wait>>
  BY DEF Release, Runs, coVars
<1>2. /\ StackTypes /\ Running /\ Table /\ ContextTypes /\ Counted /\ LoopTypes /\ TakenWait
      /\ ready \subseteq Fd \X Type
  BY DEF LoopInv, Running, Table, TableTypes
<1>3. /\ holder' \in [Co -> Co \cup {Main, Nobody}]
      /\ \A e \in Co : holder'[e] = holder[e] \/ holder[e] = Current
  BY <1>1, <1>2 DEF StackTypes
<1>4. Running'
  BY <1>1, <1>2, <1>3, RunningSame
<1>5. Table'
  BY <1>1, <1>2, TableSame DEF Taken
<1>6. LoopTypes' /\ TakenWait' /\ ContextTypes' /\ Counted'
  BY <1>1, <1>2, SameArray, SameCounts
<1>7. QED BY <1>4, <1>5, <1>6 DEF LoopInv

LEMMA CloseKeeps ==
  ASSUME LoopInv, NEW c \in Co, NEW f \in Fd, CloseFd(c, f)
  PROVE  LoopInv'
<1>1. /\ owner' = [owner EXCEPT ![f] = Nobody] /\ interest' = [interest EXCEPT ![f] = {}]
      /\ ready' \subseteq ready /\ {f} \cap timers = {}
      /\ UNCHANGED <<coVars, holder, timers, mask, slot, wait, loopAt, routines, turn>>
  BY DEF CloseFd
<1>2. Table /\ TableTypes
  BY DEF LoopInv, Table
<1>3. PICK F \in SUBSET Fd : F = {f}
  OBVIOUS
<1>4. Table'
  <2>1. /\ owner' = [g \in Fd |-> IF g \in F THEN Nobody ELSE owner[g]]
        /\ interest' = [g \in Fd |-> IF g \in F THEN {} ELSE interest[g]]
    BY <1>1, <1>2, <1>3 DEF TableTypes
  <2>2. F \cap timers = {} /\ UNCHANGED <<timers, mask, slot, wait, routines, turn>>
    BY <1>1, <1>3
  <2>3. QED BY <1>1, <1>2, <2>1, <2>2, TableCloses
<1>5. QED BY <1>1, <1>4, OnlyDescriptors

LEMMA WaitKeeps ==
  ASSUME LoopInv, NEW c \in Co, NEW f \in Fd, NEW t \in Type,
         WaitFor(c, f, t) \/ (t = "READ" /\ WaitForTimer(c, f))
  PROVE  LoopInv' /\ UNCHANGED holder /\ Current = c /\ stack' = Front(stack)
<1>1. /\ Runs(c) /\ wait' = [wait EXCEPT ![c] = <<f, t>>] /\ stack' = Front(stack)
      /\ UNCHANGED <<life, context, pool, ready, holder, loopAt, routines, turn>>
  BY DEF WaitFor, WaitForTimer, Yield
<1>2. /\ StackTypes /\ Running /\ Table /\ TableTypes /\ NoEntry /\ ContextTypes /\ Counted
      /\ LoopTypes /\ TakenWait
  BY DEF LoopInv, Running, Table
<1>3. /\ Current = c /\ Current # Main /\ wait[c] = <<>> /\ life[c] = "running" /\ ~Taken(c)
      /\ \A g \in Fd : owner[g] = c \/ owner[g] = Nobody => interest[g] = {}
      /\ \A g \in timers : owner[g] # c /\ owner[g] # Nobody
  BY <1>1, RunningFacts
<1>4. Table'
  <2>1. CASE WaitFor(c, f, t)
    <3>1. /\ owner[f] \in {c, Nobody} /\ UNCHANGED <<owner, timers>>
          /\ mask' = [mask EXCEPT ![f] = @ \cup {t}]
          /\ slot' = IF mask[f] = {} THEN [slot EXCEPT ![f][t] = c] ELSE slot
          /\ interest' = IF IsOpen(f) /\ (mask[f] = {} <=> interest[f] = {})
                           THEN [interest EXCEPT ![f] = mask[f] \cup {t}] ELSE interest
      BY <2>1 DEF WaitFor, AddEvent, Usable, IsOpen
    <3>2. interest[f] = {} /\ f \notin timers
      BY <1>3, <3>1
    <3>3. interest' = IF owner[f] = c /\ mask[f] = {} THEN [interest EXCEPT ![f] = {t}]
                      ELSE interest
      <4>1. IsOpen(f) <=> owner[f] = c
        BY <3>1, NamesAssumption DEF IsOpen
      <4>2. CASE mask[f] = {}
        <5>1. mask[f] \cup {t} = {t}
          BY <4>2
        <5>2. QED BY <3>1, <3>2, <4>1, <4>2, <5>1
      <4>3. CASE mask[f] # {}
        BY <3>1, <3>2, <4>3
      <4>4. QED BY <4>2, <4>3
    <3>4. owner' = [owner EXCEPT ![f] = owner'[f]]
      BY <1>2, <3>1 DEF TableTypes
    <3>5. QED BY <1>1, <1>3, <3>1, <3>2, <3>3, <3>4, TableWaits
  <2>2. CASE t = "READ" /\ WaitForTimer(c, f)
    <3>1. /\ owner[f] = Nobody /\ owner' = [owner EXCEPT ![f] = c] /\ timers' = timers \cup {f}
          /\ IF t \in mask[f]
               THEN UNCHANGED <<mask, slot, interest>>
               ELSE /\ mask' = [mask EXCEPT ![f] = @ \cup {t}]
                    /\ slot' = IF mask[f] = {} THEN [slot EXCEPT ![f][t] = c] ELSE slot
                    /\ interest' = IF mask[f] = {} THEN [interest EXCEPT ![f] = {t}]
                                   ELSE interest
      BY <2>2 DEF WaitForTimer, IsOpen
    <3>2. interest[f] = {} /\ f \notin timers
      BY <1>3, <3>1
    <3>3. owner'[f] = c
      BY <1>2, <3>1 DEF TableTypes
    <3>4. /\ mask' = [mask EXCEPT ![f] = @ \cup {t}]
          /\ slot' = IF mask[f] = {} THEN [slot EXCEPT ![f][t] = c] ELSE slot
          /\ interest' = IF owner'[f] = c /\ mask[f] = {} THEN [interest EXCEPT ![f] = {t}]
                         ELSE interest
      <4>1. CASE t \in mask[f]
        <5>1. mask[f] \cup {t} = mask[f] /\ mask[f] # {}
          BY <4>1
        <5>2. mask = [mask EXCEPT ![f] = @ \cup {t}]
          BY <1>2, <5>1 DEF TableTypes
        <5>3. QED BY <3>1, <4>1, <5>1, <5>2
      <4>2. CASE t \notin mask[f]
        BY <3>1, <3>3, <4>2
      <4>3. QED BY <4>1, <4>2
    <3>5. owner' = [owner EXCEPT ![f] = owner'[f]]
      BY <3>1, <3>3
    <3>6. QED BY <1>1, <1>3, <2>2, <3>1, <3>2, <3>3, <3>4, <3>5, TableWaits
  <2>3. QED BY <2>1, <2>2
<1>5. /\ \A d \in Co : d # c => wait'[d] = wait[d]
      /\ life' \in [Co -> {"none", "running", "exit"}]
      /\ holder' \in [Co -> Co \cup {Main, Nobody}]
  BY <1>1, <1>2 DEF StackTypes
<1>6. Running'
  BY <1>1, <1>2, <1>3, <1>5, RunningPops
<1>7. LoopTypes' /\ TakenWait'
  BY <1>1, <1>2, <1>3, <1>5, SameArray
<1>8. ContextTypes' /\ Counted'
  BY <1>1, <1>2, SameCounts
<1>9. QED BY <1>1, <1>3, <1>4, <1>6, <1>7, <1>8 DEF LoopInv

LEMMA EndKeeps ==
  ASSUME LoopInv, NEW c \in Co, Ends(c)
  PROVE  /\ LoopInv' /\ Current = c /\ stack' = Front(stack)
         /\ UNCHANGED <<mask, interest, routines>>
<1>1. /\ Runs(c) /\ Finish
      /\ owner' = [f \in Fd |-> IF owner[f] = c THEN Nobody ELSE owner[f]]
      /\ ready' \subseteq ready
      /\ interest' = [f \in Fd |-> IF owner[f] = c THEN {} ELSE interest[f]]
      /\ holder' = [d \in Co |-> IF holder[d] = c THEN Nobody ELSE holder[d]]
      /\ stack' = Front(stack)
      /\ UNCHANGED <<timers, mask, slot, loopAt, routines, turn, wait>>
  BY DEF Ends, ReleaseAll, Finish
<1>2. /\ StackTypes /\ Running /\ Table /\ TableTypes /\ ContextTypes /\ Counted
      /\ LoopTypes /\ TakenWait
  BY DEF LoopInv, Running, Table
<1>3. /\ Current = c /\ Current # Main /\ wait[c] = <<>> /\ life[c] = "running" /\ ~Taken(c)
      /\ \A g \in Fd : owner[g] = c \/ owner[g] = Nobody => interest[g] = {}
      /\ \A g \in timers : owner[g] # c /\ owner[g] # Nobody
  BY <1>1, RunningFacts
<1>4. Table'
  <2>1. PICK F \in SUBSET Fd : \A f \in Fd : f \in F <=> owner[f] = c
    <3>1. {f \in Fd : owner[f] = c} \in SUBSET Fd
      OBVIOUS
    <3>2. QED BY <3>1
  <2>2. F \cap timers = {}
    BY <1>3, <2>1
  <2>3. /\ owner' = [f \in Fd |-> IF f \in F THEN Nobody ELSE owner[f]]
        /\ interest' = [f \in Fd |-> IF f \in F THEN {} ELSE interest[f]]
    BY <1>1, <2>1
  <2>4. QED BY <1>1, <1>2, <2>2, <2>3, TableCloses
<1>5. interest' = interest
  BY <1>1, <1>2, <1>3 DEF TableTypes
<1>6. life' = [life EXCEPT ![c] = "exit"]
  BY <1>1, <1>3 DEF Finish
<1>7. /\ life' \in [Co -> {"none", "running", "exit"}]
      /\ \A d \in Co : d # c => life'[d] = life[d]
  BY <1>2, <1>6 DEF StackTypes
<1>8. /\ holder' \in [Co -> Co \cup {Main, Nobody}]
      /\ \A d \in Co : holder'[d] = holder[d] \/ holder[d] = c
  BY <1>1, <1>2 DEF StackTypes
<1>9. Running'
  BY <1>1, <1>2, <1>3, <1>7, <1>8, RunningPops
<1>10. ContextTypes' /\ Counted'
  BY <1>1, <1>2, <1>3, FinishContexts DEF StackTypes
<1>11. LoopTypes' /\ TakenWait'
  BY <1>1, <1>2, SameArray
<1>12. QED BY <1>1, <1>3, <1>4, <1>5, <1>9, <1>10, <1>11 DEF LoopInv

LEMMA DispatchKeeps ==
  ASSUME LoopInv, NEW f \in Fd, Dispatch(f)
  PROVE  LoopInv'
<1>1. /\ Table' /\ LoopTypes' /\ TakenWait'
      /\ Current = Main /\ UNCHANGED <<stack, life, context, pool, holder, wait>>
  BY TableDispatches
<1>2. holder \in [Co -> Co \cup {Main, Nobody}] /\ Running /\ ContextTypes /\ Counted
  BY DEF LoopInv, Running, StackTypes
<1>3. QED BY <1>1, <1>2, RunningSame, SameCounts DEF LoopInv

LEMMA ResumeKeeps ==
  ASSUME LoopInv, ResumeNext
  PROVE  LoopInv'
<1>1. Table' /\ LoopTypes' /\ TakenWait' /\ UNCHANGED holder /\ Current = Main
  BY TableResumes
<1>2. PICK c \in Co :
        /\ ~InSeq(c, stack) /\ life[c] = "running" /\ stack' = Append(stack, c)
        /\ UNCHANGED <<life, context, pool>>
        /\ wait' = [wait EXCEPT ![c] = <<>>]
        /\ routines' = <<c>> /\ turn' = 1
  BY TableResumes
<1>3. StackTypes /\ Running /\ ContextTypes /\ Counted /\ TableTypes
  BY DEF LoopInv, Running, Table
<1>4. /\ life' = [life EXCEPT ![c] = "running"] /\ holder' \in [Co -> Co \cup {Main, Nobody}]
      /\ wait'[c] = <<>> /\ \A d \in Co : d # c => wait'[d] = wait[d]
  BY <1>1, <1>2, <1>3 DEF StackTypes, TableTypes
<1>5. Running'
  BY <1>1, <1>2, <1>3, <1>4, RunningPushes
<1>6. QED BY <1>1, <1>2, <1>3, <1>5, SameCounts DEF LoopInv

\* The array goes after everybody in it has had a turn.
LEMMA EndTurnKeeps ==
  ASSUME LoopInv, EndTurn
  PROVE  LoopInv'
<1>1. /\ Current = Main /\ turn = Len(routines)
      /\ loopAt' = "wait" /\ routines' = <<>> /\ turn' = 0
      /\ UNCHANGED <<stack, life, context, pool, owner, timers, ready, interest, mask, slot,
                     holder, wait>>
  BY DEF EndTurn, coVars
<1>2. /\ StackTypes /\ Running /\ Table /\ ready \subseteq Fd \X Type
      /\ ContextTypes /\ Counted /\ LoopTypes
  BY DEF LoopInv, Running, Table, TableTypes
<1>3. \A d : ~Taken(d)
  BY <1>1, <1>2, TakenIs
<1>4. \A d : ~Taken(d)'
  <2>1. Len(routines') = 0 /\ turn' + 1 .. Len(routines') = {}
    BY <1>1
  <2>2. QED BY <2>1 DEF Taken
<1>5. Table'
  BY <1>1, <1>2, <1>3, <1>4, TableSame
<1>6. Running'
  BY <1>1, <1>2, RunningSame DEF StackTypes
<1>7. LoopTypes' /\ TakenWait'
  BY <1>1, <1>4 DEF LoopTypes, TakenWait
<1>8. QED BY <1>1, <1>2, <1>5, <1>6, <1>7, SameCounts DEF LoopInv

LEMMA LoopStep == LoopInv /\ [Next]_vars => LoopInv'
<1> SUFFICES ASSUME LoopInv, [Next]_vars PROVE LoopInv'
  OBVIOUS
<1>0. /\ Table /\ TableTypes /\ Running /\ LoopTypes /\ TakenWait
  BY DEF LoopInv, Table
<1>1. ASSUME NEW c \in Co \cup {Main}, NEW d \in Co, Spawn(c, d) \/ Release(c, d) PROVE LoopInv'
  BY <1>1, SpawnKeeps, ReleaseKeeps
<1>2. ASSUME NEW c \in Co, NEW f \in Fd, Open(c, f) PROVE LoopInv'
  <2>1. Table'
    BY <1>2, TableOpens DEF Open
  <2>2. UNCHANGED <<coVars, holder, wait, loopAt, routines, turn>>
    BY <1>2 DEF Open, coVars
  <2>3. QED BY <2>1, <2>2, OnlyDescriptors
<1>3. ASSUME NEW c \in Co, NEW f \in Fd, CloseFd(c, f) PROVE LoopInv'
  BY <1>3, CloseKeeps
<1>4. ASSUME UNCHANGED <<coVars, owner, timers, interest, mask, slot, holder, loopAt, routines,
                         turn, wait>>,
             ready' \subseteq Fd \X Type
      PROVE  LoopInv'
  <2>1. Table'
    BY <1>0, <1>4, TableSame DEF Taken
  <2>2. QED BY <1>4, <2>1, OnlyDescriptors
<1>5. ASSUME NEW c \in Co, NEW f \in Fd, NEW t \in Type, Transfers(c, f, t)
      PROVE  LoopInv'
  <2>1. UNCHANGED <<coVars, owner, timers, interest, mask, slot, holder, loopAt, routines,
                    turn, wait>>
    BY <1>5 DEF Transfers, coVars
  <2>2. ready' \subseteq Fd \X Type
    BY <1>0, <1>5 DEF TableTypes, Transfers
  <2>3. QED BY <1>4, <2>1, <2>2
<1>6. ASSUME NEW c \in Co, Leaves(c) PROVE LoopInv'
  <2>1. "READ" \in Type
    BY DEF Type
  <2>2. QED BY <1>6, <2>1, WaitKeeps, EndKeeps DEF Leaves
<1>7. CASE StartLoop
  <2>1. /\ loopAt = "setup" /\ loopAt' = "wait"
        /\ UNCHANGED <<coVars, owner, timers, ready, interest, mask, slot, holder, routines,
                       turn, wait>>
    BY <1>7 DEF StartLoop, Runs
  <2>2. LoopTypes' /\ TakenWait'
    BY <1>0, <2>1 DEF LoopTypes, TakenWait, Taken
  <2>3. Table'
    BY <1>0, <2>1, TableSame DEF Taken, TableTypes
  <2>4. Running' /\ ContextTypes' /\ Counted'
    BY <2>1, RunningSame, SameCounts DEF LoopInv, Running, StackTypes, coVars
  <2>5. QED BY <2>2, <2>3, <2>4 DEF LoopInv
<1>8. ASSUME NEW f \in Fd, NEW t \in Type, BecomesReady(f, t) PROVE LoopInv'
  <2>1. UNCHANGED <<coVars, owner, timers, interest, mask, slot, holder, loopAt, routines,
                    turn, wait>>
    BY <1>8 DEF BecomesReady, coVars
  <2>2. ready' \subseteq Fd \X Type
    <3>1. ready \subseteq Fd \X Type /\ <<f, t>> \in Fd \X Type
      BY <1>0 DEF TableTypes
    <3>2. QED BY <1>8, <3>1 DEF BecomesReady
  <2>3. QED BY <1>4, <2>1, <2>2
<1>9. CASE UNCHANGED vars
  BY <1>0, <1>4, <1>9 DEF vars, TableTypes
<1>10. QED BY <1>1, <1>2, <1>3, <1>5, <1>6, <1>7, <1>8, <1>9, DispatchKeeps, ResumeKeeps,
             EndTurnKeeps DEF Next

-----------------------------------------------------------------------------
(* The theorems.                                                            *)

LEMMA LoopStart == Init => LoopInv
<1> SUFFICES ASSUME Init PROVE LoopInv
  OBVIOUS
<1>1. /\ InitCoroutines /\ loopAt = "setup" /\ routines = <<>> /\ turn = 0
      /\ owner = [f \in Fd |-> Nobody] /\ timers = {} /\ ready = {}
      /\ interest = [f \in Fd |-> {}] /\ mask = [f \in Fd |-> {}]
      /\ slot = [f \in Fd |-> NoSlots] /\ wait = [c \in Co |-> <<>>]
  BY DEF Init
<1>2. StackTypes /\ Distinct /\ OnStackRuns /\ ContextTypes /\ Counted
  BY <1>1, InitIInv DEF Base, Nesting
<1>3. LoopTypes
  <2>1. Len(routines) = 0
    BY <1>1
  <2>2. QED BY <1>1, <2>1 DEF LoopTypes
<1>4. \A d : ~Taken(d)
  BY <1>1, <1>3, TakenIs
<1>5. \A f, t : <<f, t>> # <<>>
  OBVIOUS
<1>6. TableTypes /\ NoEntry /\ Watched /\ OneSlot /\ TimersWait
  BY <1>1 DEF TableTypes, NoEntry, NoSlots, Watched, OneSlot, TimersWait
<1>7. SlotsWait /\ Found
  BY <1>1, <1>5 DEF SlotsWait, NoSlots, Found
<1>8. TakenWait /\ Suspended
  BY <1>1, <1>4 DEF TakenWait, Suspended
<1>9. Supported
  <2>1. Len(stack) = 1
    BY <1>1 DEF InitCoroutines
  <2>2. 2 .. Len(stack) = {}
    BY <2>1
  <2>3. QED BY <2>2 DEF Supported
<1>10. QED BY <1>2, <1>3, <1>6, <1>7, <1>8, <1>9 DEF LoopInv, Table, Running

\* The invariant holds throughout.
THEOREM LoopInvariance == Spec => []LoopInv
<1>1. QED BY LoopStart, LoopStep, PTL DEF Spec

\* The variables keep their types; in particular loop() has at most one coroutine to resume
\* for a descriptor, and there is always a context for a coroutine that starts
\* (posix.h:446-477, Coroutine.h:170-184).
THEOREM LoopTypeCorrect == Spec => []TypeOK
<1>1. LoopInv => TypeOK
  BY DEF LoopInv, Table, TableTypes, LoopTypes, Running, StackTypes, Distinct, ContextTypes,
         TypeOK, coTypeOK
<1>2. QED BY LoopInvariance, <1>1, PTL

\* A suspended coroutine is found by the loop, unless its number was closed under it or
\* under somebody before it, however many coroutines use and reuse the numbers
\* (posix.h:103-150, 459-465).
THEOREM WaitersAreFound == Spec => []NoLostWaiter
<1>1. LoopInv => NoLostWaiter
  <2>1. ASSUME LoopInv, NEW c \in Co, Waiting(c), ~Taken(c)
        PROVE  \/ Stranded(wait[c][1])
               \/ slot[wait[c][1]][wait[c][2]] = c /\ wait[c][2] \in interest[wait[c][1]]
    <3>1. PICK f \in Fd, t \in Type : wait[c] = <<f, t>>
      BY <2>1 DEF LoopInv, Table, TableTypes, Waiting
    <3>2. Stranded(f) \/ (slot[f][t] = c /\ t \in interest[f])
      BY <2>1, <3>1 DEF LoopInv, Table, Found
    <3>3. QED BY <3>1, <3>2
  <2>2. QED BY <2>1 DEF NoLostWaiter
<1>2. QED BY LoopInvariance, <1>1, PTL

\* Whoever the loop resumes is suspended in a wait, once for each wait, and an entry never
\* holds a coroutine that has gone on (posix.h:459-474).
THEOREM ResumedAreWaiting == Spec => []NoStrayResumption
<1>1. LoopInv => NoStrayResumption
  BY DEF LoopInv, Table, SlotsWait, TakenWait, Running, Suspended, NoStrayResumption, Waiting
<1>2. QED BY LoopInvariance, <1>1, PTL

\* Whenever a coroutine gives way, somebody else still has a pointer to it: the one that
\* started it, or the array of the loop that has resumed it (Coroutine.h:186-199).
THEOREM PoppedAreAlive == Spec => PoppedStaysAlive
<1>1. ASSUME LoopInv, [Next]_vars
      PROVE  [ Len(stack') < Len(stack) => \A c \in Co : c = Current => Alive(c)' ]_vars
  <2>1. /\ StackTypes /\ Distinct /\ Supported /\ Len(stack) \in Nat \ {0}
        /\ Current = stack[Len(stack)]
        /\ stack \in Seq(Co \cup {Main}) /\ holder \in [Co -> Co \cup {Main, Nobody}]
    BY <1>1, CurrentFacts DEF LoopInv, Running, StackTypes
  <2>2. ASSUME NEW c \in Co, c = Current
        PROVE  holder[c] \notin {Nobody, c} \/ routines = <<c>>
    <3>1. Len(stack) \in 2 .. Len(stack) /\ Len(stack) - 1 \in 1 .. Len(stack)
      BY <2>1, <2>2, NamesAssumption, CurrentFacts
    <3>2. holder[c] = stack[Len(stack) - 1] \/ routines = <<c>>
      BY <2>1, <2>2, <3>1 DEF Supported
    <3>3. stack[Len(stack) - 1] # stack[Len(stack)] /\ stack[Len(stack) - 1] \in Co \cup {Main}
      BY <2>1, <3>1 DEF Distinct
    <3>4. QED BY <2>1, <2>2, <3>2, <3>3, NamesAssumption
  <2>3. ASSUME NEW c \in Co, routines' = <<c>> PROVE Alive(c)'
    <3>1. Len(routines') = 1 /\ routines'[1] = c /\ 1 \in 1 .. 1
      BY <2>3
    <3>2. QED BY <3>1 DEF Alive, InSeq
  <2>4. ASSUME NEW d \in Co, Leaves(d), NEW c \in Co, c = Current PROVE Alive(c)'
    <3>1. "READ" \in Type
      BY DEF Type
    <3>2. /\ Current = d /\ UNCHANGED routines
          /\ \/ UNCHANGED holder
             \/ holder' = [e \in Co |-> IF holder[e] = d THEN Nobody ELSE holder[e]]
      <4>1. CASE Ends(d)
        BY <1>1, <4>1, EndKeeps DEF Ends, ReleaseAll
      <4>2. CASE ~Ends(d)
        BY <1>1, <2>4, <3>1, <4>2, WaitKeeps DEF Leaves, WaitFor, WaitForTimer
      <4>3. QED BY <4>1, <4>2
    <3>3. CASE routines = <<c>>
      BY <2>3, <3>2, <3>3
    <3>4. CASE holder[c] \notin {Nobody, c}
      <4>1. holder'[c] # Nobody
        BY <2>4, <3>2, <3>4
      <4>2. QED BY <4>1 DEF Alive
    <3>5. QED BY <2>2, <2>4, <3>3, <3>4
  <2>5. CASE \A d \in Co : ~Leaves(d)
    <3>1. UNCHANGED stack \/ \E d \in Co : stack' = Append(stack, d)
      <4>1. ASSUME NEW c \in Co \cup {Main}, NEW d \in Co, Spawn(c, d)
            PROVE  stack' = Append(stack, d)
        BY <4>1 DEF Spawn, Start
      <4>2. CASE ResumeNext
        BY <1>1, <4>2, TableResumes
      <4>3. QED BY <1>1, <2>5, <4>1, <4>2 DEF Next, vars, Release, Open, CloseFd, Transfers,
                   StartLoop, Dispatch, EndTurn, BecomesReady, coVars
    <3>2. ASSUME NEW d \in Co, stack' = Append(stack, d) PROVE Len(stack') = Len(stack) + 1
      <4>1. d \in Co \cup {Main}
        OBVIOUS
      <4>2. QED BY <2>1, <3>2, <4>1, Pushed
    <3>3. ~(Len(stack') < Len(stack))
      BY <2>1, <3>1, <3>2
    <3>4. QED BY <3>3
  <2>6. QED BY <2>4, <2>5
<1>2. QED BY LoopInvariance, <1>1, PTL DEF Spec, PoppedStaysAlive

\* As long as coroutines wait on open descriptors only, a number is stranded by nothing but
\* a close of another coroutine: not by the owner's close or end, a resumption or the next
\* use (posix.h:104-150, 456-474).
THEOREM StrandedByOthers == ASSUME ~UseClosed PROVE Spec => OnlyClosesStrand
<1>1. ASSUME LoopInv, [Next]_vars
      PROVE  [ \A f \in Fd : Stranded(f)' /\ ~Stranded(f) =>
                  IsOpen(f) /\ ~IsOpen(f)' /\ Current \in Co \ {owner[f]} ]_vars
  <2>1. Table /\ TableTypes /\ NoEntry
    BY <1>1 DEF LoopInv, Table
  <2>2. ASSUME UNCHANGED <<mask, interest>>, NEW f \in Fd PROVE Stranded(f)' => Stranded(f)
    BY <2>2 DEF Stranded
  <2>3. ASSUME NEW c \in Co, NEW g \in Fd, CloseFd(c, g),
               NEW f \in Fd, Stranded(f)', ~Stranded(f)
        PROVE  IsOpen(f) /\ ~IsOpen(f)' /\ Current \in Co \ {owner[f]}
    <3>1. /\ Runs(c) /\ IsOpen(g) /\ owner' = [owner EXCEPT ![g] = Nobody]
          /\ interest' = [interest EXCEPT ![g] = {}] /\ UNCHANGED mask
      BY <2>3 DEF CloseFd
    <3>2. f = g /\ interest[f] # {}
      BY <2>1, <2>3, <3>1 DEF Stranded, TableTypes
    <3>3. owner[f] # c /\ Current = c
      BY <1>1, <3>1, <3>2, RunningFacts
    <3>4. QED BY <2>1, <3>1, <3>2, <3>3 DEF IsOpen, TableTypes
  <2>4. ASSUME NEW c \in Co, NEW g \in Fd, NEW t \in Type,
               WaitFor(c, g, t) \/ WaitForTimer(c, g),
               NEW f \in Fd, Stranded(f)', ~Stranded(f)
        PROVE  FALSE
    <3>1. /\ Runs(c) /\ (owner[g] = c \/ owner[g] = Nobody)
          /\ \/ UNCHANGED <<mask, interest>>
             \/ \E u \in Type :
                  /\ mask' = [mask EXCEPT ![g] = @ \cup {u}]
                  /\ mask[g] = {} /\ interest[g] = {} =>
                         interest' = [interest EXCEPT ![g] = {u}]
                  /\ mask[g] # {} => interest' = interest \/ interest[g] # {}
      <4>1. CASE WaitFor(c, g, t)
        <5>1. /\ Runs(c) /\ owner[g] = c /\ IsOpen(g)
              /\ mask' = [mask EXCEPT ![g] = @ \cup {t}]
              /\ interest' = IF mask[g] = {} <=> interest[g] = {}
                             THEN [interest EXCEPT ![g] = mask[g] \cup {t}] ELSE interest
          BY <4>1, NamesAssumption DEF WaitFor, AddEvent, Usable, IsOpen
        <5>2. mask[g] = {} => mask[g] \cup {t} = {t}
          OBVIOUS
        <5>3. QED BY <5>1, <5>2
      <4>2. CASE WaitForTimer(c, g)
        <5>1. "READ" \in Type
          BY DEF Type
        <5>2. QED BY <4>2, <5>1 DEF WaitForTimer, IsOpen
      <4>3. QED BY <2>4, <4>1, <4>2
    <3>2. interest[g] = {}
      BY <1>1, <3>1, RunningFacts
    <3>3. CASE UNCHANGED <<mask, interest>>
      BY <2>2, <2>4, <3>3
    <3>4. ASSUME NEW u \in Type, mask' = [mask EXCEPT ![g] = @ \cup {u}],
                 mask[g] = {} => interest' = [interest EXCEPT ![g] = {u}],
                 mask[g] # {} => interest' = interest
          PROVE  FALSE
      <4>1. CASE f = g
        <5>1. mask[g] = {}
          BY <2>4, <3>2, <4>1 DEF Stranded
        <5>2. interest'[g] = {u}
          BY <2>1, <3>4, <5>1 DEF TableTypes
        <5>3. QED BY <2>4, <4>1, <5>2 DEF Stranded
      <4>2. CASE f # g
        <5>1. mask'[f] = mask[f] /\ interest'[f] = interest[f]
          BY <2>1, <3>4, <4>2 DEF TableTypes
        <5>2. QED BY <2>4, <5>1 DEF Stranded
      <4>3. QED BY <4>1, <4>2
    <3>5. QED BY <3>1, <3>2, <3>3, <3>4
  <2>5. ASSUME NEW g \in Fd, Dispatch(g), NEW f \in Fd PROVE Stranded(f)' => Stranded(f)
    <3>1. /\ mask'[g] = {}
          /\ f # g => interest'[f] = interest[f] /\ mask'[f] = mask[f]
      BY <1>1, <2>5, TableDispatches
    <3>2. QED BY <3>1 DEF Stranded
  <2>6. ASSUME ~ \E c \in Co, g \in Fd : CloseFd(c, g) \/ WaitForTimer(c, g),
               ~ \E c \in Co, g \in Fd, t \in Type : WaitFor(c, g, t),
               ~ \E g \in Fd : Dispatch(g)
        PROVE  UNCHANGED <<mask, interest>>
    <3>1. ASSUME NEW c \in Co, Ends(c) PROVE UNCHANGED <<mask, interest>>
      BY <1>1, <3>1, EndKeeps
    <3>2. CASE ResumeNext
      BY <1>1, <3>2, TableResumes
    <3>3. ASSUME NEW c \in Co, Leaves(c) PROVE UNCHANGED <<mask, interest>>
      BY <2>6, <3>1, <3>3 DEF Leaves
    <3>4. QED BY <1>1, <2>6, <3>2, <3>3 DEF Next, vars, Spawn, Release, Open, Transfers,
                 StartLoop, EndTurn, BecomesReady
  <2>7. ASSUME NEW f \in Fd, Stranded(f)', ~Stranded(f)
        PROVE  IsOpen(f) /\ ~IsOpen(f)' /\ Current \in Co \ {owner[f]}
    <3>1. CASE \E c \in Co, g \in Fd : CloseFd(c, g)
      BY <2>3, <2>7, <3>1
    <3>2. ~ \E c \in Co, g \in Fd, t \in Type : WaitFor(c, g, t)
      BY <2>4, <2>7
    <3>3. ~ \E c \in Co, g \in Fd : WaitForTimer(c, g)
      <4>1. "READ" \in Type
        BY DEF Type
      <4>2. QED BY <2>4, <2>7, <4>1
    <3>4. ~ \E g \in Fd : Dispatch(g)
      BY <2>5, <2>7
    <3>5. QED BY <2>2, <2>6, <2>7, <3>1, <3>2, <3>3, <3>4
  <2>8. QED BY <2>7
<1>2. QED BY LoopInvariance, <1>1, PTL DEF Spec, OnlyClosesStrand
=============================================================================
