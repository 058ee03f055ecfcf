-------------------------- MODULE CoroutineProofs --------------------------
(* What Coroutine promises for any number of coroutines and any pool, with  *)
(* pointers that stay with the creators and with pointers that are shared.  *)
EXTENDS CoroutineShared, FiniteSetTheorems, TLAPS

\* The part of the types that the nesting rests on.
StackTypes ==
    /\ stack \in Seq(Co \cup {Main}) /\ stack # <<>>
    /\ life \in [Co -> {"none", "running", "exit"}]
    /\ holder \in [Co -> Co \cup {Main, Nobody}]

\* The main coroutine is at the bottom, all others above it.
Bottom == stack[1] = Main /\ \A i \in 2 .. Len(stack) : stack[i] \in Co

\* The main coroutine is at the bottom and nowhere else, nobody is in the stack twice.
Distinct ==
    /\ stack[1] = Main
    /\ \A i, j \in 1 .. Len(stack) : i # j => stack[i] # stack[j]

\* What is in the stack has begun and not ended.
OnStackRuns == \A i \in 1 .. Len(stack) : stack[i] \in Co => life[stack[i]] = "running"

\* A coroutine in the stack stands right above the one that has a pointer to it: only that
\* one could resume or release it, and it is not the one that runs.
AboveHolder ==
    \A i \in 2 .. Len(stack) : holder[stack[i]] = stack[i - 1]

\* A pointer exists only to what has been created.
HeldHasBegun == \A d \in Co : holder[d] # Nobody => life[d] # "none"

Nesting == StackTypes /\ Distinct /\ OnStackRuns /\ AboveHolder /\ HeldHasBegun

ContextTypes ==
    /\ context \in [Co -> Contexts \cup {Nobody}]
    /\ pool \in Seq(Contexts) /\ Len(pool) <= PoolSize
    /\ \A c \in Co : life[c] = "running" => context[c] # Nobody

\* No more contexts have been allocated than coroutines have been started, so that one is
\* left for the next.
Begun == {c \in Co : life[c] # "none"}
Used  == ({context[c] : c \in Co} \cup {pool[i] : i \in 1 .. Len(pool)}) \ {Nobody}
Counted == Cardinality(Used) <= Cardinality(Begun)

\* What holds also when pointers are shared.
Base == StackTypes /\ Bottom /\ ContextTypes /\ Counted /\ ContextsApart

\* Nesting lasts until a pointer is handed on.
IInv == Base /\ (~handed => Nesting)

\* A step of coroutines whose pointers may be shared, on a stack of any depth.
Step == coNext \/ \E d \in Co, e \in Co \cup {Main} : HandOver(d, e)

-----------------------------------------------------------------------------
(* Sequences: one more element, and one less.                               *)

LEMMA Pushed ==
  ASSUME NEW S, NEW s \in Seq(S), NEW e \in S
  PROVE  /\ Append(s, e) \in Seq(S) /\ Append(s, e) # <<>>
         /\ Len(Append(s, e)) = Len(s) + 1
         /\ \A i \in 1 .. Len(s) : Append(s, e)[i] = s[i]
         /\ Append(s, e)[Len(s) + 1] = e
  OBVIOUS

LEMMA Popped ==
  ASSUME NEW S, NEW s \in Seq(S), Len(s) > 1
  PROVE  /\ Front(s) \in Seq(S) /\ Front(s) # <<>>
         /\ Len(Front(s)) = Len(s) - 1
         /\ \A i \in 1 .. Len(Front(s)) : Front(s)[i] = s[i]
<1>1. Len(s) \in Nat /\ 1 <= Len(s) - 1 /\ Len(s) - 1 <= Len(s)
  OBVIOUS
<1>2. /\ Front(s) = SubSeq(s, 1, Len(s) - 1)
      /\ Len(Front(s)) = Len(s) - 1
      /\ Front(s) \in Seq(S)
  BY <1>1 DEF Front
<1>3. \A i \in 1 .. Len(Front(s)) : Front(s)[i] = s[i]
  BY <1>1, <1>2
<1>4. Front(s) # <<>>
  <2>1. Len(Front(s)) # 0 /\ Len(<<>>) = 0
    BY <1>1, <1>2
  <2>2. QED BY <2>1
<1>5. QED BY <1>2, <1>3, <1>4

\* The main coroutine stands for the thread and is none of those that are created.
LEMMA BottomFacts ==
  ASSUME StackTypes, Bottom
  PROVE  /\ Len(stack) \in Nat \ {0}
         /\ Current = stack[Len(stack)]
         /\ Current # Main => Len(stack) > 1 /\ Current \in Co
         /\ Current \in Co \cup {Main}
<1>1. Len(stack) \in Nat \ {0}
  BY DEF StackTypes
<1>2. Current = stack[Len(stack)] /\ Current \in Co \cup {Main}
  BY <1>1 DEF Current, Last, StackTypes
<1>3. ASSUME Current # Main PROVE Len(stack) > 1 /\ Current \in Co
  <2>1. Len(stack) # 1
    BY <1>2, <1>3 DEF Bottom
  <2>2. Len(stack) > 1
    <3>1. \A k \in Nat \ {0} : k = 1 \/ k > 1
      OBVIOUS
    <3>2. QED BY <1>1, <2>1, <3>1
  <2>3. Current \in Co
    BY <1>2, <1>3
  <2>4. QED BY <2>2, <2>3
<1>4. QED BY <1>1, <1>2, <1>3

LEMMA CurrentFacts ==
  ASSUME StackTypes, Distinct
  PROVE  /\ Len(stack) \in Nat \ {0}
         /\ Current = stack[Len(stack)]
         /\ Current # Main => Len(stack) > 1 /\ Current \in Co
         /\ \A i \in 2 .. Len(stack) : stack[i] \in Co
<1>1. Len(stack) \in Nat \ {0}
  BY DEF StackTypes
<1>2. Current = stack[Len(stack)]
  BY DEF Current, Last
<1>3. ASSUME NEW i \in 2 .. Len(stack) PROVE stack[i] \in Co
  <2>1. i \in 1 .. Len(stack) /\ 1 \in 1 .. Len(stack) /\ i # 1
    BY <1>1
  <2>2. stack[i] \in Co \cup {Main} /\ stack[i] # Main
    BY <2>1 DEF StackTypes, Distinct
  <2>3. QED BY <2>2
<1>4. ASSUME Current # Main PROVE Len(stack) > 1 /\ Current \in Co
  <2>1. Len(stack) # 1
    BY <1>2, <1>4 DEF Distinct
  <2>2. Len(stack) > 1 /\ Len(stack) \in 2 .. Len(stack)
    BY <1>1, <2>1
  <2>3. QED BY <1>2, <1>3, <2>2
<1>5. QED BY <1>1, <1>2, <1>3, <1>4

-----------------------------------------------------------------------------
(* The stack.                                                                *)

\* c comes on top of the stack: it was not in it.
LEMMA PushStack ==
  ASSUME StackTypes, Distinct, OnStackRuns, NEW c \in Co, stack' = Append(stack, c),
         \A i \in 1 .. Len(stack) : stack[i] # c,
         life' = [life EXCEPT ![c] = "running"],
         holder' \in [Co -> Co \cup {Main, Nobody}]
  PROVE  /\ StackTypes' /\ Distinct' /\ OnStackRuns'
         /\ Len(stack') = Len(stack) + 1
         /\ \A i \in 1 .. Len(stack) : stack'[i] = stack[i]
         /\ stack'[Len(stack) + 1] = c
<1>1. Len(stack) \in Nat \ {0}
  BY CurrentFacts
<1>2. /\ stack' \in Seq(Co \cup {Main}) /\ stack' # <<>> /\ Len(stack') = Len(stack) + 1
      /\ \A i \in 1 .. Len(stack) : stack'[i] = stack[i]
      /\ stack'[Len(stack) + 1] = c
  BY Pushed DEF StackTypes
<1>3. StackTypes'
  BY <1>1, <1>2 DEF StackTypes
<1>4. Distinct'
  <2>1. stack'[1] = Main
    BY <1>1, <1>2 DEF Distinct
  <2>2. ASSUME NEW i \in 1 .. Len(stack'), NEW j \in 1 .. Len(stack'), i # j
        PROVE  stack'[i] # stack'[j]
    BY <1>1, <1>2, <2>2 DEF Distinct
  <2>3. QED BY <2>1, <2>2 DEF Distinct
<1>5. OnStackRuns'
  BY <1>1, <1>2 DEF OnStackRuns, StackTypes
<1>6. QED BY <1>2, <1>3, <1>4, <1>5

\* The top is taken off; it may have ended.
LEMMA PopStack ==
  ASSUME StackTypes, Distinct, OnStackRuns, Current # Main, stack' = Front(stack),
         life' \in [Co -> {"none", "running", "exit"}],
         \A d \in Co : d # Current => life'[d] = life[d],
         holder' \in [Co -> Co \cup {Main, Nobody}]
  PROVE  /\ StackTypes' /\ Distinct' /\ OnStackRuns'
         /\ Len(stack) > 1 /\ Len(stack') = Len(stack) - 1
         /\ \A i \in 1 .. Len(stack') : stack'[i] = stack[i] /\ stack[i] # Current
<1>1. /\ Len(stack) > 1 /\ Len(stack) \in Nat /\ Current = stack[Len(stack)]
      /\ Current \in Co
  BY CurrentFacts
<1>2. /\ stack' \in Seq(Co \cup {Main}) /\ stack' # <<>> /\ Len(stack') = Len(stack) - 1
      /\ \A i \in 1 .. Len(stack') : stack'[i] = stack[i]
  BY <1>1, Popped DEF StackTypes
<1>3. StackTypes'
  BY <1>2 DEF StackTypes
<1>4. Distinct'
  <2>1. stack'[1] = Main
    BY <1>1, <1>2 DEF Distinct
  <2>2. ASSUME NEW i \in 1 .. Len(stack'), NEW j \in 1 .. Len(stack'), i # j
        PROVE  stack'[i] # stack'[j]
    BY <1>1, <1>2, <2>2 DEF Distinct
  <2>3. QED BY <2>1, <2>2 DEF Distinct
<1>5. ASSUME NEW i \in 1 .. Len(stack') PROVE stack[i] # Current
  <2>1. i \in 1 .. Len(stack) /\ Len(stack) \in 1 .. Len(stack) /\ i # Len(stack)
    BY <1>1, <1>2
  <2>2. QED BY <1>1, <2>1 DEF Distinct
<1>6. OnStackRuns'
  <2>1. ASSUME NEW i \in 1 .. Len(stack'), stack'[i] \in Co PROVE life'[stack'[i]] = "running"
    <3>1. i \in 1 .. Len(stack) /\ stack'[i] = stack[i] /\ stack[i] # Current
      BY <1>1, <1>2, <1>5
    <3>2. QED BY <2>1, <3>1 DEF OnStackRuns
  <2>2. QED BY <2>1 DEF OnStackRuns
<1>7. QED BY <1>1, <1>2, <1>3, <1>4, <1>5, <1>6

\* What comes on top belongs to the one that runs.
LEMMA PushKeeps ==
  ASSUME Nesting, NEW c \in Co, stack' = Append(stack, c),
         \A i \in 1 .. Len(stack) : stack[i] # c,
         life' = [life EXCEPT ![c] = "running"],
         holder' = [holder EXCEPT ![c] = Current]
  PROVE  Nesting'
<1> USE DEF Nesting
<1>1. /\ Len(stack) \in Nat \ {0} /\ Current = stack[Len(stack)]
      /\ Current \in Co \cup {Main}
  BY CurrentFacts DEF StackTypes
<1>2. holder' \in [Co -> Co \cup {Main, Nobody}]
  BY <1>1 DEF StackTypes
<1>3. /\ StackTypes' /\ Distinct' /\ OnStackRuns' /\ Len(stack') = Len(stack) + 1
      /\ \A i \in 1 .. Len(stack) : stack'[i] = stack[i]
      /\ stack'[Len(stack) + 1] = c
  BY <1>2, PushStack
<1>4. AboveHolder'
  <2>1. ASSUME NEW i \in 2 .. Len(stack') PROVE holder'[stack'[i]] = stack'[i - 1]
    <3>1. CASE i = Len(stack) + 1
      BY <1>1, <1>3, <3>1 DEF StackTypes
    <3>2. CASE i # Len(stack) + 1
      <4>1. i \in 2 .. Len(stack) /\ i - 1 \in 1 .. Len(stack)
        BY <1>1, <1>3, <3>2
      <4>2. stack'[i] = stack[i] /\ stack'[i - 1] = stack[i - 1] /\ stack[i] # c
        BY <1>1, <1>3, <4>1
      <4>3. stack[i] \in Co
        BY <4>1, CurrentFacts
      <4>4. QED BY <4>1, <4>2, <4>3 DEF AboveHolder, StackTypes
    <3>3. QED BY <3>1, <3>2
  <2>2. QED BY <2>1 DEF AboveHolder
<1>5. HeldHasBegun'
  BY DEF HeldHasBegun, StackTypes
<1>6. QED BY <1>3, <1>4, <1>5

\* With the top, pointers may go that it had and nothing in the stack stands above.
LEMMA PopKeeps ==
  ASSUME Nesting, Current # Main, stack' = Front(stack),
         life' \in [Co -> {"none", "running", "exit"}],
         \A d \in Co : d # Current => life'[d] = life[d],
         life'[Current] # "none",
         holder' \in [Co -> Co \cup {Main, Nobody}],
         \A d \in Co : holder'[d] = holder[d] \/ (holder[d] = Current /\ holder'[d] = Nobody)
  PROVE  Nesting'
<1> USE DEF Nesting
<1>1. /\ StackTypes' /\ Distinct' /\ OnStackRuns'
      /\ Len(stack) \in Nat /\ Len(stack) > 1 /\ Len(stack') = Len(stack) - 1
      /\ \A i \in 1 .. Len(stack') : stack'[i] = stack[i] /\ stack[i] # Current
  BY PopStack DEF StackTypes
<1>2. AboveHolder'
  <2>1. ASSUME NEW i \in 2 .. Len(stack') PROVE holder'[stack'[i]] = stack'[i - 1]
    <3>1. i \in 2 .. Len(stack) /\ i \in 1 .. Len(stack') /\ i - 1 \in 1 .. Len(stack')
      BY <1>1
    <3>2. /\ stack'[i] = stack[i] /\ stack'[i - 1] = stack[i - 1] /\ stack[i] \in Co
          /\ stack[i - 1] # Current
      BY <1>1, <3>1, CurrentFacts
    <3>3. QED BY <3>1, <3>2 DEF AboveHolder
  <2>2. QED BY <2>1 DEF AboveHolder
<1>3. HeldHasBegun'
  BY DEF HeldHasBegun
<1>4. QED BY <1>1, <1>2, <1>3

-----------------------------------------------------------------------------
(* The contexts.                                                             *)

LEMMA UsedAre ==
  ASSUME ContextTypes, NEW x
  PROVE  x \in Used <=> /\ x # Nobody
                        /\ \/ \E c \in Co : context[c] = x
                           \/ \E i \in 1 .. Len(pool) : pool[i] = x
  BY DEF Used

\* As long as a coroutine has not been started, a context is left for it.
LEMMA FreshIsFree ==
  ASSUME ContextTypes, Counted, NEW d \in Co, life[d] = "none", NEW alive \in SUBSET Co
  PROVE  /\ Fresh(alive) \in Contexts /\ ~InSeq(Fresh(alive), pool)
         /\ \A c \in alive : context[c] # Fresh(alive)
<1>1. Begun \subseteq Co \ {d} /\ IsFiniteSet(Co) /\ IsFiniteSet(Contexts)
  BY ContextsAssumption DEF Begun
<1>2. /\ IsFiniteSet(Co \ {d}) /\ Cardinality(Co \ {d}) = Cardinality(Co) - 1
      /\ Cardinality(Co) \in Nat
  BY <1>1, FS_RemoveElement, FS_CardinalityType
<1>3. IsFiniteSet(Begun) /\ Cardinality(Begun) <= Cardinality(Co) - 1
  BY <1>1, <1>2, FS_Subset
<1>4. Used \subseteq Contexts
  BY UsedAre DEF ContextTypes
<1>5. IsFiniteSet(Used) /\ Cardinality(Used) <= Cardinality(Begun)
  BY <1>1, <1>4, FS_Subset DEF Counted
<1>6. Cardinality(Used) # Cardinality(Contexts)
  <2>1. Cardinality(Used) \in Nat /\ Cardinality(Begun) \in Nat /\ Cardinality(Contexts) \in Nat
    BY <1>1, <1>3, <1>5, FS_CardinalityType
  <2>2. Cardinality(Contexts) >= Cardinality(Co)
    BY ContextsAssumption
  <2>3. QED BY <1>2, <1>3, <1>5, <2>1, <2>2
<1>7. PICK k \in Contexts : k \notin Used
  BY <1>4, <1>6
<1>8. ~InSeq(k, pool) /\ \A c \in alive : context[c] # k
  BY <1>7, UsedAre, NamesAssumption DEF InSeq
<1>9. QED BY <1>8 DEF Fresh

\* At most one context more is in use when one coroutine more has begun.
LEMMA CountKeeps ==
  ASSUME ContextTypes, ContextTypes', Counted, Begun \subseteq Begun', NEW k \in Contexts,
         \/ Used' \subseteq Used
         \/ Used' \subseteq Used \cup {k} /\ \E d \in Begun' : d \notin Begun
  PROVE  Counted'
<1>1. IsFiniteSet(Co) /\ IsFiniteSet(Contexts)
  BY ContextsAssumption
<1>2. Used \subseteq Contexts /\ Begun \subseteq Co /\ Begun' \subseteq Co
  BY UsedAre DEF ContextTypes, Begun
<1>3. /\ IsFiniteSet(Used) /\ IsFiniteSet(Begun) /\ IsFiniteSet(Begun')
      /\ Cardinality(Used) \in Nat /\ Cardinality(Begun) \in Nat /\ Cardinality(Begun') \in Nat
      /\ Cardinality(Begun) <= Cardinality(Begun')
  BY <1>1, <1>2, FS_Subset, FS_CardinalityType
<1>4. CASE Used' \subseteq Used
  <2>1. Cardinality(Used') <= Cardinality(Used) /\ Cardinality(Used') \in Nat
    BY <1>3, <1>4, FS_Subset, FS_CardinalityType
  <2>2. QED BY <1>3, <2>1 DEF Counted
<1>5. CASE Used' \subseteq Used \cup {k} /\ \E d \in Begun' : d \notin Begun
  <2>1. /\ IsFiniteSet(Used \cup {k}) /\ Cardinality(Used \cup {k}) <= Cardinality(Used) + 1
        /\ Cardinality(Used \cup {k}) \in Nat
    BY <1>3, FS_AddElement, FS_CardinalityType
  <2>2. Cardinality(Used') <= Cardinality(Used \cup {k}) /\ Cardinality(Used') \in Nat
    BY <1>5, <2>1, FS_Subset, FS_CardinalityType
  <2>3. Cardinality(Begun) # Cardinality(Begun')
    BY <1>3, <1>5, FS_Subset
  <2>4. Cardinality(Used) <= Cardinality(Begun)
    BY DEF Counted
  <2>5. Cardinality(Used') <= Cardinality(Begun')
    BY <1>3, <2>1, <2>2, <2>3, <2>4
  <2>6. QED BY <2>5 DEF Counted
<1>6. QED BY <1>4, <1>5

LEMMA LastIsIn ==
  ASSUME NEW S, NEW s \in Seq(S), s # <<>>
  PROVE  /\ Len(s) \in Nat \ {0} /\ Last(s) = s[Len(s)] /\ Last(s) \in S
         /\ Front(s) \in Seq(S) /\ Len(Front(s)) = Len(s) - 1
         /\ \A i \in 1 .. Len(Front(s)) : i \in 1 .. Len(s) - 1 /\ Front(s)[i] = s[i]
<1>1. Len(s) \in Nat \ {0}
  OBVIOUS
<1>2. Last(s) = s[Len(s)] /\ Last(s) \in S
  BY <1>1 DEF Last
<1>3. CASE Len(s) = 1
  <2>1. Front(s) = SubSeq(s, 1, 0)
    BY <1>3 DEF Front
  <2>2. Front(s) = <<>> /\ <<>> \in Seq(S) /\ Len(<<>>) = 0
    BY <2>1
  <2>3. QED BY <1>1, <1>2, <1>3, <2>2
<1>4. CASE Len(s) > 1
  <2>1. /\ Front(s) \in Seq(S) /\ Len(Front(s)) = Len(s) - 1
        /\ \A i \in 1 .. Len(Front(s)) : Front(s)[i] = s[i]
    BY <1>1, <1>4, Popped
  <2>2. QED BY <1>1, <1>2, <2>1
<1>5. \A n \in Nat \ {0} : n = 1 \/ n > 1
  OBVIOUS
<1>6. QED BY <1>1, <1>3, <1>4, <1>5

\* A coroutine that starts takes the last context of the pool, or one that is not in use.
LEMMA StartContexts ==
  ASSUME ContextTypes, Counted, life \in [Co -> {"none", "running", "exit"}],
         NEW d \in Co, life[d] = "none", NEW alive \in SUBSET Co, Start(d, alive)
  PROVE  /\ ContextTypes' /\ Counted'
         /\ context'[d] \in Contexts /\ \A c \in Co : c # d => context'[c] = context[c]
         /\ \/ pool # <<>> /\ context'[d] = Last(pool) /\ pool' = Front(pool)
            \/ /\ pool' = pool /\ ~InSeq(context'[d], pool)
               /\ \A c \in alive : context[c] # context'[d]
<1>1. life' = [life EXCEPT ![d] = "running"]
  BY DEF Start
<1>2. PICK k \in Contexts :
         /\ context' = [context EXCEPT ![d] = k]
         /\ \/ pool # <<>> /\ k = Last(pool) /\ pool' = Front(pool)
            \/ pool' = pool /\ ~InSeq(k, pool) /\ \A c \in alive : context[c] # k
  <2>1. CASE pool # <<>>
    <3>1. Last(pool) \in Contexts
      BY <2>1, LastIsIn DEF ContextTypes
    <3>2. QED BY <2>1, <3>1 DEF Start
  <2>2. CASE pool = <<>>
    BY <2>2, FreshIsFree DEF Start
  <2>3. QED BY <2>1, <2>2
<1>3. pool' \in Seq(Contexts) /\ Len(pool') <= Len(pool) /\ \A i \in 1 .. Len(pool') :
         i \in 1 .. Len(pool) /\ pool'[i] = pool[i]
  <2>1. CASE pool' = pool
    BY <2>1 DEF ContextTypes
  <2>2. CASE pool # <<>> /\ pool' = Front(pool)
    BY <2>2, LastIsIn DEF ContextTypes
  <2>3. QED BY <1>2, <2>1, <2>2
<1>4. /\ \A c \in Co : c # d => context'[c] = context[c] /\ life'[c] = life[c]
      /\ context'[d] = k /\ k # Nobody /\ life'[d] = "running"
  BY <1>1, <1>2, NamesAssumption DEF ContextTypes
<1>5. ContextTypes'
  <2>1. Len(pool') <= PoolSize
    BY <1>3, PoolAssumption DEF ContextTypes
  <2>2. context' \in [Co -> Contexts \cup {Nobody}]
    BY <1>2 DEF ContextTypes
  <2>3. QED BY <1>3, <1>4, <2>1, <2>2 DEF ContextTypes
<1>6. Counted'
  <2>1. Begun \subseteq Begun' /\ d \in Begun' /\ d \notin Begun
    BY <1>1 DEF Begun
  <2>2. ASSUME NEW x \in Used' PROVE x \in Used \cup {k}
    <3>1. \/ \E c \in Co : context'[c] = x
          \/ \E i \in 1 .. Len(pool') : pool'[i] = x
      BY <2>2 DEF Used
    <3>2. x # Nobody
      BY <2>2 DEF Used
    <3>3. QED BY <1>3, <1>4, <3>1, <3>2, UsedAre
  <2>3. QED BY <1>5, <2>1, <2>2, CountKeeps
<1>7. QED BY <1>2, <1>4, <1>5, <1>6

\* The context of a coroutine that ends goes to the pool or stays with it.
LEMMA FinishContexts ==
  ASSUME ContextTypes, Counted, life \in [Co -> {"none", "running", "exit"}],
         Current \in Co, life[Current] = "running", Finish
  PROVE  /\ ContextTypes' /\ Counted'
         /\ context[Current] \in Contexts
         /\ \A c \in Co : c # Current => context'[c] = context[c]
         /\ pool' = pool \/ pool' = Append(pool, context[Current])
<1> DEFINE c == Current
<1>1. /\ life' = [life EXCEPT ![c] = "exit"] /\ c \in Co
      /\ \/ Len(pool) # PoolSize /\ pool' = Append(pool, context[c])
            /\ context' = [context EXCEPT ![c] = Nobody]
         \/ pool' = pool /\ context' = context
  BY DEF Finish
<1>2. context[c] \in Contexts /\ life[c] = "running"
  BY DEF ContextTypes
<1> HIDE DEF c
<1>3. CASE pool' = pool /\ context' = context
  <2>1. ContextTypes'
    BY <1>1, <1>3 DEF ContextTypes
  <2>2. Used' \subseteq Used /\ Begun \subseteq Begun'
    BY <1>1, <1>2, <1>3 DEF Used, Begun
  <2>3. QED BY <1>2, <1>3, <2>1, <2>2, CountKeeps DEF c
<1>4. CASE /\ Len(pool) # PoolSize /\ pool' = Append(pool, context[c])
           /\ context' = [context EXCEPT ![c] = Nobody]
  <2>1. /\ pool' \in Seq(Contexts) /\ Len(pool') = Len(pool) + 1
        /\ \A i \in 1 .. Len(pool) : pool'[i] = pool[i]
        /\ pool'[Len(pool) + 1] = context[c]
    BY <1>2, <1>4, Pushed DEF ContextTypes
  <2>2. Len(pool) \in Nat /\ Len(pool) <= PoolSize /\ PoolSize \in Nat
    BY PoolAssumption DEF ContextTypes
  <2>3. context' \in [Co -> Contexts \cup {Nobody}]
    BY <1>4 DEF ContextTypes
  <2>4. \A e \in Co : life'[e] = "running" => context'[e] # Nobody
    BY <1>1, <1>4 DEF ContextTypes
  <2>5. ContextTypes'
    BY <1>4, <2>1, <2>2, <2>3, <2>4 DEF ContextTypes
  <2>6. Used' \subseteq Used
    <3>1. ASSUME NEW x \in Used' PROVE x \in Used
      <4>1. /\ x # Nobody
            /\ \/ \E e \in Co : context'[e] = x
               \/ \E i \in 1 .. Len(pool') : pool'[i] = x
        BY <3>1 DEF Used
      <4>2. \A e \in Co : context'[e] = x => context[e] = x
        BY <1>4, <4>1 DEF ContextTypes
      <4>3. \A i \in 1 .. Len(pool') : i \in 1 .. Len(pool) \/ pool'[i] = context[c]
        BY <2>1, <2>2
      <4>4. QED BY <1>1, <2>1, <4>1, <4>2, <4>3, UsedAre
    <3>2. QED BY <3>1
  <2>7. Begun \subseteq Begun'
    BY <1>1, <1>2 DEF Begun
  <2>8. QED BY <1>1, <1>2, <1>4, <2>5, <2>6, <2>7, CountKeeps DEF c, ContextTypes
<1>5. QED BY <1>1, <1>3, <1>4

-----------------------------------------------------------------------------
(* Every operation keeps the invariant.                                     *)

LEMMA InitIInv == InitCoroutines => Nesting /\ Base
<1> SUFFICES ASSUME InitCoroutines PROVE Nesting /\ Base
  OBVIOUS
<1>1. stack = <<Main>> /\ Len(stack) = 1 /\ stack[1] = Main /\ Main \notin Co
  BY NamesAssumption DEF InitCoroutines
<1>2. StackTypes
  BY <1>1 DEF InitCoroutines, StackTypes
<1>3. Distinct /\ OnStackRuns
  BY <1>1 DEF Distinct, OnStackRuns
<1>4. AboveHolder
  BY <1>1 DEF AboveHolder
<1>5. HeldHasBegun
  BY DEF InitCoroutines, HeldHasBegun
<1>6. ContextTypes
  BY PoolAssumption DEF InitCoroutines, ContextTypes
<1>7. Counted
  <2>1. Used = {} /\ Begun = {}
    BY DEF InitCoroutines, Used, Begun
  <2>2. QED BY <2>1, FS_EmptySet DEF Counted
<1>8. ContextsApart
  <2>1. Held = {} /\ Len(pool) = 0
    BY <1>1 DEF InitCoroutines, Held, InSeq
  <2>2. QED BY <2>1 DEF ContextsApart
<1>9. Bottom
  BY <1>1 DEF Bottom
<1>10. QED BY <1>2, <1>3, <1>4, <1>5, <1>6, <1>7, <1>8, <1>9 DEF Base, Nesting

LEMMA NextNesting ==
  ASSUME Nesting, [coNext]_<<coVars, holder>>
  PROVE  Nesting'
<1>0. /\ StackTypes /\ Distinct /\ OnStackRuns /\ AboveHolder /\ HeldHasBegun
      /\ Len(stack) \in Nat \ {0} /\ Current = stack[Len(stack)]
      /\ Current \in Co \cup {Main}
  BY CurrentFacts DEF Nesting, StackTypes
<1>1. ASSUME NEW d \in Co, SpawnHeld(d) PROVE Nesting'
  <2>1. \A i \in 1 .. Len(stack) : stack[i] # d
    BY <1>0, <1>1 DEF SpawnHeld, OnStackRuns
  <2>2. /\ stack' = Append(stack, d)
        /\ life' = [life EXCEPT ![d] = "running"]
        /\ holder' = [holder EXCEPT ![d] = Current]
    BY <1>1 DEF SpawnHeld, Start
  <2>3. QED BY <2>1, <2>2, PushKeeps
<1>2. ASSUME NEW d \in Co, ResumeHeld(d) PROVE Nesting'
  <2>1. holder[d] = Current /\ UNCHANGED <<life, context, pool, holder>>
    BY <1>2 DEF ResumeHeld, Resume
  <2>2. CASE life[d] = "exit"
    <3>1. UNCHANGED stack
      BY <1>2, <2>2 DEF ResumeHeld, Resume
    <3>2. QED BY <1>0, <2>1, <3>1
             DEF Nesting, StackTypes, Distinct, OnStackRuns, AboveHolder, HeldHasBegun
  <2>3. CASE life[d] # "exit"
    <3>1. life[d] = "running"
      <4>1. holder[d] # Nobody
        BY <1>0, <2>1, NamesAssumption
      <4>2. QED BY <1>0, <2>3, <4>1 DEF HeldHasBegun, StackTypes
    <3>2. ASSUME NEW i \in 1 .. Len(stack), stack[i] = d PROVE FALSE
      <4>1. i # 1
        BY <1>0, <3>2, NamesAssumption DEF Distinct
      <4>2. i \in 2 .. Len(stack) /\ i - 1 \in 1 .. Len(stack) /\ i - 1 # Len(stack)
        BY <1>0, <4>1
      <4>3. stack[i - 1] # Current
        BY <1>0, <4>2 DEF Distinct
      <4>4. holder[d] = stack[i - 1]
        BY <1>0, <3>2, <4>2 DEF AboveHolder
      <4>5. QED BY <1>0, <2>1, <4>3, <4>4, NamesAssumption
    <3>3. stack' = Append(stack, d)
      BY <1>2, <2>3 DEF ResumeHeld, Resume
    <3>4. /\ life' = [life EXCEPT ![d] = "running"]
          /\ holder' = [holder EXCEPT ![d] = Current]
      BY <1>0, <2>1, <3>1 DEF StackTypes
    <3>5. QED BY <3>2, <3>3, <3>4, PushKeeps
  <2>4. QED BY <2>2, <2>3
<1>3. ASSUME NEW d \in Co, ReleaseHeld(d) PROVE Nesting'
  <2>1. holder' = [holder EXCEPT ![d] = Nobody] /\ UNCHANGED coVars
    BY <1>3 DEF ReleaseHeld
  <2>2. ASSUME NEW i \in 2 .. Len(stack) PROVE stack[i] \in Co /\ stack[i] # d
    <3>1. /\ stack[i] \in Co /\ holder[stack[i]] = stack[i - 1]
          /\ i - 1 \in 1 .. Len(stack) /\ Len(stack) \in 1 .. Len(stack) /\ i - 1 # Len(stack)
      BY <1>0, CurrentFacts DEF AboveHolder
    <3>2. holder[stack[i]] # Current
      BY <1>0, <3>1 DEF Distinct
    <3>3. QED BY <1>3, <3>1, <3>2 DEF ReleaseHeld
  <2>3. QED BY <1>0, <2>1, <2>2
          DEF Nesting, StackTypes, Distinct, OnStackRuns, AboveHolder, HeldHasBegun, coVars
<1>4. CASE YieldCurrent
  <2>1. Current # Main /\ stack' = Front(stack) /\ UNCHANGED <<life, holder>>
    BY <1>4 DEF YieldCurrent, Yield
  <2>2. life[Current] # "none"
    <3>1. Current \in Co /\ Len(stack) \in 1 .. Len(stack)
      BY <1>0, <2>1
    <3>2. QED BY <1>0, <3>1 DEF OnStackRuns
  <2>3. /\ life' \in [Co -> {"none", "running", "exit"}]
        /\ holder' \in [Co -> Co \cup {Main, Nobody}]
    BY <1>0, <2>1 DEF StackTypes
  <2>4. /\ \A d \in Co : d # Current => life'[d] = life[d]
        /\ life'[Current] # "none"
        /\ \A d \in Co : holder'[d] = holder[d]
    BY <2>1, <2>2
  <2>5. QED BY <2>1, <2>3, <2>4, PopKeeps
<1>5. CASE EndCurrent
  <2>1. /\ Current # Main /\ stack' = Front(stack)
        /\ life' = [life EXCEPT ![Current] = "exit"]
        /\ holder' = [d \in Co |-> IF holder[d] = Current THEN Nobody ELSE holder[d]]
    BY <1>5 DEF EndCurrent, Finish, ReleaseAll
  <2>2. Current \in Co
    BY <1>0, <2>1
  <2>3. /\ life' \in [Co -> {"none", "running", "exit"}]
        /\ \A d \in Co : d # Current => life'[d] = life[d]
        /\ life'[Current] # "none"
    BY <1>0, <2>1, <2>2 DEF StackTypes
  <2>4. /\ holder' \in [Co -> Co \cup {Main, Nobody}]
        /\ \A d \in Co : holder'[d] = holder[d] \/ (holder[d] = Current /\ holder'[d] = Nobody)
    <3>1. holder \in [Co -> Co \cup {Main, Nobody}]
      BY <1>0 DEF StackTypes
    <3>2. \A d \in Co : holder'[d] = IF holder[d] = Current THEN Nobody ELSE holder[d]
      BY <2>1
    <3>3. QED BY <2>1, <3>1, <3>2
  <2>5. QED BY <2>1, <2>3, <2>4, PopKeeps
<1>6. CASE UNCHANGED <<coVars, holder>>
  BY <1>0, <1>6 DEF Nesting, StackTypes, Distinct, OnStackRuns, AboveHolder, HeldHasBegun, coVars
<1>7. QED BY <1>1, <1>2, <1>3, <1>4, <1>5, <1>6 DEF coNext

\* What keeps the contexts and starts nothing keeps them apart.
LEMMA SameContexts ==
  ASSUME ContextTypes, Counted, ContextsApart, UNCHANGED <<life, context, pool>>,
         Held' \subseteq Held
  PROVE  ContextTypes' /\ Counted' /\ ContextsApart'
<1>1. ContextTypes' /\ Counted'
  BY DEF ContextTypes, Counted, Used, Begun
<1>2. Held' \subseteq Co
  BY DEF Held
<1>3. ContextsApart'
  BY <1>2 DEF ContextsApart
<1>4. QED BY <1>1, <1>3

\* Where nobody gets a pointer and the stack does not grow, nobody comes to be held.
LEMMA HeldAfter ==
  ASSUME NEW D \in SUBSET Co,
         \A c \in Co : InSeq(c, stack') => InSeq(c, stack) \/ c \in D,
         \A c \in Co : holder'[c] # Nobody => holder[c] # Nobody \/ c \in D
  PROVE  Held' \subseteq Held \cup D
  BY DEF Held

LEMMA NextContexts ==
  ASSUME Base, [Step]_<<coVars, holder>>
  PROVE  ContextTypes' /\ Counted' /\ ContextsApart'
<1>0. /\ StackTypes /\ Bottom /\ ContextTypes /\ Counted
      /\ ContextsApart /\ life \in [Co -> {"none", "running", "exit"}]
      /\ holder \in [Co -> Co \cup {Main, Nobody}] /\ Held \in SUBSET Co
      /\ stack \in Seq(Co \cup {Main}) /\ Len(stack) \in Nat /\ Current = stack[Len(stack)]
  BY BottomFacts DEF Base, StackTypes, Held
<1>1. ASSUME NEW d \in Co, SpawnHeld(d) PROVE ContextTypes' /\ Counted' /\ ContextsApart'
  <2>1. /\ life[d] = "none" /\ Start(d, Held) /\ life' = [life EXCEPT ![d] = "running"]
        /\ stack' = Append(stack, d) /\ holder' = [holder EXCEPT ![d] = Current]
    BY <1>1 DEF SpawnHeld, Start
  <2>2. /\ ContextTypes' /\ Counted'
        /\ context'[d] \in Contexts /\ \A c \in Co : c # d => context'[c] = context[c]
        /\ \/ pool # <<>> /\ context'[d] = Last(pool) /\ pool' = Front(pool)
           \/ /\ pool' = pool /\ ~InSeq(context'[d], pool)
              /\ \A c \in Held : context[c] # context'[d]
    BY <1>0, <2>1, StartContexts
  <2>3. Held' \subseteq Held \cup {d}
    <3>1. /\ Len(stack') = Len(stack) + 1
          /\ \A i \in 1 .. Len(stack) : stack'[i] = stack[i]
          /\ stack'[Len(stack) + 1] = d
      <4>1. d \in Co \cup {Main}
        OBVIOUS
      <4>2. QED BY <1>0, <2>1, <4>1, Pushed
    <3>2. \A c \in Co : InSeq(c, stack') => InSeq(c, stack) \/ c \in {d}
      <4>1. \A i \in 1 .. Len(stack') : i \in 1 .. Len(stack) \/ i = Len(stack) + 1
        BY <1>0, <3>1
      <4>2. ASSUME NEW c \in Co, InSeq(c, stack'), ~InSeq(c, stack) PROVE c = d
        <5>1. PICK i \in 1 .. Len(stack') : stack'[i] = c
          BY <4>2 DEF InSeq
        <5>2. i \notin 1 .. Len(stack)
          BY <3>1, <4>2, <5>1 DEF InSeq
        <5>3. QED BY <3>1, <4>1, <5>1, <5>2
      <4>3. QED BY <4>2
    <3>3. \A c \in Co : holder'[c] # Nobody => holder[c] # Nobody \/ c \in {d}
      BY <1>0, <2>1
    <3>4. QED BY <3>2, <3>3, HeldAfter
  <2>4. \A c \in Held' : c # d => c \in Held /\ context'[c] = context[c] /\ life'[c] = life[c]
    BY <1>0, <2>1, <2>2, <2>3
  <2>5. \A c \in Held : life[c] = "running" => context[c] # context'[d]
    <3>1. CASE pool # <<>> /\ context'[d] = Last(pool)
      <4>1. InSeq(context'[d], pool)
        <5>1. pool \in Seq(Contexts)
          BY <1>0 DEF ContextTypes
        <5>2. Len(pool) \in Nat \ {0} /\ context'[d] = pool[Len(pool)]
          BY <3>1, <5>1, LastIsIn
        <5>3. Len(pool) \in 1 .. Len(pool)
          BY <5>2
        <5>4. QED BY <5>2, <5>3 DEF InSeq
      <4>2. QED BY <1>0, <4>1 DEF ContextsApart
    <3>2. QED BY <2>2, <3>1
  <2>6. /\ \A x : InSeq(x, pool') => InSeq(x, pool) /\ x # context'[d]
        /\ \A i, j \in 1 .. Len(pool') : i # j => pool'[i] # pool'[j]
    <3>1. CASE pool # <<>> /\ context'[d] = Last(pool) /\ pool' = Front(pool)
      <4>1. /\ Len(pool) \in Nat \ {0} /\ context'[d] = pool[Len(pool)]
            /\ \A i \in 1 .. Len(pool') : i \in 1 .. Len(pool) - 1 /\ pool'[i] = pool[i]
        BY <1>0, <3>1, LastIsIn DEF ContextTypes
      <4>2. \A i \in 1 .. Len(pool') : i \in 1 .. Len(pool) /\ i # Len(pool)
        BY <4>1
      <4>3. Len(pool) \in 1 .. Len(pool)
        BY <4>1
      <4>4. \A i, j \in 1 .. Len(pool) : i # j => pool[i] # pool[j]
        BY <1>0 DEF ContextsApart
      <4>5. QED BY <4>1, <4>2, <4>3, <4>4 DEF InSeq
    <3>2. CASE pool' = pool /\ ~InSeq(context'[d], pool)
      BY <1>0, <3>2 DEF ContextsApart
    <3>3. QED BY <2>2, <3>1, <3>2
  <2>7. /\ \A c \in Held' : life'[c] = "running" => ~InSeq(context'[c], pool')
        /\ \A c \in Held' : life'[c] = "running" => context'[c] # Nobody
    BY <1>0, <2>2, <2>4, <2>6, NamesAssumption DEF ContextsApart
  <2>8. \A b, c \in Held' : b # c /\ life'[b] = "running" /\ life'[c] = "running"
           => context'[b] # context'[c]
    BY <1>0, <2>4, <2>5 DEF ContextsApart
  <2>9. QED BY <2>2, <2>6, <2>7, <2>8 DEF ContextsApart
<1>2. ASSUME NEW d \in Co, ResumeHeld(d) \/ ReleaseHeld(d)
      PROVE  UNCHANGED <<life, context, pool>> /\ Held' \subseteq Held
  <2>1. UNCHANGED <<life, context, pool>>
    BY <1>2 DEF ResumeHeld, Resume, ReleaseHeld, coVars
  <2>2. CASE ReleaseHeld(d)
    <3>1. stack' = stack /\ holder' = [holder EXCEPT ![d] = Nobody]
      BY <2>2 DEF ReleaseHeld, coVars
    <3>2. QED BY <1>0, <2>1, <3>1 DEF Held
  <2>3. CASE ResumeHeld(d)
    <3>1. holder' = holder /\ holder[d] # Nobody /\ stack' \in {stack, Append(stack, d)}
      <4>1. Current \in Co \cup {Main}
        BY <1>0, BottomFacts
      <4>2. QED BY <2>3, <4>1, NamesAssumption DEF ResumeHeld, Resume
    <3>2. \A c \in Co : InSeq(c, stack') => InSeq(c, stack) \/ c = d
      <4>1. CASE stack' = stack
        BY <4>1
      <4>2. CASE stack' = Append(stack, d)
        <5>1. d \in Co \cup {Main}
          OBVIOUS
        <5>2. /\ Len(stack') = Len(stack) + 1
              /\ \A i \in 1 .. Len(stack) : stack'[i] = stack[i]
              /\ stack'[Len(stack) + 1] = d
          BY <1>0, <4>2, <5>1, Pushed
        <5>3. \A i \in 1 .. Len(stack') : i \in 1 .. Len(stack) \/ i = Len(stack) + 1
          BY <1>0, <5>2
        <5>4. ASSUME NEW c \in Co, InSeq(c, stack'), ~InSeq(c, stack) PROVE c = d
          <6>1. PICK i \in 1 .. Len(stack') : stack'[i] = c
            BY <5>4 DEF InSeq
          <6>2. i \notin 1 .. Len(stack)
            BY <5>2, <5>4, <6>1 DEF InSeq
          <6>3. QED BY <5>2, <5>3, <6>1, <6>2
        <5>5. QED BY <5>4
      <4>3. QED BY <3>1, <4>1, <4>2
    <3>3. QED BY <2>1, <3>1, <3>2 DEF Held
  <2>4. QED BY <1>2, <2>2, <2>3
<1>3. ASSUME Current # Main, stack' = Front(stack)
      PROVE  \A c \in Co : InSeq(c, stack') => InSeq(c, stack)
  <2>1. Len(stack) > 1
    BY <1>0, <1>3, BottomFacts
  <2>2. Len(stack') = Len(stack) - 1 /\ \A i \in 1 .. Len(stack') : stack'[i] = stack[i]
    BY <1>0, <1>3, <2>1, Popped
  <2>3. QED BY <1>0, <2>2 DEF InSeq
<1>4. CASE YieldCurrent
  <2>1. Held' \subseteq Held
    BY <1>3, <1>4 DEF YieldCurrent, Yield, Held
  <2>2. QED BY <1>0, <1>4, <2>1, SameContexts DEF YieldCurrent, Yield
<1>5. CASE EndCurrent /\ (Current \in Co => life[Current] = "running")
  <2>1. /\ Current # Main /\ stack' = Front(stack) /\ Finish
        /\ life' = [life EXCEPT ![Current] = "exit"]
        /\ holder' = [d \in Co |-> IF holder[d] = Current THEN Nobody ELSE holder[d]]
    BY <1>5 DEF EndCurrent, Finish, ReleaseAll
  <2>2. Held' \subseteq Held
    <3>1. \A c \in Co : holder'[c] # Nobody => holder[c] # Nobody
      BY <2>1
    <3>2. QED BY <1>3, <2>1, <3>1 DEF Held
  <2>3. /\ Current \in Co /\ life[Current] = "running" /\ Current \in Held
    <3>1. Current \in Co /\ Len(stack) \in 1 .. Len(stack)
      BY <1>0, <2>1, BottomFacts
    <3>2. QED BY <1>0, <1>5, <3>1 DEF Held, InSeq
  <2>4. /\ ContextTypes' /\ Counted' /\ context[Current] \in Contexts
        /\ \A c \in Co : c # Current => context'[c] = context[c]
        /\ pool' = pool \/ pool' = Append(pool, context[Current])
    BY <1>0, <2>1, <2>3, FinishContexts
  <2>5. \A c \in Held' : life'[c] = "running" =>
           c \in Held /\ c # Current /\ life[c] = "running" /\ context'[c] = context[c]
    BY <1>0, <2>1, <2>2, <2>3, <2>4
  <2>6. ~InSeq(context[Current], pool)
    BY <1>0, <2>3 DEF ContextsApart
  <2>7. /\ \A x : InSeq(x, pool') => InSeq(x, pool) \/ x = context[Current]
        /\ \A i, j \in 1 .. Len(pool') : i # j => pool'[i] # pool'[j]
    <3>1. CASE pool' = pool
      BY <1>0, <3>1 DEF ContextsApart
    <3>2. CASE pool' = Append(pool, context[Current])
      <4>1. /\ pool \in Seq(Contexts) /\ Len(pool) \in Nat /\ Len(pool') = Len(pool) + 1
            /\ \A i \in 1 .. Len(pool) : pool'[i] = pool[i]
            /\ pool'[Len(pool) + 1] = context[Current]
        BY <1>0, <2>4, <3>2, Pushed DEF ContextTypes
      <4>2. \A i, j \in 1 .. Len(pool) : i # j => pool[i] # pool[j]
        BY <1>0 DEF ContextsApart
      <4>3. \A i \in 1 .. Len(pool') : i \in 1 .. Len(pool) \/ i = Len(pool) + 1
        BY <4>1
      <4>4. QED BY <2>6, <4>1, <4>2, <4>3 DEF InSeq
    <3>3. QED BY <2>4, <3>1, <3>2
  <2>8. /\ \A c \in Held' : life'[c] = "running" => ~InSeq(context'[c], pool')
        /\ \A c \in Held' : life'[c] = "running" => context'[c] # Nobody
    BY <1>0, <2>3, <2>5, <2>7 DEF ContextsApart
  <2>9. \A b, c \in Held' : b # c /\ life'[b] = "running" /\ life'[c] = "running"
           => context'[b] # context'[c]
    BY <1>0, <2>5 DEF ContextsApart
  <2>10. QED BY <2>4, <2>7, <2>8, <2>9 DEF ContextsApart
<1>6. CASE UNCHANGED <<coVars, holder>>
  BY <1>0, <1>6, SameContexts DEF coVars, Held
<1>7. ASSUME NEW d \in Co, NEW e \in Co \cup {Main}, HandOver(d, e)
      PROVE  ContextTypes' /\ Counted' /\ ContextsApart'
  <2>1. holder' = [holder EXCEPT ![d] = e] /\ d \in Held /\ UNCHANGED <<stack, life, context, pool>>
    BY <1>7 DEF HandOver, coVars
  <2>2. Held' \subseteq Held
    BY <1>0, <2>1 DEF Held
  <2>3. QED BY <1>0, <2>1, <2>2, SameContexts
<1>8. QED BY <1>0, <1>1, <1>2, <1>4, <1>5, <1>6, <1>7, SameContexts DEF Step, coNext

\* Whoever resumes whom, the stack is one of coroutines above the main one.
LEMMA NextBase == Base /\ [Step]_<<coVars, holder>> => Base'
<1> SUFFICES ASSUME Base, [Step]_<<coVars, holder>> PROVE Base'
  OBVIOUS
<1>0. /\ StackTypes /\ Bottom /\ Len(stack) \in Nat \ {0} /\ stack # <<>>
      /\ stack \in Seq(Co \cup {Main}) /\ life \in [Co -> {"none", "running", "exit"}]
      /\ holder \in [Co -> Co \cup {Main, Nobody}] /\ Current \in Co \cup {Main}
      /\ Current # Main => Len(stack) > 1 /\ Current \in Co
  BY BottomFacts DEF Base, StackTypes
<1>1. ASSUME NEW d \in Co, stack' = Append(stack, d)
      PROVE  stack' \in Seq(Co \cup {Main}) /\ stack' # <<>> /\ Bottom'
  <2>1. /\ stack' \in Seq(Co \cup {Main}) /\ stack' # <<>>
        /\ Len(stack') = Len(stack) + 1
        /\ \A i \in 1 .. Len(stack) : stack'[i] = stack[i]
        /\ stack'[Len(stack) + 1] = d
    <3>1. d \in Co \cup {Main}
      OBVIOUS
    <3>2. QED BY <1>0, <1>1, <3>1, Pushed
  <2>2. \A i \in 2 .. Len(stack') : i \in 2 .. Len(stack) \/ i = Len(stack) + 1
    BY <1>0, <2>1
  <2>3. QED BY <1>0, <2>1, <2>2 DEF Bottom
<1>2. ASSUME Current # Main, stack' = Front(stack)
      PROVE  stack' \in Seq(Co \cup {Main}) /\ stack' # <<>> /\ Bottom'
  <2>1. /\ stack' \in Seq(Co \cup {Main}) /\ stack' # <<>>
        /\ Len(stack') = Len(stack) - 1 /\ Len(stack) > 1
        /\ \A i \in 1 .. Len(stack') : stack'[i] = stack[i]
    BY <1>0, <1>2, Popped
  <2>2. QED BY <1>0, <2>1 DEF Bottom
<1>3. CASE coNext
  <2>1. ASSUME NEW d \in Co, SpawnHeld(d) PROVE StackTypes' /\ Bottom'
    BY <1>0, <1>1, <2>1 DEF SpawnHeld, Start, StackTypes
  <2>2. ASSUME NEW d \in Co, ResumeHeld(d) PROVE StackTypes' /\ Bottom'
    BY <1>0, <1>1, <2>2 DEF ResumeHeld, Resume, StackTypes, Bottom
  <2>3. ASSUME NEW d \in Co, ReleaseHeld(d) PROVE StackTypes' /\ Bottom'
    BY <1>0, <2>3 DEF ReleaseHeld, coVars, StackTypes, Bottom
  <2>4. ASSUME YieldCurrent PROVE StackTypes' /\ Bottom'
    BY <1>0, <1>2, <2>4 DEF YieldCurrent, Yield, StackTypes
  <2>5. ASSUME EndCurrent PROVE StackTypes' /\ Bottom'
    <3>1. /\ Current # Main /\ stack' = Front(stack) /\ life' = [life EXCEPT ![Current] = "exit"]
          /\ holder' = [d \in Co |-> IF holder[d] = Current THEN Nobody ELSE holder[d]]
      BY <2>5 DEF EndCurrent, Finish, ReleaseAll
    <3>2. stack' \in Seq(Co \cup {Main}) /\ stack' # <<>> /\ Bottom'
      BY <1>2, <3>1
    <3>3. /\ life' \in [Co -> {"none", "running", "exit"}]
          /\ holder' \in [Co -> Co \cup {Main, Nobody}]
      BY <1>0, <3>1
    <3>4. QED BY <3>2, <3>3 DEF StackTypes
  <2>6. StackTypes' /\ Bottom'
    BY <1>3, <2>1, <2>2, <2>3, <2>4, <2>5 DEF coNext
  <2>7. QED BY <2>6, NextContexts DEF Base
<1>4. CASE (\E d \in Co, e \in Co \cup {Main} : HandOver(d, e)) \/ UNCHANGED <<coVars, holder>>
  <2>1. StackTypes' /\ Bottom'
    BY <1>0, <1>4 DEF HandOver, coVars, StackTypes, Bottom
  <2>2. QED BY <2>1, NextContexts DEF Base
<1>5. QED BY <1>3, <1>4 DEF Step

-----------------------------------------------------------------------------
(* The theorems.                                                            *)

\* The invariant holds throughout.
THEOREM Invariance == sharedSpec => []IInv
<1>1. sharedInit => IInv
  BY InitIInv DEF sharedInit, IInv
<1>2. IInv /\ [sharedNext]_sharedVars => IInv'
  <2> SUFFICES ASSUME IInv, [sharedNext]_sharedVars PROVE IInv'
    OBVIOUS
  <2>1. [Step]_<<coVars, holder>>
    BY DEF sharedNext, sharedVars, Step
  <2>2. Base'
    BY <2>1, NextBase DEF IInv
  <2>3. ASSUME ~handed' PROVE Nesting'
    <3>1. ~handed /\ [coNext]_<<coVars, holder>>
      BY <2>3 DEF sharedNext, sharedVars, HandOver
    <3>2. QED BY <3>1, NextNesting DEF IInv
  <2>4. QED BY <2>2, <2>3 DEF IInv
<1>3. QED BY <1>1, <1>2, PTL DEF sharedSpec

\* The variables keep their types, also with shared pointers; in particular there is always
\* a context for a coroutine that starts, although contexts are only recycled
\* (Coroutine.h:170-184).
THEOREM TypeCorrect == sharedSpec => []coTypeOK
<1>1. IInv => coTypeOK
  BY DEF IInv, Base, StackTypes, Bottom, ContextTypes, coTypeOK
<1>2. QED BY Invariance, <1>1, PTL

\* Until a pointer is handed on by the coroutine that has created what it points to, the
\* stack is a chain of callers: none is resumed inside its own resumption and control never
\* comes back to one that has ended.  resume() itself does not see to it
\* (Coroutine.h:170-184).
THEOREM NestingIsProper == sharedSpec => []NestedLikeFunctions
<1>1. IInv => NestedLikeFunctions
  BY DEF IInv, Nesting, Distinct, OnStackRuns, NestedLikeFunctions, InSeq
<1>2. QED BY Invariance, <1>1, PTL

\* No two coroutines that can still run share a context, and none runs on one that the
\* pool is going to hand out, whoever resumes and releases whom (Coroutine.h:170-214).
THEOREM ContextsStayApart == sharedSpec => []ContextsApart
<1>1. IInv => ContextsApart
  BY DEF IInv, Base
<1>2. QED BY Invariance, <1>1, PTL

\* Until a pointer is handed on, whenever the stack drops its pointer to a coroutine, the
\* creator still has one (Coroutine.h:186-199).
THEOREM YieldsAlive == sharedSpec => YieldKeepsAlive
<1>1. ASSUME Nesting, coNext
      PROVE  \A c \in Co : c = Current /\ Len(stack') < Len(stack) => holder'[c] # Nobody
  <2>1. /\ StackTypes /\ Distinct /\ Len(stack) \in Nat \ {0} /\ Current = stack[Len(stack)]
        /\ stack \in Seq(Co \cup {Main}) /\ holder \in [Co -> Co \cup {Main, Nobody}]
    BY <1>1, CurrentFacts DEF Nesting, StackTypes
  <2>2. ASSUME NEW c \in Co, c = Current
        PROVE  holder[c] \notin {Nobody, Current}
    <3>1. Current # Main /\ Len(stack) \in 2 .. Len(stack) /\ Len(stack) - 1 \in 1 .. Len(stack)
      BY <2>1, <2>2, NamesAssumption, CurrentFacts
    <3>2. holder[c] = stack[Len(stack) - 1]
      BY <1>1, <2>1, <2>2, <3>1 DEF Nesting, AboveHolder
    <3>3. stack[Len(stack) - 1] # stack[Len(stack)] /\ stack[Len(stack) - 1] \in Co \cup {Main}
      BY <2>1, <3>1 DEF Distinct
    <3>4. QED BY <2>1, <3>2, <3>3, NamesAssumption
  <2>3. CASE YieldCurrent
    BY <2>2, <2>3 DEF YieldCurrent
  <2>4. CASE EndCurrent
    BY <2>2, <2>4 DEF EndCurrent, ReleaseAll
  <2>5. CASE ~YieldCurrent /\ ~EndCurrent
    <3>1. \/ UNCHANGED stack \/ \E d \in Co : stack' = Append(stack, d)
      BY <1>1, <2>5 DEF coNext, SpawnHeld, Start, ResumeHeld, Resume, ReleaseHeld, coVars
    <3>2. ASSUME NEW d \in Co, stack' = Append(stack, d) PROVE Len(stack') = Len(stack) + 1
      <4>1. d \in Co \cup {Main}
        OBVIOUS
      <4>2. QED BY <2>1, <3>2, <4>1, Pushed
    <3>3. ~(Len(stack') < Len(stack))
      BY <2>1, <3>1, <3>2
    <3>4. QED BY <3>3
  <2>6. QED BY <2>3, <2>4, <2>5
<1>2. IInv /\ [sharedNext]_sharedVars =>
        [\A c \in Co : ~handed /\ c = Current /\ Len(stack') < Len(stack) => holder'[c] # Nobody
        ]_sharedVars
  <2> SUFFICES ASSUME IInv, sharedNext, ~handed,
                      NEW c \in Co, c = Current, Len(stack') < Len(stack)
               PROVE  holder'[c] # Nobody
    BY DEF sharedVars
  <2>1. CASE coNext
    BY <1>1, <2>1 DEF IInv
  <2>2. CASE \E d \in Co, e \in Co \cup {Main} : HandOver(d, e)
    BY <2>2 DEF HandOver, coVars, IInv, Base, StackTypes
  <2>3. QED BY <2>1, <2>2 DEF sharedNext
<1>3. QED BY Invariance, <1>2, PTL DEF sharedSpec, YieldKeepsAlive
=============================================================================
