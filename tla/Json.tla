-------------------------------- MODULE Json --------------------------------
(***************************************************************************)
(* What vsjson writes and reads: the dump of a value and the parser, over  *)
(* texts of characters.  The field names of messages are one character     *)
(* each, a letter stands for any other character.  Whitespace is left out, *)
(* since dump writes none.                                                 *)
(*                                                                         *)
(* A value is a pair of its kind and its content.  Integers, decimals and  *)
(* booleans convert into each other and are one kind, with the text that   *)
(* their dump writes as content.                                           *)
(***************************************************************************)
EXTENDS Naturals, Sequences, SequencesExt

Quote     == "\""
Backslash == "\\"
Comma     == ","
Zero      == "zero"   \* the character '\0'
Digits    == {"0", "1", "2", "3", "4", "5", "6", "7", "8", "9"}
True      == <<"t", "r", "u", "e">>
False     == <<"f", "a", "l", "s", "e">>

Null       == <<"null", <<"n", "u", "l", "l">>>>
Num(s)     == <<"num", s>>
Text(s)    == <<"text", s>>
Array(vs)  == <<"array", vs>>
Object(fs) == <<"object", fs>>   \* pairs of a name and a value, in the order of the dump

Kind(v)    == v[1]
Content(v) == v[2]

Names(o) == {Content(o)[i][1] : i \in DOMAIN Content(o)}

\* operator[]: the value of a name, the last one if the name was read twice.
Field(o, name) ==
    LET last == CHOOSE i \in DOMAIN Content(o) :
                    /\ Content(o)[i][1] = name
                    /\ \A j \in DOMAIN Content(o) : Content(o)[j][1] = name => j <= i
    IN  Content(o)[last][2]

-----------------------------------------------------------------------------
(* Writing: operator<< of Json and of what it holds.                         *)

\* Mutation: the last element is followed by a comma, too.
SeparatedAndMore(ss) == FlattenSeq([i \in DOMAIN ss |-> Append(ss[i], Comma)])

\* Commas between the elements.
Separated(ss) ==
    FlattenSeq([i \in DOMAIN ss |-> IF i = Len(ss) THEN ss[i] ELSE Append(ss[i], Comma)])

\* A text is written as it is, between quotes.
Quoted(s) == <<Quote>> \o s \o <<Quote>>
DumpAtom(v) == IF Kind(v) = "text" THEN Quoted(Content(v)) ELSE Content(v)

\* What a value holds; the names of an object are not among it.
Elements(v) ==
    CASE Kind(v) = "array"  -> Content(v)
      [] Kind(v) = "object" -> [i \in DOMAIN Content(v) |-> Content(v)[i][2]]
      [] OTHER              -> <<>>

\* operator<< of an array and of an object, whose elements have been written to dumps.
DumpWith(v, dumps) ==
    CASE Kind(v) = "array"  -> <<"[">> \o Separated(dumps) \o <<"]">>
      [] Kind(v) = "object" -> <<"{">> \o Separated([i \in DOMAIN dumps |->
                                   Quoted(Content(v)[i][1]) \o <<":">> \o dumps[i]]) \o <<"}">>
      [] OTHER              -> DumpAtom(v)

\* A message is nested three deep.
DumpInnermost(v) == DumpWith(v, [i \in DOMAIN Elements(v) |-> DumpAtom(Elements(v)[i])])
DumpInner(v)     == DumpWith(v, [i \in DOMAIN Elements(v) |-> DumpInnermost(Elements(v)[i])])
Dump(v)          == DumpWith(v, [i \in DOMAIN Elements(v) |-> DumpInner(Elements(v)[i])])

-----------------------------------------------------------------------------
(* Reading: recursive descent from the beginning of s, whose length the      *)
(* parser does not know.  It stops at the end of the first value.            *)

\* An exception, or a segmentation fault.
Fails        == [ok |-> FALSE]
Got(v, next) == [ok |-> TRUE, value |-> v, next |-> next]

\* s is all that can be read, with what stands behind the message in memory.
CharAt(s, p) == IF p <= Len(s) THEN s[p] ELSE "end"

\* parseString: where a text ends that is read from q on, 0 if it is open to the end of s: a
\* zero does not close it.  What follows a backslash is skipped, and kept.
Closing(s) ==
    LET closing[q \in 1 .. Len(s) + 2] ==
            CASE CharAt(s, q) = "end"     -> 0
              [] CharAt(s, q) = Quote     -> q
              [] CharAt(s, q) = Backslash -> closing[q + 2]
              [] OTHER                    -> closing[q + 1]
    IN  closing

ParseText(s, p) ==
    LET quote == Closing(s)[p + 1] IN
    IF CharAt(s, p) # Quote \/ quote = 0 THEN Fails
    ELSE Got(Text(SubSeq(s, p + 1, quote - 1)), quote + 1)

\* parseInteger: where the digits end that are read from q on.
After(s) ==
    LET after[q \in 1 .. Len(s) + 1] == IF CharAt(s, q) \in Digits THEN after[q + 1] ELSE q
    IN  after

\* parseExponent has a table of the powers of ten, up to 10^308.
PowerOf(ds) ==
    LET figure == [d \in Digits |-> CHOOSE n \in 0 .. 9 : ToString(n) = d]
    IN  FoldLeft(LAMBDA n, d : 10 * n + figure[d], 0, ds)
InTable(ds) == PowerOf(ds) < 309

\* What it takes from behind the table.
Unknown == <<"?">>

\* parseNumberImpl: an exponent is read behind a fraction only; a number must be followed
\* by something, and a minus by a digit.
ParseNumber(s, p) ==
    LET start    == IF CharAt(s, p) = "-" THEN p + 1 ELSE p
        integer  == After(s)[start]
        fraction == IF CharAt(s, integer) = "." THEN After(s)[integer + 1] ELSE integer
        scaled   == fraction # integer /\ CharAt(s, fraction) = "e"
        power    == fraction + IF CharAt(s, fraction + 1) \in {"+", "-"} THEN 2 ELSE 1
        exponent == IF scaled THEN After(s)[power] ELSE fraction
    IN  IF integer = start THEN Got(Null, start)
        ELSE IF \E q \in {integer, fraction, exponent} : CharAt(s, q) \in {"end", Zero} THEN Fails
        ELSE IF scaled /\ ~InTable(SubSeq(s, power, exponent - 1)) THEN Got(Num(Unknown), exponent)
        ELSE Got(Num(SubSeq(s, p, exponent - 1)), exponent)

\* The three below read at p; what stands further behind they leave to read.

\* parseArray and parseObject, once an element has been read: the others, if there are more.
More(s, element, next, close, others) ==
    CASE CharAt(s, next) = close -> Got(<<element>>, next + 1)
      [] CharAt(s, next) = Comma -> IF others.ok THEN Got(<<element>> \o others.value, others.next)
                                    ELSE Fails
      [] OTHER                   -> Fails

ParseElements(s, read, p) ==
    LET v == read[<<"value", p>>] IN
    IF v.ok THEN More(s, v.value, v.next, "]", read[<<"elements", v.next + 1>>]) ELSE Fails

ParseFields(s, read, p) ==
    LET k == ParseText(s, p)
        v == read[<<"value", k.next + 1>>] IN
    IF k.ok /\ CharAt(s, k.next) = ":" /\ v.ok
      THEN More(s, <<Content(k.value), v.value>>, v.next, "}", read[<<"fields", v.next + 1>>])
      ELSE Fails

Wrapped(list, kind) == IF list.ok THEN Got(<<kind, list.value>>, list.next) ELSE Fails

\* parseImpl.  A literal is known by its first letter, and its length is skipped, whatever
\* is written there; a character that begins no value is null and stays where it is.
ParseValue(s, read, p) ==
    LET c == CharAt(s, p) IN
    CASE c = "[" -> IF CharAt(s, p + 1) = "]" THEN Got(Array(<<>>), p + 2)
                    ELSE Wrapped(read[<<"elements", p + 1>>], "array")
      [] c = "{" -> IF CharAt(s, p + 1) = "}" THEN Got(Object(<<>>), p + 2)
                    ELSE Wrapped(read[<<"fields", p + 1>>], "object")
      [] c = Quote                  -> ParseText(s, p)
      [] c = "n"                    -> Got(Null, p + 4)
      [] c = "t"                    -> Got(Num(True), p + 4)
      [] c = "f"                    -> Got(Num(False), p + 5)
      [] c \in Digits \cup {"-"}    -> ParseNumber(s, p)
      [] OTHER                      -> Got(Null, p)

Reading(s) ==
    LET read[at \in {"value", "elements", "fields"} \X (1 .. Len(s) + 1)] ==
            CASE at[1] = "value"    -> ParseValue(s, read, at[2])
              [] at[1] = "elements" -> ParseElements(s, read, at[2])
              [] at[1] = "fields"   -> ParseFields(s, read, at[2])
    IN  read

Parse(s) == Reading(s)[<<"value", 1>>]

-----------------------------------------------------------------------------
\* What should survive the way through dump and parse: a text without quotes that does not
\* end in a backslash, a number that has a point before its exponent, and one that
\* the parser has a power of.
PlainAtom(v) ==
    LET c == Content(v)
        e == CHOOSE i \in DOMAIN c : c[i] = "e"
    IN  CASE Kind(v) = "text" -> ~Contains(c, Quote) /\ (c = <<>> \/ Last(c) # Backslash)
          [] Kind(v) = "num"  -> \/ c \in {True, False}
                                 \/ ~Contains(c, "e")
                                 \/ Contains(c, ".") /\ InTable(SubSeq(c, e + 2, Len(c)))
          [] OTHER            -> TRUE
=============================================================================
