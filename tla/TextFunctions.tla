---------------------------- MODULE TextFunctions ----------------------------
(***************************************************************************)
(* The built-in functions on texts (formula_functions.cpp).  A text is a   *)
(* sequence of bytes of UTF-8, and the functions count characters: they    *)
(* work on the byte positions that calc_utf8_byte_positions() gives.       *)
(*                                                                         *)
(* An argument list is a sequence; the code pops it from its end, and what *)
(* a function does first decides which failure the caller sees.            *)
(***************************************************************************)
EXTENDS StackValues

(* What is computed after the conversions rs, in this order, or the first  *)
(* failure among them.                                                     *)
After(rs, v) == IF \E k \in DOMAIN rs : Failed(rs[k]) THEN FirstFailure(rs) ELSE v

InvalidValue == ErrorOf("invalid_value_type")

Floor(q)    == q[1] \div q[2]
Truncate(q) == IF q[1] < 0 THEN -(Size(q[1]) \div q[2]) ELSE q[1] \div q[2]
Number(n)   == Value(<< n, 1 >>)

Least(m, n) == IF m < n THEN m ELSE n

-----------------------------------------------------------------------------
(* UTF-8                                                                   *)

(* The bytes of the character that starts with byte c.                     *)
ByteLength(c) ==
    CASE c < 128         -> 1
      [] c \in 192..223  -> 2
      [] c \in 224..239  -> 3
      [] c \in 240..243  -> 4
      [] OTHER           -> 0

(* As if a character were a byte.                                          *)
EveryByte(s) == [k \in DOMAIN s |-> k]

(* Where the characters of s start.  A byte no character starts with ends  *)
(* the walk with an exception.                                             *)
BytePositions(s) ==
    LET From[k \in 1..(Len(s) + 4)] ==
            IF k > Len(s) THEN << >>
            ELSE IF ByteLength(s[k]) = 0 THEN << 0 >>
            ELSE << k >> \o From[k + ByteLength(s[k])]
    IN  From[1]

(* pop_string() and the positions in what it gives.                        *)
CharactersIn(t, positions) ==
    IF \E k \in DOMAIN positions : positions[k] = 0 THEN Escaped
    ELSE [type |-> "characters", text |-> t.text, positions |-> positions]
WithPositions(t) == After(<< t >>, CharactersIn(t, BytePositions(t.text)))
Characters(v) == WithPositions(Textual(v))

(* The byte before which the first n characters end.                       *)
StartOf(c, n) == IF n < Len(c.positions) THEN c.positions[n + 1] ELSE Len(c.text) + 1

Leading(c, n)  == SubSeq(c.text, 1, StartOf(c, n) - 1)
Trailing(c, n) == SubSeq(c.text, StartOf(c, n), Len(c.text))

-----------------------------------------------------------------------------
(* Parts of a text                                                         *)

LengthOf(c) == After(<< c >>, Number(Len(c.positions)))
Length(args) == IF Len(args) # 1 THEN Escaped ELSE LengthOf(Characters(args[1]))

(* The number of characters LEFT and RIGHT are asked for.                  *)
Wanted(args) == IF Len(args) = 2 THEN Numeric(args[2]) ELSE Number(1)

LeftOf(n, c) ==
    After(<< n >>, IF Floor(n.number) < 0 THEN InvalidValue
                   ELSE After(<< c >>, Text(Leading(c, Floor(n.number)))))
Left(args) ==
    IF Len(args) \notin 1..2 THEN Escaped ELSE LeftOf(Wanted(args), Characters(args[1]))

(* RIGHT of no character does not look at the text.                        *)
RightOf(n, c) ==
    After(<< n >>,
      IF Floor(n.number) < 0 THEN InvalidValue
      ELSE IF Floor(n.number) = 0 THEN Text(<< >>)
      ELSE After(<< c >>, IF Len(c.positions) <= Floor(n.number) THEN Text(c.text)
                          ELSE Text(Trailing(c, Len(c.positions) - Floor(n.number)))))
Right(args) ==
    IF Len(args) \notin 1..2 THEN Escaped ELSE RightOf(Wanted(args), Characters(args[1]))

MidOf(c, start, len) ==
    After(<< len, start >>,
      IF Floor(len.number) < 0 \/ Floor(start.number) < 1 THEN InvalidValue
      ELSE After(<< c >>,
        IF Floor(start.number) > Len(c.positions) THEN Text(<< >>)
        ELSE Text(SubSeq(c.text, c.positions[Floor(start.number)],
                         StartOf(c, Floor(start.number) - 1 + Floor(len.number)) - 1))))
Mid(args) ==
    IF Len(args) # 3 THEN Escaped
    ELSE MidOf(Characters(args[1]), Numeric(args[2]), Numeric(args[3]))

(* "count" characters from the one at "start" on make way for a text.      *)
ReplaceOf(c, start, count, new) ==
    LET from == Least(Floor(start.number) - 1, Len(c.positions))
        to   == from + Least(Floor(count.number), Len(c.positions) - from)
    IN  After(<< new, count, start >>,
          IF Floor(count.number) < 0 \/ Floor(start.number) < 1 THEN InvalidValue
          ELSE After(<< c >>, Text(Leading(c, from) \o new.text \o Trailing(c, to))))
Replace(args) ==
    IF Len(args) # 4 THEN Escaped
    ELSE ReplaceOf(Characters(args[1]), Numeric(args[2]), Numeric(args[3]), Textual(args[4]))

-----------------------------------------------------------------------------
(* Looking for a text                                                      *)

(* std::string::find: the first place from "from" on, or 0.                *)
FoundAt(s, part, from) ==
    LET places == { k \in from..(Len(s) - Len(part) + 1) : SubSeq(s, k, k + Len(part) - 1) = part }
    IN  IF places = {} THEN 0 ELSE CHOOSE k \in places : \A j \in places : k <= j

(* The character FIND gives must start where the byte was found.           *)
CharacterAt(c, found) ==
    IF \E n \in DOMAIN c.positions : c.positions[n] = found
    THEN Number(CHOOSE n \in DOMAIN c.positions : c.positions[n] = found)
    ELSE InvalidValue
FindOf(part, content, c, start) ==
    After(<< start >>,
      IF Floor(start.number) < 1 THEN InvalidValue
      ELSE After(<< content, part, c >>,
             IF Floor(start.number) > Len(c.positions) THEN InvalidValue
             ELSE CharacterAt(c, FoundAt(c.text, part.text, c.positions[Floor(start.number)]))))
Find(args) ==
    IF Len(args) \notin 2..3 THEN Escaped
    ELSE FindOf(Textual(args[1]), Textual(args[2]), Characters(args[2]),
                IF Len(args) = 3 THEN Numeric(args[3]) ELSE Number(1))

(* The loop of SUBSTITUTE from byte "from" on, "seen" occurrences before   *)
(* it; "which" is 0 for all of them.                                       *)
Substitution(s, old, new, which) ==
    LET Rest[from \in 1..(Len(s) + 1), seen \in 0..Len(s)] ==
            LET found == FoundAt(s, old, from)
                here  == IF which \in {0, seen + 1} THEN new ELSE old
            IN  IF found = 0 THEN SubSeq(s, from, Len(s))
                ELSE SubSeq(s, from, found - 1) \o here \o Rest[found + Len(old), seen + 1]
    IN  Rest[1, 0]

(* With nothing to look for the loop finds it at the same place for ever.  *)
SubstituteOf(content, old, new, which) ==
    After(<< new, old, content >>,
      IF old.text = << >> THEN Endless
      ELSE Text(Substitution(content.text, old.text, new.text, which)))
Substitute(args) ==
    CASE Len(args) = 3 -> SubstituteOf(Textual(args[1]), Textual(args[2]), Textual(args[3]), 0)
      [] Len(args) = 4 ->
           After(<< Numeric(args[4]) >>,
             IF Floor(Numeric(args[4]).number) < 1 THEN InvalidValue
             ELSE SubstituteOf(Textual(args[1]), Textual(args[2]), Textual(args[3]),
                               Floor(Numeric(args[4]).number)))
      [] OTHER -> Escaped

-----------------------------------------------------------------------------
(* Building a text                                                         *)

ConcatenationOf(texts) ==
    After(SX!Reverse(texts), Text(SX!FlattenSeq([i \in DOMAIN texts |-> texts[i].text])))
Concatenate(args) == ConcatenationOf([i \in DOMAIN args |-> Textual(args[i])])

ExactOf(l, r) == After(<< r, l >>, Boolean(l.text = r.text))
Exact(args) == IF Len(args) # 2 THEN Escaped ELSE ExactOf(Textual(args[1]), Textual(args[2]))

RepeatOf(s, n) ==
    After(<< n >>, IF Truncate(n.number) < 0 THEN InvalidValue
                   ELSE After(<< s >>, Text(SX!FlattenSeq([i \in 1..Truncate(n.number) |-> s.text]))))
Repeat(args) == IF Len(args) # 2 THEN Escaped ELSE RepeatOf(Textual(args[1]), Numeric(args[2]))

(* The words of a text, with one space between them.                       *)
Joined(words, delimiter) ==
    SX!FoldLeft(LAMBDA s, k : s \o (IF k = 1 THEN << >> ELSE delimiter) \o words[k],
             << >>, [k \in DOMAIN words |-> k])

(* TRIM keeps the head of the word it is in, 0 between words.              *)
Words(s) ==
    LET step(w, k) ==
            CASE s[k] = 32 /\ w.head # 0 ->
                    [head |-> 0, words |-> Append(w.words, SubSeq(s, w.head, k - 1))]
              [] s[k] # 32 /\ w.head = 0 -> [w EXCEPT !.head = k]
              [] OTHER -> w
        last == SX!FoldLeft(step, [head |-> 0, words |-> << >>], EveryByte(s))
    IN  IF last.head = 0 THEN last.words ELSE Append(last.words, SubSeq(s, last.head, Len(s)))

TrimOf(t) == After(<< t >>, Text(Joined(Words(t.text), << 32 >>)))
Trim(args) ==
    IF Len(args) # 1 THEN Escaped
    ELSE TrimOf(Textual(args[1]))

TextOrNothing(args) ==
    LET content(a) == Text(IF Cells[a].content.type = "string" THEN Cells[a].content.text ELSE << >>)
    IN  CASE Len(args) # 1 -> Escaped
          [] Len(args) = 1 /\ args[1].type = "string" -> args[1]
          [] Len(args) = 1 /\ args[1].type = "single_ref" -> content(args[1].address)
          [] Len(args) = 1 /\ args[1].type = "range_ref" -> content(args[1].range[1][1])
          [] OTHER -> Text(<< >>)

=============================================================================
