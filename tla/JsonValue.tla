------------------------------ MODULE JsonValue ------------------------------
(***************************************************************************)
(* The recursive-descent JSON parser of task 3 (class JsonValue).          *)
(*                                                                         *)
(* A text is a sequence of symbols.  A symbol is one character, except     *)
(* that "space" is any whitespace character, a numeral is a maximal run of *)
(* the characters parseNumber accepts, and a run of ordinary characters    *)
(* inside a string is one symbol.  A string value is a sequence of symbols. *)
(***************************************************************************)
EXTENDS Integers, Sequences, FiniteSetsExt, TLC

CONSTANTS
    Numerals,     \* the numerals of the texts
    stod,         \* the value, times Unit, of those that std::stod accepts
    Unit          \* fractions are multiples of 1 / Unit

ASSUME NumeralAssumption ==
    Unit \in Nat \ {0} /\ DOMAIN stod \subseteq Numerals /\ \A n \in DOMAIN stod : stod[n] \in Int

\* A value has every member; the accessors do not look at the type.
Null == [type |-> "Null", object |-> <<>>, string |-> <<>>, number |-> 0, bool |-> FALSE]
makeObject(members) == [Null EXCEPT !.type = "Object", !.object = members]
makeString(s) == [Null EXCEPT !.type = "String", !.string = s]
makeNumber(n) == [Null EXCEPT !.type = "Number", !.number = n]
makeBool(b) == [Null EXCEPT !.type = "Bool", !.bool = b]

has(v, key) == key \in DOMAIN v.object

\* static_cast<long>, which truncates towards zero.
asLong(v) == IF v.number >= 0 THEN v.number \div Unit ELSE -(-v.number \div Unit)

\* insert() is an emplace: the member that is already there stays.
insertLast(key, v, later) == later @@ (key :> v)
insert(key, v, later) == (key :> v) @@ later

-----------------------------------------------------------------------------
(* Every parsing function returns its value and the position after it, or  *)
(* throws.  Then passes the result on, or the exception.                   *)

Thrown == [ok |-> FALSE, value |-> Null, pos |-> 0]
Parsed(v, p) == [ok |-> TRUE, value |-> v, pos |-> p]
Then(result, Continue(_)) == IF result.ok THEN Continue(result) ELSE Thrown

skipWhitespace(text, p) ==
    Min({q \in p .. Max({p, Len(text) + 1}) : q > Len(text) \/ text[q] # "space"})

peek(text, p, c) ==
    LET q == skipWhitespace(text, p) IN q <= Len(text) /\ text[q] = c

expectAtEnd(text, p, c) ==
    IF skipWhitespace(text, p) > Len(text) \/ peek(text, p, c)
    THEN Parsed(Null, skipWhitespace(text, p) + 1) ELSE Thrown
expect(text, p, c) ==
    IF peek(text, p, c) THEN Parsed(Null, skipWhitespace(text, p) + 1) ELSE Thrown

Escaped(c) == CASE c = "n" -> "newline" [] c = "t" -> "tab" [] OTHER -> c

parseString(text, p) ==
    LET Prepend(c, rest) == IF rest.ok THEN [rest EXCEPT !.value.string = <<c>> \o @] ELSE Thrown
        characters[q \in Nat] ==
            IF q > Len(text) THEN Thrown
            ELSE IF text[q] = "quote" THEN Parsed(makeString(<<>>), q + 1)
            ELSE IF text[q] = "backslash" /\ q < Len(text)
                 THEN Prepend(Escaped(text[q + 1]), characters[q + 2])
            ELSE Prepend(text[q], characters[q + 1])
    IN  Then(expect(text, p, "quote"), LAMBDA open : characters[open.pos])

parseNumber(text, p) ==
    IF text[p] \in DOMAIN stod THEN Parsed(makeNumber(stod[text[p]]), p + 1) ELSE Thrown

StartsWith(text, p, word) ==
    p + Len(word) - 1 <= Len(text) /\ SubSeq(text, p, p + Len(word) - 1) = word

parseBool(text, p) ==
    IF StartsWith(text, p, <<"t", "r", "u", "e">>) THEN Parsed(makeBool(TRUE), p + 4)
    ELSE IF StartsWith(text, p, <<"f", "a", "l", "s", "e">>) THEN Parsed(makeBool(FALSE), p + 5)
    ELSE Thrown

\* parseValue at a position, and the loop of parseObject from the key at a position.
\* An n is taken for null without looking at the next three characters.  What follows
\* the top-level value is not looked at.
parse(text) ==
    LET parser[what \in {"value", "members"}, p \in Nat] ==
          IF what = "members" THEN
            Then(parseString(text, p), LAMBDA key :
            Then(expect(text, key.pos, ":"), LAMBDA colon :
            Then(parser["value", colon.pos], LAMBDA val :
              IF peek(text, val.pos, ",")
              THEN Then(parser["members", skipWhitespace(text, val.pos) + 1], LAMBDA rest :
                     Parsed(makeObject(insert(key.value.string, val.value, rest.value.object)),
                            rest.pos))
              ELSE Then(expect(text, val.pos, "}"), LAMBDA close :
                     Parsed(makeObject(insert(key.value.string, val.value, <<>>)), close.pos)))))
          ELSE LET q == skipWhitespace(text, p)
               IN  CASE q > Len(text) -> Thrown
                     [] q <= Len(text) /\ text[q] = "{" ->
                          IF peek(text, q + 1, "}")
                          THEN Parsed(makeObject(<<>>), skipWhitespace(text, q + 1) + 1)
                          ELSE parser["members", q + 1]
                     [] q <= Len(text) /\ text[q] = "quote" -> parseString(text, q)
                     [] q <= Len(text) /\ text[q] \in {"t", "f"} -> parseBool(text, q)
                     [] q <= Len(text) /\ text[q] = "n" -> Parsed(Null, q + 4)
                     [] OTHER -> parseNumber(text, q)
    IN  parser["value", 1]
=============================================================================
