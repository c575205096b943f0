----------------------------- MODULE JSONParser -----------------------------
(***************************************************************************)
(* src/blog-tutorials/example3_json_parser.py: the recursive-descent      *)
(* JSONParser, each method an operator over (text, pos) that returns       *)
(* either [val, pos] or the exception it raises, [err, pos]; a `while`     *)
(* loop is a recursive helper.  Text is a sequence of one-character       *)
(* strings.  test_json_parser() is the state machine: it parses one test   *)
(* case per step, catches ParseError, and dies of any other exception.     *)
(***************************************************************************)
EXTENDS Naturals, Integers, Sequences, SequencesExt

CONSTANTS
    TestCases,    \* pairs <<text, value it should parse to, or NoValue>>
    NoValue,
    MaxNesting    \* parse_value calls nested before Python's recursion limit

ASSUME JSONParserAssumption == MaxNesting \in Nat

VARIABLES
    text,     \* the test case's json_text
    sent,     \* the value the case should parse to, or NoValue
    res,      \* what parser.parse() returned or raised
    status    \* "running", or "crashed" once an exception escaped

vars == <<text, sent, res, status>>

(***************************************************************************)
(* Python values: distinct field names keep the kinds apart.               *)
(***************************************************************************)
JStr(s) == [str |-> s]            \* s: a sequence of characters
JInt(n) == [int |-> n]
JFloat(m, e) == [float |-> <<m, e>>]   \* m / 10^e, as float() reads it
JArr(s) == [arr |-> s]
JObj(m) == [obj |-> m]            \* m: a function from keys to values
JLit(x) == [lit |-> x]            \* True, False or None

Ok(v, p) == [val |-> v, pos |-> p]
Raise(kind, p) == [err |-> kind, pos |-> p]
Failed(r) == "err" \in DOMAIN r

Whitespace == {" ", "\t", "\n", "\r"}
DigitVal == [c \in {"0", "1", "2", "3", "4", "5", "6", "7", "8", "9"} |->
                CHOOSE d \in 0..9 : <<"0", "1", "2", "3", "4", "5", "6", "7",
                                      "8", "9">>[d + 1] = c]
IsDigit(c) == c \in DOMAIN DigitVal

\* self.text[self.pos], pos counted from 0.
At(t, p) == t[p + 1]

\* int(num_str) of a run of digits.
DigitsValue(s) == FoldLeft(LAMBDA acc, c : 10 * acc + DigitVal[c], 0, s)

\* Mutant of Unescape: the `elif escape_char == 'n'` case is missing.
UnescapeNoNewline(c) ==
    CASE c = "t"  -> "\t"
      [] c = "r"  -> "\r"
      [] c = "\\" -> "\\"
      [] OTHER    -> c

\* The character an escape `\c` stands for (the `else` keeps c itself).
Unescape(c) ==
    CASE c = "n"  -> "\n"
      [] c = "t"  -> "\t"
      [] c = "r"  -> "\r"
      [] c = "\\" -> "\\"
      [] OTHER    -> c

RECURSIVE SkipWhitespace(_, _), DigitsEnd(_, _), ParseValue(_, _, _),
          ParseString(_, _), StringLoop(_, _, _), ParseObject(_, _, _),
          ObjectLoop(_, _, _, _), ParseArray(_, _, _), ArrayLoop(_, _, _, _)

SkipWhitespace(t, p) ==
    IF p < Len(t) /\ At(t, p) \in Whitespace THEN SkipWhitespace(t, p + 1) ELSE p

\* `while self.pos < len(self.text) and self.text[self.pos].isdigit()`.
DigitsEnd(t, p) == IF p < Len(t) /\ IsDigit(At(t, p)) THEN DigitsEnd(t, p + 1) ELSE p

ParseLiteral(t, p, lit, v) ==
    IF SubSeq(t, p + 1, IF p + Len(lit) < Len(t) THEN p + Len(lit) ELSE Len(t)) = lit
       THEN Ok(v, p + Len(lit))
       ELSE Raise("ParseError", p)

ParseNumber(t, p) ==
    LET p1 == IF At(t, p) = "-" THEN p + 1 ELSE p
        p2 == DigitsEnd(t, p1)
        p3 == IF p2 < Len(t) /\ At(t, p2) = "." THEN DigitsEnd(t, p2 + 1) ELSE p2
        sign == IF p1 = p THEN 1 ELSE -1
        whole == DigitsValue(SubSeq(t, p1 + 1, p2))
        frac == SubSeq(t, p2 + 2, p3)
    IN  IF p1 >= Len(t) \/ ~IsDigit(At(t, p1)) THEN Raise("ParseError", p1)
        ELSE IF p3 = p2 THEN Ok(JInt(sign * whole), p3)
        ELSE Ok(JFloat(sign * (whole * 10^Len(frac) + DigitsValue(frac)), Len(frac)), p3)

ParseValue(t, p, d) ==
    LET q == SkipWhitespace(t, p)
        c == At(t, q)
    IN  IF d > MaxNesting THEN Raise("RecursionError", p)
        ELSE IF q >= Len(t) THEN Raise("ParseError", q)
        ELSE CASE c = "\"" -> ParseString(t, q)
               [] c = "{"  -> ParseObject(t, q, d)
               [] c = "["  -> ParseArray(t, q, d)
               [] c = "t"  -> ParseLiteral(t, q, <<"t", "r", "u", "e">>, JLit("True"))
               [] c = "f"  -> ParseLiteral(t, q, <<"f", "a", "l", "s", "e">>, JLit("False"))
               [] c = "n"  -> ParseLiteral(t, q, <<"n", "u", "l", "l">>, JLit("None"))
               [] c = "-" \/ IsDigit(c) -> ParseNumber(t, q)
               [] OTHER -> Raise("ParseError", q)

\* parse_string reads self.text[self.pos] without checking pos first: at
\* the end of the text that is Python's IndexError, not a ParseError.
ParseString(t, p) ==
    IF p >= Len(t) THEN Raise("IndexError", p)
    ELSE IF At(t, p) # "\"" THEN Raise("ParseError", p)
    ELSE StringLoop(t, p + 1, <<>>)

\* Mutant of StringLoop: the closing quote is skipped twice.
StringLoopPastQuote(t, p, acc) ==
    IF p >= Len(t) THEN Raise("ParseError", p)
    ELSE IF At(t, p) = "\"" THEN Ok(JStr(acc), p + 2)
    ELSE IF At(t, p) = "\\"
         THEN IF p + 1 >= Len(t) THEN Raise("ParseError", p + 1)
              ELSE StringLoop(t, p + 2, Append(acc, Unescape(At(t, p + 1))))
    ELSE StringLoop(t, p + 1, Append(acc, At(t, p)))

\* `while self.pos < len(self.text)`: the closing quote ends the string; a
\* backslash takes the next character through Unescape; any other
\* character is kept.  Running off the end is "Unterminated string".
StringLoop(t, p, acc) ==
    IF p >= Len(t) THEN Raise("ParseError", p)
    ELSE IF At(t, p) = "\"" THEN Ok(JStr(acc), p + 1)
    ELSE IF At(t, p) = "\\"
         THEN IF p + 1 >= Len(t) THEN Raise("ParseError", p + 1)
              ELSE StringLoop(t, p + 2, Append(acc, Unescape(At(t, p + 1))))
    ELSE StringLoop(t, p + 1, Append(acc, At(t, p)))

\* `result[key] = value`: a later duplicate key overwrites.
Put(m, k, v) == [x \in DOMAIN m \cup {k} |-> IF x = k THEN v ELSE m[x]]

ParseObject(t, p, d) ==
    LET q == SkipWhitespace(t, p + 1) IN
    IF At(t, p) # "{" THEN Raise("ParseError", p)
    ELSE IF q < Len(t) /\ At(t, q) = "}" THEN Ok(JObj(<<>>), q + 1)
    ELSE ObjectLoop(t, q, <<>>, d)

\* One iteration of `while True`: key, ':', value, then '}' or ','.
ObjectLoop(t, p, m, d) ==
    LET k  == ParseString(t, SkipWhitespace(t, p))
        q  == SkipWhitespace(t, k.pos)
        v  == ParseValue(t, q + 1, d + 1)
        m2 == Put(m, k.val.str, v.val)
        r  == SkipWhitespace(t, v.pos)
    IN  IF Failed(k) THEN k
        ELSE IF q >= Len(t) \/ At(t, q) # ":" THEN Raise("ParseError", q)
        ELSE IF Failed(v) THEN v
        ELSE IF r >= Len(t) THEN Raise("ParseError", r)
        ELSE IF At(t, r) = "}" THEN Ok(JObj(m2), r + 1)
        ELSE IF At(t, r) = "," THEN ObjectLoop(t, r + 1, m2, d)
        ELSE Raise("ParseError", r)

ParseArray(t, p, d) ==
    LET q == SkipWhitespace(t, p + 1) IN
    IF At(t, p) # "[" THEN Raise("ParseError", p)
    ELSE IF q < Len(t) /\ At(t, q) = "]" THEN Ok(JArr(<<>>), q + 1)
    ELSE ArrayLoop(t, q, <<>>, d)

ArrayLoop(t, p, s, d) ==
    LET v == ParseValue(t, p, d + 1)
        r == SkipWhitespace(t, v.pos)
    IN  IF Failed(v) THEN v
        ELSE IF r >= Len(t) THEN Raise("ParseError", r)
        ELSE IF At(t, r) = "]" THEN Ok(JArr(Append(s, v.val)), r + 1)
        ELSE IF At(t, r) = "," THEN ArrayLoop(t, r + 1, Append(s, v.val), d)
        ELSE Raise("ParseError", r)

\* parse(): a value, then nothing but whitespace.
Parse(t) ==
    LET v == ParseValue(t, SkipWhitespace(t, 0), 1)
        q == SkipWhitespace(t, v.pos)
    IN  IF Failed(v) THEN v
        ELSE IF q < Len(t) THEN Raise("ParseError", q)
        ELSE Ok(v.val, q)

(***************************************************************************)
(* test_json_parser(): one test case per step.                             *)
(***************************************************************************)
Init == text = <<>> /\ sent = NoValue /\ res = [none |-> TRUE] /\ status = "running"

RunCase ==
    /\ status = "running"
    /\ \E c \in TestCases :
          /\ text' = c[1] /\ sent' = c[2]
          /\ res' = Parse(c[1])
          /\ status' = IF Failed(res') /\ res'.err # "ParseError"
                          THEN "crashed" ELSE "running"

Next == RunCase

Spec == Init /\ [][Next]_vars

(***************************************************************************)
(* Properties                                                              *)
(***************************************************************************)
\* Reference: json.dumps-style text of a value, with ", " and ": " as
\* separators, and a quote, backslash, newline or tab in a string escaped.
Escape(c) ==
    CASE c = "\"" -> <<"\\", "\"">>
      [] c = "\\" -> <<"\\", "\\">>
      [] c = "\n" -> <<"\\", "n">>
      [] c = "\t" -> <<"\\", "t">>
      [] OTHER    -> <<c>>

RECURSIVE Digits(_), Join(_), Encode(_)

Digits(n) ==
    LET last == <<"0", "1", "2", "3", "4", "5", "6", "7", "8", "9">>[(n % 10) + 1]
    IN  IF n < 10 THEN <<last>> ELSE Digits(n \div 10) \o <<last>>

\* The encoded items, separated by ", ".
Join(s) ==
    IF s = <<>> THEN <<>>
    ELSE IF Len(s) = 1 THEN Head(s) ELSE Head(s) \o <<",", " ">> \o Join(Tail(s))

Encode(v) ==
    CASE "str" \in DOMAIN v ->
            <<"\"">> \o FlattenSeq([i \in DOMAIN v.str |-> Escape(v.str[i])]) \o <<"\"">>
      [] "int" \in DOMAIN v ->
            IF v.int < 0 THEN <<"-">> \o Digits(-v.int) ELSE Digits(v.int)
      [] "lit" \in DOMAIN v ->
            CASE v.lit = "True" -> <<"t", "r", "u", "e">>
              [] v.lit = "False" -> <<"f", "a", "l", "s", "e">>
              [] OTHER -> <<"n", "u", "l", "l">>
      [] "arr" \in DOMAIN v ->
            <<"[">> \o Join([i \in DOMAIN v.arr |-> Encode(v.arr[i])]) \o <<"]">>
      [] "obj" \in DOMAIN v ->
            LET keys == SetToSeq(DOMAIN v.obj)
            IN  <<"{">> \o Join([i \in DOMAIN keys |->
                               Encode(JStr(keys[i])) \o <<":", " ">>
                               \o Encode(v.obj[keys[i]])]) \o <<"}">>

TypeOK ==
    /\ text \in Seq(STRING)
    /\ res = [none |-> TRUE]
       \/ (Failed(res) /\ res.err \in {"ParseError", "IndexError", "RecursionError"}
           /\ res.pos \in 0..Len(text))
       \/ (~Failed(res) /\ res.pos = Len(text))
    /\ status \in {"running", "crashed"}

\* Every text a value serialises to parses back to that value: strings
\* with escaped quotes, backslashes and newlines (the escape the comments
\* in parse_string call missing), numbers, literals, and arrays and objects
\* nested up to the recursion limit, with whitespace after separators.
RoundTrip == sent # NoValue => res = Ok(sent, Len(text))

\* test_json_parser catches only ParseError: every malformed text must
\* raise ParseError rather than another exception that ends the test run.
OnlyParseErrors == Failed(res) => res.err = "ParseError"

=============================================================================
