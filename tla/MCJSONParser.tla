---------------------------- MODULE MCJSONParser ----------------------------
EXTENDS JSONParser

\* String characters that parse_string handles differently: a plain one,
\* and the quote, backslash and newline that are written escaped.
MCChars == {"a", "\"", "\\", "\n"}

Scalars ==
    {JStr(s) : s \in BoundedSeq(MCChars, 3)}
    \cup {JInt(n) : n \in {0, 7, -12, 305}}
    \cup {JLit(x) : x \in {"True", "False", "None"}}

Few == {JStr(<<"\"">>), JInt(-12), JLit("None")}

Keys == {<<"a">>, <<"\"">>}

Containers ==
    {JArr(s) : s \in BoundedSeq(Few, 2)}
    \cup UNION {{JObj(m) : m \in [K -> Few]} : K \in SUBSET Keys}

\* Containers inside containers: three nested parse_value calls.
Nested ==
    {JArr(<<c>>) : c \in Containers}
    \cup {JObj([k \in {<<"a">>} |-> c]) : c \in Containers}

MCValues == Scalars \cup Containers \cup Nested

\* Every value, serialised, with the value it should parse back to.
MCTestCases == {<<Encode(v), v>> : v \in MCValues}

\* The values above nest three deep; one more call would exceed the limit.
MCMaxNesting == 3

\* Every text of up to four characters over the structural characters.
MCMalformed == {<<t, NoValue>> : t \in BoundedSeq({"{", "}", "\"", ":", "1", ","}, 4)}

=============================================================================
