----------------------------- MODULE ComplexTest -----------------------------
(***************************************************************************)
(* The functions of tests/e2e/complex_test.py, the Python fixture the     *)
(* debugger steps through: fibonacci(n), Calculator.factorial(n) and       *)
(* process_people(people).  Each call runs one loop iteration, recursive   *)
(* call or return per step (the stops of a debugger stepping through it),  *)
(* and its result is compared with a reference definition of what the     *)
(* function computes.                                                      *)
(***************************************************************************)
EXTENDS Naturals, Sequences, SequencesExt

CONSTANTS
    MaxN,       \* largest fibonacci argument tried
    Ages,       \* ages a Person may have
    MaxPeople   \* longest people list tried

ASSUME ComplexTestAssumption ==
    /\ MaxN \in Nat
    /\ Ages \subseteq Nat
    /\ MaxPeople \in Nat

VARIABLES
    call,     \* the function being run: "idle", "fib", "fact", "unwind" or "people"
    fn,       \* fibonacci: its argument n
    i,        \* fibonacci: the loop variable; process_people: next index
    a, b,     \* fibonacci: the two running values
    people,   \* process_people: the argument, a list of ages
    adults,   \* process_people: indices of adults, in list order
    minors,   \* process_people: indices of minors, in list order
    fibRet,   \* history: {<<n, fibonacci(n)>>} of the last fibonacci call
    frames,   \* factorial: the arguments of the active calls, outermost first
    acc,      \* factorial: the value the innermost finished call returned
    pplRet,   \* history: {<<people, process_people(people)>>}, likewise
    factRet   \* history: {<<n, factorial(n)>>}, likewise

vars == <<call, fn, i, a, b, people, adults, minors, frames, acc, fibRet,
          pplRet, factRet>>

\* Reference: the Fibonacci numbers, fib(0) = 0, fib(1) = 1.
FibRef[k \in Nat] == IF k <= 1 THEN k ELSE FibRef[k - 1] + FibRef[k - 2]

\* Reference: n!, the product 1 * ... * n.
FactRef[k \in Nat] == IF k = 0 THEN 1 ELSE k * FactRef[k - 1]

\* Person.is_adult: age >= 18.
IsAdult(age) == age >= 18

\* process_people's dict: the names of adults and minors, and the total.
PeopleResult(ad, mi, total) == [adults |-> ad, minors |-> mi, total |-> total]

\* Reference: the adults and minors of a list, each in list order.
PeopleRef(p) ==
    LET idx == [k \in 1..Len(p) |-> k]
    IN  PeopleResult(SelectSeq(idx, LAMBDA k : IsAdult(p[k])),
                     SelectSeq(idx, LAMBDA k : ~IsAdult(p[k])), Len(p))

Init ==
    /\ call = "idle"
    /\ fn = 0 /\ i = 0 /\ a = 0 /\ b = 0
    /\ people = <<>> /\ adults = <<>> /\ minors = <<>>
    /\ frames = <<>> /\ acc = 0
    /\ fibRet = {} /\ pplRet = {} /\ factRet = {}

(***************************************************************************)
(* fibonacci(n), complex_test.py lines 43-50.                              *)
(***************************************************************************)
\* The call: `if n <= 1: return n`, else `a, b = 0, 1` and the loop
\* `for i in range(2, n + 1)` starts at 2.
FibCall ==
    /\ call = "idle"
    /\ \E n \in 0..MaxN :
          /\ fn' = n
          /\ IF n <= 1
                THEN fibRet' = {<<n, n>>} /\ UNCHANGED <<call, i, a, b>>
                ELSE /\ call' = "fib" /\ i' = 2 /\ a' = 0 /\ b' = 1
                     /\ UNCHANGED fibRet
    /\ UNCHANGED <<people, adults, minors, pplRet, frames, acc, factRet>>

\* Mutant of FibIterate: the loop runs `range(2, n)`.
FibIterateShort ==
    /\ call = "fib"
    /\ IF i <= fn - 1
          THEN a' = b /\ b' = a + b /\ i' = i + 1 /\ UNCHANGED <<call, fibRet>>
          ELSE call' = "idle" /\ fibRet' = {<<fn, b>>} /\ UNCHANGED <<i, a, b>>
    /\ UNCHANGED <<fn, people, adults, minors, pplRet, frames, acc, factRet>>

\* One iteration `a, b = b, a + b`, or the loop's end and `return b`.
FibIterate ==
    /\ call = "fib"
    /\ IF i <= fn
          THEN a' = b /\ b' = a + b /\ i' = i + 1 /\ UNCHANGED <<call, fibRet>>
          ELSE call' = "idle" /\ fibRet' = {<<fn, b>>} /\ UNCHANGED <<i, a, b>>
    /\ UNCHANGED <<fn, people, adults, minors, pplRet, frames, acc, factRet>>

(***************************************************************************)
(* Calculator.factorial(n), complex_test.py lines 36-40: one call or one   *)
(* return per step, the steps a debugger's step-into and step-out take.    *)
(***************************************************************************)
FactCall ==
    /\ call = "idle"
    /\ \E n \in 0..MaxN : frames' = <<n>>
    /\ call' = "fact"
    /\ UNCHANGED <<fn, i, a, b, people, adults, minors, acc, fibRet, pplRet,
                   factRet>>

\* The innermost call: `if n <= 1: return 1`, or the recursive call on n - 1.
FactDescend ==
    /\ call = "fact"
    /\ LET n == frames[Len(frames)] IN
          IF n <= 1 THEN call' = "unwind" /\ acc' = 1 /\ UNCHANGED frames
                    ELSE frames' = Append(frames, n - 1) /\ UNCHANGED <<call, acc>>
    /\ UNCHANGED <<fn, i, a, b, people, adults, minors, fibRet, pplRet, factRet>>

\* The innermost finished call returns acc to its caller, which returns
\* `n * acc`; the outermost one returns to the script.
FactUnwind ==
    /\ call = "unwind"
    /\ IF Len(frames) = 1
          THEN /\ factRet' = {<<frames[1], acc>>} /\ call' = "idle"
               /\ frames' = <<>> /\ UNCHANGED acc
          ELSE /\ acc' = frames[Len(frames) - 1] * acc
               /\ frames' = Front(frames) /\ UNCHANGED <<call, factRet>>
    /\ UNCHANGED <<fn, i, a, b, people, adults, minors, fibRet, pplRet>>

(***************************************************************************)
(* process_people(people), complex_test.py lines 18-19 and 53-68.          *)
(***************************************************************************)
PeopleCall ==
    /\ call = "idle"
    /\ \E p \in BoundedSeq(Ages, MaxPeople) :
          people' = p /\ adults' = <<>> /\ minors' = <<>> /\ i' = 1
    /\ call' = "people"
    /\ UNCHANGED <<fn, a, b, fibRet, pplRet, frames, acc, factRet>>

\* Mutant of PeopleIterate: is_adult tests `age > 18`.
PeopleIterateStrict ==
    /\ call = "people"
    /\ IF i <= Len(people)
          THEN /\ IF people[i] > 18
                     THEN adults' = Append(adults, i) /\ UNCHANGED minors
                     ELSE minors' = Append(minors, i) /\ UNCHANGED adults
               /\ i' = i + 1 /\ UNCHANGED <<call, pplRet>>
          ELSE /\ call' = "idle"
               /\ pplRet' = {<<people, PeopleResult(adults, minors, Len(people))>>}
               /\ UNCHANGED <<i, adults, minors>>
    /\ UNCHANGED <<fn, a, b, people, fibRet, frames, acc, factRet>>

\* Mutant of PeopleIterate: appends the person, not the person's name.
PeopleIterateAppendsPerson ==
    /\ call = "people"
    /\ IF i <= Len(people)
          THEN /\ IF IsAdult(people[i])
                     THEN adults' = Append(adults, people[i]) /\ UNCHANGED minors
                     ELSE minors' = Append(minors, people[i]) /\ UNCHANGED adults
               /\ i' = i + 1 /\ UNCHANGED <<call, pplRet>>
          ELSE /\ call' = "idle"
               /\ pplRet' = {<<people, PeopleResult(adults, minors, Len(people))>>}
               /\ UNCHANGED <<i, adults, minors>>
    /\ UNCHANGED <<fn, a, b, people, fibRet, frames, acc, factRet>>

\* One iteration of `for person in people` (a name is its index), or the
\* loop's end and the returned dict.
PeopleIterate ==
    /\ call = "people"
    /\ IF i <= Len(people)
          THEN /\ IF IsAdult(people[i])
                     THEN adults' = Append(adults, i) /\ UNCHANGED minors
                     ELSE minors' = Append(minors, i) /\ UNCHANGED adults
               /\ i' = i + 1 /\ UNCHANGED <<call, pplRet>>
          ELSE /\ call' = "idle"
               /\ pplRet' = {<<people, PeopleResult(adults, minors, Len(people))>>}
               /\ UNCHANGED <<i, adults, minors>>
    /\ UNCHANGED <<fn, a, b, people, fibRet, frames, acc, factRet>>

Next ==
    \/ FibCall \/ FibIterate \/ FactCall \/ FactDescend \/ FactUnwind
    \/ PeopleCall \/ PeopleIterate

\* A script may call the functions any number of times; none is forced.
Spec == Init /\ [][Next]_vars

(***************************************************************************)
(* Properties                                                              *)
(***************************************************************************)
TypeOK ==
    /\ call \in {"idle", "fib", "fact", "unwind", "people"}
    /\ fn \in 0..MaxN
    /\ i \in 0..(MaxN + MaxPeople + 1) /\ a \in Nat /\ b \in Nat
    /\ people \in BoundedSeq(Ages, MaxPeople)
    /\ adults \in Seq(1..MaxPeople) /\ minors \in Seq(1..MaxPeople)
    /\ frames \in Seq(0..MaxN) /\ acc \in Nat

\* Every value fibonacci returns is the Fibonacci number of its argument
\* (the loop runs `range(2, n + 1)`: one off and it returns a neighbour),
\* every value factorial returns is n! (0! and 1! come from the base case),
\* and every dict process_people returns splits the list into its adults
\* and its minors, in list order, with the right total (the age 18 is an
\* adult's).
ResultsCorrect ==
    /\ \A r \in fibRet : r[2] = FibRef[r[1]]
    /\ \A r \in factRet : r[2] = FactRef[r[1]]
    /\ \A r \in pplRet : r[2] = PeopleRef(r[1])

=============================================================================
