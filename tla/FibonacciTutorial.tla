-------------------------- MODULE FibonacciTutorial --------------------------
(***************************************************************************)
(* src/blog-tutorials/example1_fibonacci.py: fibonacci(n) with its loop    *)
(* run one iteration per step, called by main() for i in range(15) and     *)
(* once more for the verification fibonacci(10) == 55.                     *)
(***************************************************************************)
EXTENDS Naturals

VARIABLES
    mpc,      \* main(): "table" (the range(15) loop), "verify" or "done"
    mi,       \* main(): the loop variable i
    call,     \* fibonacci: "idle" or "loop"
    arg,      \* fibonacci: its argument n
    k,        \* fibonacci: iterations of `for i in range(n)` done so far
    prev,
    curr,
    rets,     \* history: {<<n, fibonacci(n)>>} of every call so far
    verdict   \* what the verification printed: "none", "PASS" or "FAIL"

vars == <<mpc, mi, call, arg, k, prev, curr, rets, verdict>>

\* main()'s loop bound and the argument it verifies.
TableSize == 15
Probe == 10

\* Reference: the Fibonacci numbers, fib(0) = 0, fib(1) = 1.
FibRef[j \in Nat] == IF j <= 1 THEN j ELSE FibRef[j - 1] + FibRef[j - 2]

Init ==
    /\ mpc = "table" /\ mi = 0
    /\ call = "idle" /\ arg = 0 /\ k = 0 /\ prev = 0 /\ curr = 0
    /\ rets = {} /\ verdict = "none"

\* Mutant of Return: main()'s table loop runs range(16).
ReturnOffByOne(n, r) ==
    /\ call' = "idle"
    /\ rets' = rets \cup {<<n, r>>}
    /\ IF mpc = "table"
          THEN /\ mi' = mi + 1
               /\ mpc' = IF mi + 1 <= TableSize THEN "table" ELSE "verify"
               /\ UNCHANGED verdict
          ELSE /\ mpc' = "done"
               /\ verdict' = IF r = 55 THEN "PASS" ELSE "FAIL"
               /\ UNCHANGED mi

\* fibonacci(n) returns r to main(): the table loop prints it and goes on
\* (lines 32-34), the verification compares it with 55 (lines 38-42).
Return(n, r) ==
    /\ call' = "idle"
    /\ rets' = rets \cup {<<n, r>>}
    /\ IF mpc = "table"
          THEN /\ mi' = mi + 1
               /\ mpc' = IF mi + 1 < TableSize THEN "table" ELSE "verify"
               /\ UNCHANGED verdict
          ELSE /\ mpc' = "done"
               /\ verdict' = IF r = 55 THEN "PASS" ELSE "FAIL"
               /\ UNCHANGED mi

\* main() calls fibonacci(i) or fibonacci(10); the two base cases return
\* at once, otherwise `prev = 0`, `curr = 1` and the loop starts.
Call ==
    /\ mpc \in {"table", "verify"} /\ call = "idle"
    /\ arg' = IF mpc = "table" THEN mi ELSE Probe
    /\ IF arg' <= 1
          THEN Return(arg', arg') /\ UNCHANGED <<k, prev, curr>>
          ELSE /\ call' = "loop" /\ k' = 0 /\ prev' = 0 /\ curr' = 1
               /\ UNCHANGED <<mpc, mi, rets, verdict>>

\* Mutant of Iterate: the loop runs range(n - 1), as the comment says it
\* should.
IterateFixed ==
    /\ call = "loop"
    /\ IF k < arg - 1
          THEN /\ prev' = curr /\ curr' = prev + curr /\ k' = k + 1
               /\ UNCHANGED <<mpc, mi, call, rets, verdict>>
          ELSE Return(arg, curr) /\ UNCHANGED <<k, prev, curr>>
    /\ UNCHANGED arg

\* One iteration of `for i in range(n)`: next_val = prev + curr, prev =
\* curr, curr = next_val; after n of them, `return curr`.
Iterate ==
    /\ call = "loop"
    /\ IF k < arg
          THEN /\ prev' = curr /\ curr' = prev + curr /\ k' = k + 1
               /\ UNCHANGED <<mpc, mi, call, rets, verdict>>
          ELSE Return(arg, curr) /\ UNCHANGED <<k, prev, curr>>
    /\ UNCHANGED arg

\* The program has exited.
Exited == mpc = "done" /\ UNCHANGED vars

Next == Call \/ Iterate \/ Exited

Spec == Init /\ [][Next]_vars

(***************************************************************************)
(* Properties                                                              *)
(***************************************************************************)
TypeOK ==
    /\ mpc \in {"table", "verify", "done"} /\ mi \in 0..TableSize
    /\ call \in {"idle", "loop"} /\ arg \in 0..(TableSize - 1)
    /\ k \in Nat /\ prev \in Nat /\ curr \in Nat
    /\ rets \subseteq (0..(TableSize - 1)) \X Nat
    /\ verdict \in {"none", "PASS", "FAIL"}

\* What the loop `for i in range(n)` really computes: one iteration too
\* many, so every n >= 2 returns the (n+1)-th Fibonacci number, while the
\* two base cases are right; the verification then prints FAIL (89).
ReturnsNext ==
    /\ \A r \in rets : r[2] = IF r[1] <= 1 THEN r[1] ELSE FibRef[r[1] + 1]
    /\ mpc = "done" => verdict = "FAIL"

=============================================================================
