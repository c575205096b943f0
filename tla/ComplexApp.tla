----------------------------- MODULE ComplexApp -----------------------------
(***************************************************************************)
(* The debuggee of the harness's complex scenario: tests/complex_app,      *)
(* main.py and scenarios.py, run without a debugger attached.  The main    *)
(* thread runs the sub-tests its mode selects, in the order main() calls   *)
(* them; run_threads() starts two worker threads and joins them.  Output   *)
(* lines are abstract tokens, and `hits` counts how often each             *)
(* BREAKPOINT_MARKER line is executed: the lines a debugger stops at.      *)
(***************************************************************************)
EXTENDS Naturals, Sequences, SequencesExt

CONSTANT Depth   \* the argument of recursive_depth in main() (10)

ASSUME ComplexAppAssumption == Depth \in Nat

\* sys.argv[1], or "all" without one; any other word selects no sub-test.
Modes == {"all", "recursion", "data", "threads", "exception", "other"}

Markers == {"recursion_step", "large_data_done", "thread_work",
            "threads_started", "catch_exception"}

VARIABLES
    mode,    \* the mode main() read from argv
    mpc,     \* where the main thread is
    n,       \* the argument of the innermost recursive_depth call
    wpc,     \* where each worker thread is
    out,     \* the process's stdout, one token per line
    hits     \* how often each marker line ran

vars == <<mode, mpc, n, wpc, out, hits>>

\* t1 and t2 of run_threads(), by start (and join) order.
WorkerIds == 1..2

MainLabels == {"start", "recursion", "data", "threads", "join1", "join2",
               "exception", "finish", "done"}

WorkerLabels == {"new", "starting", "sleeping", "working", "done"}

\* A line of stdout: the thread that printed it (0 for the main thread)
\* and what it says.
MainThread == 0

AppFinished == <<MainThread, "app_finished">>

Lines == ({MainThread} \X {"app_start", "run_recursion", "run_data",
                           "run_threads", "threads_finished",
                           "run_exception", "caught", "app_finished"})
         \cup (WorkerIds \X {"starting", "working"})

TypeOK ==
    /\ mode \in Modes
    /\ mpc \in MainLabels
    /\ n \in 0..Depth
    /\ wpc \in [WorkerIds -> WorkerLabels]
    /\ out \in Seq(Lines)
    /\ hits \in [Markers -> Nat]

\* `mode in [...]`: does this mode run the given sub-test?
Runs(test) == mode \in {"all", test}

Init ==
    /\ mode \in Modes
    /\ mpc = "start"
    /\ n = Depth
    /\ wpc = [w \in WorkerIds |-> "new"]
    /\ out = <<>>
    /\ hits = [m \in Markers |-> 0]

Hit(m) == hits' = [hits EXCEPT ![m] = @ + 1]

\* The sub-tests in the order main() calls them.
Order == <<"recursion", "data", "threads", "exception">>

\* Where main() goes on from the i-th `if`: the first selected sub-test
\* from there, or the final print.
NextFrom(i) ==
    LET selected == {j \in i..Len(Order) : Runs(Order[j])}
    IN  IF selected = {} THEN "finish" ELSE Order[Min(selected)]

(***************************************************************************)
(* The main thread (main.py).                                              *)
(***************************************************************************)
\* main.py lines 6-13: banner, mode, first selected sub-test.
Start ==
    /\ mpc = "start"
    /\ out' = Append(out, <<MainThread, "app_start">>)
    /\ mpc' = NextFrom(1)
    /\ UNCHANGED <<mode, n, wpc, hits>>

\* Mutant of Recurse: the base case tests `n <= 1`.
RecurseStopsEarly ==
    /\ mpc = "recursion"
    /\ IF n <= 1
          THEN /\ mpc' = NextFrom(2) /\ UNCHANGED <<n, hits>>
          ELSE /\ Hit("recursion_step") /\ n' = n - 1 /\ UNCHANGED mpc
    /\ out' = IF n = Depth THEN Append(out, <<MainThread, "run_recursion">>) ELSE out
    /\ UNCHANGED <<mode, wpc>>

\* Mutant of Recurse: the base case tests `n < 0`.
RecursePastZero ==
    /\ mpc = "recursion"
    /\ IF n < 0
          THEN /\ mpc' = NextFrom(2) /\ UNCHANGED <<n, hits>>
          ELSE /\ Hit("recursion_step") /\ n' = n - 1 /\ UNCHANGED mpc
    /\ out' = IF n = Depth THEN Append(out, <<MainThread, "run_recursion">>) ELSE out
    /\ UNCHANGED <<mode, wpc>>

\* recursive_depth(n), one call per step: the base case returns "bottom"
\* and the whole call chain unwinds; otherwise the marker line runs and
\* the call recurses on n - 1.
Recurse ==
    /\ mpc = "recursion"
    /\ IF n <= 0
          THEN /\ mpc' = NextFrom(2) /\ UNCHANGED <<n, hits>>
          ELSE /\ Hit("recursion_step") /\ n' = n - 1 /\ UNCHANGED mpc
    /\ out' = IF n = Depth THEN Append(out, <<MainThread, "run_recursion">>) ELSE out
    /\ UNCHANGED <<mode, wpc>>

\* create_large_data(): no thread, no output; its marker line runs once.
LargeData ==
    /\ mpc = "data"
    /\ out' = Append(out, <<MainThread, "run_data">>)
    /\ Hit("large_data_done")
    /\ mpc' = NextFrom(3)
    /\ UNCHANGED <<mode, n, wpc>>

\* run_threads() up to the marker: both threads are started.
StartThreads ==
    /\ mpc = "threads"
    /\ out' = Append(out, <<MainThread, "run_threads">>)
    /\ wpc' = [w \in WorkerIds |-> "starting"]
    /\ Hit("threads_started")
    /\ mpc' = "join1"
    /\ UNCHANGED <<mode, n>>

\* Mutant of JoinFirst: t1 is not joined.
JoinFirstSkipped ==
    /\ mpc = "join1"
    /\ mpc' = "join2"
    /\ UNCHANGED <<mode, n, wpc, out, hits>>

\* t1.join(): blocks until t1 has ended.
JoinFirst ==
    /\ mpc = "join1"
    /\ wpc[1] = "done"
    /\ mpc' = "join2"
    /\ UNCHANGED <<mode, n, wpc, out, hits>>

\* t2.join(), then "Threads finished".
JoinSecond ==
    /\ mpc = "join2"
    /\ wpc[2] = "done"
    /\ out' = Append(out, <<MainThread, "threads_finished">>)
    /\ mpc' = NextFrom(4)
    /\ UNCHANGED <<mode, n, wpc, hits>>

\* exception_handler(): raise, catch, marker line, print.
Exception ==
    /\ mpc = "exception"
    /\ out' = out \o <<<<MainThread, "run_exception">>, <<MainThread, "caught">>>>
    /\ Hit("catch_exception")
    /\ mpc' = "finish"
    /\ UNCHANGED <<mode, n, wpc>>

\* main.py line 29-30.
Finish ==
    /\ mpc = "finish"
    /\ out' = Append(out, AppFinished)
    /\ mpc' = "done"
    /\ UNCHANGED <<mode, n, wpc, hits>>

(***************************************************************************)
(* thread_worker(name, distinct_sleep) in each worker thread.  The sleeps  *)
(* stagger the threads but order nothing: a worker may be delayed any time.*)
(***************************************************************************)
WorkerStart(w) ==
    /\ wpc[w] = "starting"
    /\ out' = Append(out, <<w, "starting">>)
    /\ wpc' = [wpc EXCEPT ![w] = "sleeping"]
    /\ UNCHANGED <<mode, mpc, n, hits>>

WorkerWake(w) ==
    /\ wpc[w] = "sleeping"
    /\ wpc' = [wpc EXCEPT ![w] = "working"]
    /\ Hit("thread_work")
    /\ UNCHANGED <<mode, mpc, n, out>>

WorkerWork(w) ==
    /\ wpc[w] = "working"
    /\ out' = Append(out, <<w, "working">>)
    /\ wpc' = [wpc EXCEPT ![w] = "done"]
    /\ UNCHANGED <<mode, mpc, n, hits>>

Worker(w) == WorkerStart(w) \/ WorkerWake(w) \/ WorkerWork(w)

MainStep ==
    \/ Start \/ Recurse \/ LargeData \/ StartThreads
    \/ JoinFirst \/ JoinSecond \/ Exception \/ Finish

\* The process has exited.
Exited == mpc = "done" /\ UNCHANGED vars

Next == MainStep \/ (\E w \in WorkerIds : Worker(w)) \/ Exited

\* CPython's scheduler keeps running every runnable thread and every sleep
\* ends, so each thread is weakly fair.
Spec == Init /\ [][Next]_vars /\ WF_vars(MainStep)
        /\ \A w \in WorkerIds : WF_vars(Worker(w))

(***************************************************************************)
(* Properties                                                              *)
(***************************************************************************)
\* The joins in run_threads(): "Complex App Finished" is the last line the
\* process prints, so no worker thread outlives main() and prints after it.
\* The harness's cx scenario reads this line as "the whole app ran".
FinishedIsLast ==
    [][(AppFinished \in ToSet(out)) => out' = out]_vars

\* The recursion_step marker line runs exactly Depth times per run that
\* selects the recursion test: the number of breakpoint stops a debugger
\* reports there, which the harness's complex script assumes is at least 2.
RecursionStops ==
    mpc = "done" => hits["recursion_step"] = IF Runs("recursion") THEN Depth ELSE 0

=============================================================================
