--------------------------- MODULE ComplexAppProofs ---------------------------
(***************************************************************************)
(* Proofs about ComplexApp for every recursion depth: the recursion        *)
(* marker line runs exactly Depth times (RecursionStops), and nothing is   *)
(* printed after "Complex App Finished" (FinishedIsLast).                  *)
(***************************************************************************)
EXTENDS ComplexApp, TLAPS

\* The labels main() reaches after recursive_depth has returned.
AfterRecursion == {"data", "threads", "join1", "join2", "exception",
                   "finish", "done"}

(***************************************************************************)
(* What RecursionStops rests on.                                           *)
(***************************************************************************)
\* Each call of recursive_depth that did not return at once ran the
\* marker line once; a run that skips the recursion test never recurses;
\* past the recursion the innermost call had n = 0.
RecursionCount ==
    /\ hits["recursion_step"] = Depth - n
    /\ mpc = "recursion" => Runs("recursion")
    /\ ~Runs("recursion") => n = Depth
    /\ mpc \in AfterRecursion /\ Runs("recursion") => n = 0

RecInv == TypeOK /\ RecursionCount

(***************************************************************************)
(* What FinishedIsLast rests on.                                           *)
(***************************************************************************)
\* Before run_threads() the workers do not exist; after it (or when it is
\* not selected) each has ended or never started; t1 has ended once main()
\* waits for t2.
WorkersJoined ==
    /\ mpc \in {"start", "recursion", "data", "threads"} =>
          \A w \in WorkerIds : wpc[w] = "new"
    /\ mpc = "join2" => wpc[1] = "done"
    /\ mpc \in {"exception", "finish", "done"} =>
          \A w \in WorkerIds : wpc[w] \in {"new", "done"}

\* The final line is printed only by main()'s last statement.
FinishedPrinted == AppFinished \in ToSet(out) => mpc = "done"

LastInv == TypeOK /\ WorkersJoined /\ FinishedPrinted

(***************************************************************************)
(* Lemmas about the operators ComplexApp is built from.                    *)
(***************************************************************************)
\* A nonempty set of sub-test positions has a least element.
LEMMA MinOfPositions ==
    ASSUME NEW S \in SUBSET (1..4), S # {}
    PROVE  Min(S) \in S /\ \A y \in S : Min(S) <= y
<1>1. \E x \in S : \A y \in S : x <= y
  <2>1. CASE 1 \in S  BY <2>1
  <2>2. CASE 1 \notin S /\ 2 \in S  BY <2>2
  <2>3. CASE 1 \notin S /\ 2 \notin S /\ 3 \in S  BY <2>3
  <2>4. CASE 1 \notin S /\ 2 \notin S /\ 3 \notin S
    <3>1. PICK e \in S : TRUE  OBVIOUS
    <3>2. e = 4 /\ \A y \in S : y = 4  BY <2>4
    <3>. QED  BY <3>1, <3>2
  <2>. QED  BY <2>1, <2>2, <2>3, <2>4
<1>. QED  BY <1>1 DEF Min

\* Where main() goes after its i-th `if`: a sub-test or the final print,
\* the recursion test only from the first `if`, and always when selected.
LEMMA NextFromFacts ==
    ASSUME NEW i \in 1..4
    PROVE  /\ NextFrom(i) \in {"recursion", "data", "threads", "exception",
                               "finish"}
           /\ NextFrom(i) = "recursion" => i = 1 /\ Runs("recursion")
           /\ i = 1 /\ Runs("recursion") => NextFrom(i) = "recursion"
           /\ i = 4 => NextFrom(i) \in {"exception", "finish"}
<1> DEFINE sel == {j \in i..Len(Order) : Runs(Order[j])}
<1>0. Len(Order) = 4 /\ Order[1] = "recursion" /\ Order[2] = "data"
      /\ Order[3] = "threads" /\ Order[4] = "exception"
  BY DEF Order
<1>1. CASE sel = {}
  <2>1. NextFrom(i) = "finish"  BY <1>1 DEF NextFrom
  <2>2. ~(i = 1 /\ Runs("recursion"))  BY <1>0, <1>1
  <2>. QED  BY <2>1, <2>2
<1>2. CASE sel # {}
  <2> DEFINE k == Min(sel)
  <2>1. sel \in SUBSET (1..4)  BY <1>0
  <2>2. k \in sel /\ \A y \in sel : k <= y  BY <1>2, <2>1, MinOfPositions
  <2>3. NextFrom(i) = Order[k]  BY <1>2 DEF NextFrom
  <2>4. k \in i..4 /\ Runs(Order[k])  BY <1>0, <2>2
  <2>5. NextFrom(i) = "recursion" => k = 1
    <3>1. \A j \in 1..4 : Order[j] = "recursion" => j = 1  BY <1>0
    <3>2. k \in 1..4  BY <2>4
    <3>. QED  BY <2>3, <3>1, <3>2
  <2>6. i = 1 /\ Runs("recursion") => k = 1  BY <1>0, <2>2, <2>4
  <2>7. i = 4 => k = 4  BY <2>4
  <2>. QED  BY <1>0, <2>3, <2>4, <2>5, <2>6, <2>7
<1>. QED  BY <1>1, <1>2

\* Printing a line adds it to what stdout holds.
LEMMA ToSetAppend ==
    ASSUME NEW S, NEW s \in Seq(S), NEW x
    PROVE  ToSet(Append(s, x)) = ToSet(s) \cup {x}
BY DEF ToSet

\* exception_handler() prints two lines.
LEMMA ToSetConcat2 ==
    ASSUME NEW S, NEW s \in Seq(S), NEW x, NEW y
    PROVE  ToSet(s \o <<x, y>>) = ToSet(s) \cup {x, y}
BY DEF ToSet

(***************************************************************************)
(* Type correctness.                                                       *)
(***************************************************************************)
\* The marker count of one line goes up by one.
LEMMA HitTyped ==
    ASSUME hits \in [Markers -> Nat], NEW m \in Markers, Hit(m)
    PROVE  hits' \in [Markers -> Nat]
BY DEF Hit

LEMMA TypeStep == TypeOK /\ [Next]_vars => TypeOK'
<1> SUFFICES ASSUME TypeOK, [Next]_vars PROVE TypeOK'
  OBVIOUS
<1> USE DEF TypeOK
<1>0. \A i \in 1..4 : NextFrom(i) \in MainLabels
  BY NextFromFacts DEF MainLabels
<1>1. CASE Start
  BY <1>0, <1>1 DEF Start, Lines, MainThread
<1>2. CASE Recurse
  <2>1. CASE n <= 0  BY <1>0, <1>2, <2>1 DEF Recurse, Lines, MainThread
  <2>2. CASE ~(n <= 0)
    <3>1. hits' \in [Markers -> Nat]  BY <1>2, <2>2, HitTyped DEF Recurse, Markers
    <3>2. n' \in 0..Depth  BY <1>2, <2>2, ComplexAppAssumption DEF Recurse
    <3>3. out' \in Seq(Lines)  BY <1>2 DEF Recurse, Lines, MainThread
    <3>. QED  BY <1>2, <2>2, <3>1, <3>2, <3>3 DEF Recurse
  <2>. QED  BY <2>1, <2>2
<1>3. CASE LargeData
  <2>1. hits' \in [Markers -> Nat]  BY <1>3, HitTyped DEF LargeData, Markers
  <2>. QED  BY <1>0, <1>3, <2>1 DEF LargeData, Lines, MainThread
<1>4. CASE StartThreads
  <2>1. hits' \in [Markers -> Nat]  BY <1>4, HitTyped DEF StartThreads, Markers
  <2>. QED  BY <1>4, <2>1 DEF StartThreads, Lines, MainThread, MainLabels,
                              WorkerLabels
<1>5. CASE JoinFirst
  BY <1>5 DEF JoinFirst, MainLabels
<1>6. CASE JoinSecond
  BY <1>0, <1>6 DEF JoinSecond, Lines, MainThread
<1>7. CASE Exception
  <2>1. hits' \in [Markers -> Nat]  BY <1>7, HitTyped DEF Exception, Markers
  <2>2. out' \in Seq(Lines)  BY <1>7 DEF Exception, Lines, MainThread
  <2>. QED  BY <1>7, <2>1, <2>2 DEF Exception, MainLabels
<1>8. CASE Finish
  BY <1>8 DEF Finish, AppFinished, Lines, MainThread, MainLabels
<1>9. CASE \E w \in WorkerIds : Worker(w)
  <2>1. PICK w \in WorkerIds : Worker(w)  BY <1>9
  <2>2. CASE WorkerStart(w)
    BY <2>1, <2>2 DEF WorkerStart, Lines, WorkerLabels, WorkerIds
  <2>3. CASE WorkerWake(w)
    <3>1. hits' \in [Markers -> Nat]  BY <2>3, HitTyped DEF WorkerWake, Markers
    <3>. QED  BY <2>3, <3>1 DEF WorkerWake, WorkerLabels
  <2>4. CASE WorkerWork(w)
    BY <2>1, <2>4 DEF WorkerWork, Lines, WorkerLabels, WorkerIds
  <2>. QED  BY <2>1, <2>2, <2>3, <2>4 DEF Worker
<1>10. CASE Exited \/ UNCHANGED vars
  BY <1>10 DEF Exited, vars
<1>. QED
  BY <1>1, <1>2, <1>3, <1>4, <1>5, <1>6, <1>7, <1>8, <1>9, <1>10
  DEF Next, MainStep

\* The main thread and the workers stay within their labels, the output
\* within the lines the code prints, for every recursion depth.
THEOREM TypeCorrect == Spec => []TypeOK
<1>1. Init => TypeOK
  BY ComplexAppAssumption DEF Init, TypeOK, MainLabels, WorkerLabels
<1>. QED  BY <1>1, TypeStep, PTL DEF Spec

(***************************************************************************)
(* RecursionStops.                                                         *)
(***************************************************************************)
\* Any other marker line leaves the recursion count alone.
LEMMA HitOther ==
    ASSUME hits \in [Markers -> Nat], NEW m \in Markers \ {"recursion_step"},
           Hit(m)
    PROVE  hits'["recursion_step"] = hits["recursion_step"]
BY DEF Hit, Markers

LEMMA RecStep == RecInv /\ [Next]_vars => RecursionCount'
<1> SUFFICES ASSUME RecInv, [Next]_vars PROVE RecursionCount'
  OBVIOUS
<1>0. TypeOK /\ RecursionCount  BY DEF RecInv
\* A step past the recursion, or one of a worker, that keeps n and the
\* recursion count.
<1>a. ASSUME mode' = mode, n' = n,
             hits'["recursion_step"] = hits["recursion_step"],
             \/ mpc' = mpc
             \/ mpc \in AfterRecursion /\ mpc' \in AfterRecursion
      PROVE  RecursionCount'
  BY <1>0, <1>a DEF RecursionCount, Runs, AfterRecursion
<1>1. CASE Start
  <2>1. mpc = "start" /\ mpc' = NextFrom(1) /\ UNCHANGED <<mode, n, hits>>
    BY <1>1 DEF Start
  <2>2. /\ mpc' = "recursion" => Runs("recursion")
        /\ Runs("recursion") => mpc' \notin AfterRecursion
    BY <2>1, NextFromFacts DEF AfterRecursion
  <2>. QED  BY <1>0, <2>1, <2>2 DEF RecursionCount, Runs
<1>2. CASE Recurse
  <2>0. mpc = "recursion" /\ UNCHANGED mode  BY <1>2 DEF Recurse
  <2>1. Runs("recursion")  BY <1>0, <2>0 DEF RecursionCount
  <2>2. CASE n <= 0
    <3>1. n = 0 /\ mpc' = NextFrom(2) /\ UNCHANGED <<n, hits>>
      BY <1>0, <1>2, <2>2 DEF Recurse, TypeOK
    <3>2. mpc' \in AfterRecursion  BY <3>1, NextFromFacts DEF AfterRecursion
    <3>. QED  BY <1>0, <2>0, <3>1, <3>2 DEF RecursionCount, Runs, AfterRecursion
  <2>3. CASE ~(n <= 0)
    <3>1. mpc' = mpc /\ n' = n - 1
          /\ hits'["recursion_step"] = hits["recursion_step"] + 1
      BY <1>0, <1>2, <2>3 DEF Recurse, Hit, TypeOK, Markers
    <3>. QED  BY <1>0, <2>0, <2>1, <3>1, ComplexAppAssumption
              DEF RecursionCount, Runs, TypeOK, AfterRecursion
  <2>. QED  BY <2>2, <2>3
<1>3. CASE LargeData \/ StartThreads \/ Exception
  <2>1. \E m \in Markers \ {"recursion_step"} : Hit(m)
    BY <1>3 DEF LargeData, StartThreads, Exception, Markers
  <2>2. hits'["recursion_step"] = hits["recursion_step"]
    BY <1>0, <2>1, HitOther DEF TypeOK
  <2>3. mpc \in AfterRecursion /\ mpc' \in AfterRecursion
    BY <1>3, NextFromFacts DEF LargeData, StartThreads, Exception, AfterRecursion
  <2>. QED  BY <1>3, <2>2, <2>3, <1>a DEF LargeData, StartThreads, Exception
<1>4. CASE JoinFirst \/ JoinSecond \/ Finish
  <2>1. mpc \in AfterRecursion /\ mpc' \in AfterRecursion
    BY <1>4, NextFromFacts DEF JoinFirst, JoinSecond, Finish, AfterRecursion
  <2>. QED  BY <1>4, <2>1, <1>a DEF JoinFirst, JoinSecond, Finish
<1>5. CASE \E w \in WorkerIds : Worker(w)
  <2>1. PICK w \in WorkerIds : Worker(w)  BY <1>5
  <2>2. CASE WorkerWake(w)
    <3>1. hits'["recursion_step"] = hits["recursion_step"]
      BY <1>0, <2>2, HitOther DEF WorkerWake, TypeOK, Markers
    <3>. QED  BY <2>2, <3>1, <1>a DEF WorkerWake
  <2>3. CASE WorkerStart(w) \/ WorkerWork(w)
    BY <2>3, <1>a DEF WorkerStart, WorkerWork
  <2>. QED  BY <2>1, <2>2, <2>3 DEF Worker
<1>6. CASE Exited \/ UNCHANGED vars
  BY <1>6, <1>a DEF Exited, vars
<1>. QED
  BY <1>1, <1>2, <1>3, <1>4, <1>5, <1>6 DEF Next, MainStep

\* For every recursion depth, a run of the complex app that selects the
\* recursion test executes the recursion_step marker line exactly Depth
\* times, and any other run never executes it: recursive_depth's base case
\* is `n <= 0`, so the breakpoint the harness's script sets there is hit
\* Depth times.
THEOREM RecursionStopsInvariant == Spec => []RecursionStops
<1>1. Init => RecInv
  BY ComplexAppAssumption
  DEF Init, RecInv, RecursionCount, TypeOK, MainLabels, WorkerLabels,
      AfterRecursion, Markers
<1>2. RecInv /\ [Next]_vars => RecInv'
  BY TypeStep, RecStep DEF RecInv
<1>3. RecInv => RecursionStops
  BY ComplexAppAssumption
  DEF RecInv, RecursionCount, RecursionStops, AfterRecursion, TypeOK
<1>. QED  BY <1>1, <1>2, <1>3, PTL DEF Spec

(***************************************************************************)
(* FinishedIsLast.                                                         *)
(***************************************************************************)
\* A line other than "Complex App Finished" does not make it appear.
LEMMA PrintOther ==
    ASSUME out \in Seq(Lines), AppFinished \notin ToSet(out), NEW x,
           x # AppFinished,
           \/ out' = Append(out, x)
           \/ \E y : y # AppFinished /\ out' = out \o <<x, y>>
    PROVE  AppFinished \notin ToSet(out')
<1>1. CASE out' = Append(out, x)  BY <1>1, ToSetAppend
<1>2. CASE \E y : y # AppFinished /\ out' = out \o <<x, y>>
  <2>1. PICK y : y # AppFinished /\ out' = out \o <<x, y>>  BY <1>2
  <2>. QED  BY <2>1, ToSetConcat2
<1>. QED  BY <1>1, <1>2

LEMMA LastStep == LastInv /\ [Next]_vars => WorkersJoined' /\ FinishedPrinted'
<1> SUFFICES ASSUME LastInv, [Next]_vars
             PROVE  WorkersJoined' /\ FinishedPrinted'
  OBVIOUS
<1>0. TypeOK /\ WorkersJoined /\ FinishedPrinted  BY DEF LastInv
<1>b. mpc # "done" => AppFinished \notin ToSet(out)
  BY <1>0 DEF FinishedPrinted
<1>1. CASE Start \/ Recurse \/ LargeData
  <2>1. mpc \in {"start", "recursion", "data"} /\ UNCHANGED wpc
    BY <1>1 DEF Start, Recurse, LargeData
  <2>2. mpc' \in {"recursion", "data", "threads", "exception", "finish"}
    BY <1>1, NextFromFacts DEF Start, Recurse, LargeData
  <2>3. \E x : x # AppFinished /\ (out' = Append(out, x) \/ out' = out)
    BY <1>1 DEF Start, Recurse, LargeData, AppFinished, MainThread
  <2>4. FinishedPrinted'
    BY <1>0, <1>b, <2>1, <2>3, PrintOther DEF FinishedPrinted, TypeOK
  <2>. QED  BY <1>0, <2>1, <2>2, <2>4 DEF WorkersJoined
<1>2. CASE StartThreads
  <2>1. mpc' = "join1" /\ out' = Append(out, <<MainThread, "run_threads">>)
    BY <1>2 DEF StartThreads
  <2>. QED  BY <1>0, <1>b, <1>2, <2>1, PrintOther
            DEF StartThreads, WorkersJoined, FinishedPrinted, TypeOK,
                AppFinished, MainThread
<1>3. CASE JoinFirst
  BY <1>0, <1>3 DEF JoinFirst, WorkersJoined, FinishedPrinted
<1>4. CASE JoinSecond
  <2>1. mpc = "join2" /\ wpc' = wpc /\ wpc[2] = "done"  BY <1>4 DEF JoinSecond
  <2>2. \A w \in WorkerIds : wpc[w] = "done"
    BY <1>0, <2>1 DEF WorkersJoined, WorkerIds
  <2>3. mpc' \in {"exception", "finish"}  BY <1>4, NextFromFacts DEF JoinSecond
  <2>4. out' = Append(out, <<MainThread, "threads_finished">>)
    BY <1>4 DEF JoinSecond
  <2>. QED  BY <1>0, <1>b, <2>1, <2>2, <2>3, <2>4, PrintOther
            DEF WorkersJoined, FinishedPrinted, TypeOK, AppFinished, MainThread
<1>5. CASE Exception
  <2>1. mpc = "exception" /\ mpc' = "finish" /\ wpc' = wpc
        /\ out' = out \o <<<<MainThread, "run_exception">>, <<MainThread, "caught">>>>
    BY <1>5 DEF Exception
  <2>. QED  BY <1>0, <1>b, <2>1, PrintOther
            DEF WorkersJoined, FinishedPrinted, TypeOK, AppFinished, MainThread
<1>6. CASE Finish
  BY <1>0, <1>6 DEF Finish, WorkersJoined, FinishedPrinted
<1>7. CASE \E w \in WorkerIds : Worker(w)
  <2>1. PICK w \in WorkerIds : Worker(w)  BY <1>7
  <2>2. wpc[w] \notin {"new", "done"} /\ mpc' = mpc
    BY <2>1 DEF Worker, WorkerStart, WorkerWake, WorkerWork
  <2>3. mpc \in {"join1", "join2"}
    BY <1>0, <2>2 DEF WorkersJoined, TypeOK, MainLabels
  <2>4. wpc' = [wpc EXCEPT ![w] = wpc'[w]] /\ wpc'[w] # "new"
    BY <2>1, <1>0 DEF Worker, WorkerStart, WorkerWake, WorkerWork, TypeOK
  <2>5. mpc' = "join2" => wpc'[1] = "done"
    BY <1>0, <2>2, <2>3, <2>4 DEF WorkersJoined, TypeOK, WorkerIds
  <2>6. out' = out \/ \E x \in WorkerIds \X {"starting", "working"} : out' = Append(out, x)
    BY <2>1 DEF Worker, WorkerStart, WorkerWake, WorkerWork
  <2>7. FinishedPrinted'
    BY <1>0, <1>b, <2>2, <2>3, <2>6, PrintOther
    DEF FinishedPrinted, TypeOK, AppFinished, MainThread, WorkerIds
  <2>. QED  BY <2>2, <2>3, <2>5, <2>7 DEF WorkersJoined
<1>8. CASE Exited \/ UNCHANGED vars
  BY <1>0, <1>8 DEF Exited, vars, WorkersJoined, FinishedPrinted
<1>. QED
  BY <1>1, <1>2, <1>3, <1>4, <1>5, <1>6, <1>7, <1>8 DEF Next, MainStep

\* Once "Complex App Finished" is on stdout, no thread prints again.
LEMMA LastIsLast == LastInv /\ [Next]_vars => (AppFinished \in ToSet(out) => out' = out)
<1> SUFFICES ASSUME LastInv, [Next]_vars, AppFinished \in ToSet(out)
             PROVE  out' = out
  OBVIOUS
<1>1. mpc = "done" /\ \A w \in WorkerIds : wpc[w] \in {"new", "done"}
  BY DEF LastInv, FinishedPrinted, WorkersJoined
<1>2. ~MainStep
  BY <1>1 DEF MainStep, Start, Recurse, LargeData, StartThreads, JoinFirst,
              JoinSecond, Exception, Finish
<1>3. \A w \in WorkerIds : ~Worker(w)
  BY <1>1 DEF Worker, WorkerStart, WorkerWake, WorkerWork
<1>. QED  BY <1>2, <1>3 DEF Next, Exited, vars

\* For every recursion depth and every interleaving of the two worker
\* threads, "Complex App Finished" is the last line the process prints:
\* run_threads() joins both workers before main() goes on, so no worker
\* is left to print after main()'s final line.
THEOREM FinishedIsLastProperty == Spec => FinishedIsLast
<1>1. Init => LastInv
  <2> SUFFICES ASSUME Init PROVE LastInv
    OBVIOUS
  <2>1. TypeOK  BY ComplexAppAssumption
                DEF Init, TypeOK, MainLabels, WorkerLabels
  <2>2. ToSet(out) = {}  BY DEF Init, ToSet
  <2>. QED  BY <2>1, <2>2 DEF Init, LastInv, WorkersJoined, FinishedPrinted
<1>2. LastInv /\ [Next]_vars => LastInv'
  BY TypeStep, LastStep DEF LastInv
<1>. QED  BY <1>1, <1>2, LastIsLast, PTL DEF Spec, FinishedIsLast

=============================================================================
