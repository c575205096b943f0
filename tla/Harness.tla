------------------------------- MODULE Harness -------------------------------
(***************************************************************************)
(* The end-to-end test runner src/tests/e2e/run_tests.py driving the       *)
(* debugger daemon of DebuggerDaemon.  One process runs main(): it checks  *)
(* the debugger binary, creates one config directory, runs the five        *)
(* scenarios in order (C, Rust, Python, Go, the complex Python app) and    *)
(* removes the directory in a `finally` before choosing the exit code.     *)
(* Each CLI call is one step; the debuggee's steps interleave with them.   *)
(***************************************************************************)
EXTENDS DebuggerDaemon, Integers, Sequences

CONSTANTS
    RecursionHits   \* times the complex app reaches its breakpoint

\* The scenarios of main(), in the order it runs them.
Scen == {"c", "rs", "py", "go", "cx"}
Following == [c |-> "rs", rs |-> "py", py |-> "go", go |-> "cx"]

ASSUME HarnessAssumption ==
    /\ RecursionHits \in 1..MaxHits
    /\ Scen \subseteq Targets

\* Host capabilities and files main() depends on.
Tools == {"debugger", "gcc", "rustc", "go", "debugpy", "dlv"}
Files == {"pyfile", "gofile", "cxfile"}
Compiler == [c |-> "gcc", rs |-> "rustc", go |-> "go"]

\* The stdin script of test_complex_python (lines 244-254).
Script == <<"break", "continue", "continue", "bt", "locals",
            "remove", "continue", "await", "output">>

VARIABLES
    pc,         \* where main() / test_program / test_complex_python is
    cur,        \* the scenario being run
    failed,     \* main()'s `failed`
    raised,     \* an exception is propagating out of the try block
    exitCode,   \* the process exit status, -1 while running
    verdict,    \* history: what each scenario came to
    idx,        \* next line of the complex app's stdin script
    seen,       \* "Complex App Finished" is in that CLI call's stdout
    cfg,        \* the temporary config directory
    present,    \* tools installed on the host (fixed for a run)
    files       \* fixture files that exist

harnessVars == <<pc, cur, failed, raised, exitCode, verdict, idx, seen,
                 cfg, present, files>>
vars == <<harnessVars, daemonVars>>

Labels == {"main", "enter", "pyfile", "compile", "stop", "start", "bpadd",
           "cont1", "await1", "threads", "locals", "cont2", "await2",
           "output", "cxstop", "cxstart", "batch", "cxcheck", "cleanup",
           "done"}

\* The steps of a scenario that talk to the session it started.
SessionSteps == {"bpadd", "cont1", "await1", "threads", "locals", "cont2",
                 "await2", "output", "batch", "cxcheck"}

TypeOK ==
    /\ DaemonTypeOK
    /\ pc \in Labels
    /\ cur \in Scen
    /\ failed \in BOOLEAN
    /\ raised \in BOOLEAN
    /\ exitCode \in {-1, 0, 1}
    /\ verdict \in [Scen -> {"none", "pass", "fail", "skip"}]
    /\ idx \in 1..Len(Script)
    /\ seen \in BOOLEAN
    /\ cfg \in {"absent", "present", "removed"}
    /\ present \subseteq Tools
    /\ files \subseteq Files

Init ==
    /\ DaemonInit
    /\ pc = "main"
    /\ cur = "c"
    /\ failed = FALSE
    /\ raised = FALSE
    /\ exitCode = -1
    /\ verdict = [s \in Scen |-> "none"]
    /\ idx = 1
    /\ seen = FALSE
    /\ cfg = "absent"
    /\ present \in SUBSET Tools
    /\ files \in SUBSET Files

(***************************************************************************)
(* Scenario bookkeeping: test_program / test_complex_python return, main() *)
(* records the result and moves on to the next scenario or the `finally`.  *)
(***************************************************************************)
\* Mutant of Finish: `failed = not test_program(...)` overwrites the flag.
FinishOverwrite(v) ==
    /\ verdict' = [verdict EXCEPT ![cur] = v]
    /\ failed' = (v = "fail")
    /\ pc' = IF cur = "cx" THEN "cleanup" ELSE "enter"
    /\ cur' = IF cur = "cx" THEN cur ELSE Following[cur]

Finish(v) ==
    /\ verdict' = [verdict EXCEPT ![cur] = v]
    /\ failed' = (failed \/ v = "fail")
    /\ pc' = IF cur = "cx" THEN "cleanup" ELSE "enter"
    /\ cur' = IF cur = "cx" THEN cur ELSE Following[cur]

\* Go on to `next` when the CLI call succeeded, else `return False`.
OnResult(ok, next) ==
    IF ok THEN pc' = next /\ UNCHANGED <<verdict, failed, cur>>
          ELSE Finish("fail")

(***************************************************************************)
(* main()                                                                  *)
(***************************************************************************)
\* setup_config(): a fresh temporary directory holding the config file.
SetupConfig == cfg' = "present"

\* Lines 283-288: exit 1 without a debugger binary, else setup_config().
Main ==
    /\ pc = "main"
    /\ IF "debugger" \in present
          THEN /\ SetupConfig /\ pc' = "enter"
               /\ UNCHANGED exitCode
          ELSE /\ exitCode' = 1 /\ pc' = "done"
               /\ UNCHANGED cfg
    /\ UNCHANGED <<cur, failed, raised, verdict, idx, seen, present, files,
                   daemonVars>>

\* check_debugpy() / check_delve(): the tool runs, i.e. is installed.
Probe(tool) == tool \in present

\* The capability probes of main() before each scenario.
EnterScenario ==
    /\ pc = "enter"
    /\ CASE cur \in {"c", "rs"} ->
              pc' = "compile" /\ UNCHANGED <<verdict, failed, cur>>
         [] cur = "py" ->
              IF Probe("debugpy")
                 THEN pc' = "pyfile" /\ UNCHANGED <<verdict, failed, cur>>
                 ELSE Finish("skip")
         [] cur = "go" ->
              IF Probe("dlv") /\ "gofile" \in files
                 THEN pc' = "compile" /\ UNCHANGED <<verdict, failed, cur>>
                 ELSE Finish("skip")
         [] cur = "cx" ->
              CASE ~Probe("debugpy") -> Finish("skip")
                [] "cxfile" \notin files -> Finish("fail")
                [] OTHER -> pc' = "cxstop" /\ UNCHANGED <<verdict, failed, cur>>
    /\ UNCHANGED <<raised, exitCode, idx, seen, cfg, present, files,
                   daemonVars>>

\* Lines 308-322: create hello_world.py when missing; open() may raise.
WritePyFile ==
    /\ pc = "pyfile"
    /\ \/ /\ "pyfile" \in files
          /\ pc' = "compile" /\ UNCHANGED <<files, raised>>
       \/ /\ "pyfile" \notin files
          /\ files' = files \cup {"pyfile"}
          /\ pc' = "compile" /\ UNCHANGED raised
       \/ /\ "pyfile" \notin files
          /\ raised' = TRUE /\ pc' = "cleanup" /\ UNCHANGED files
    /\ UNCHANGED <<cur, failed, exitCode, verdict, idx, seen, cfg, present,
                   daemonVars>>

\* Lines 107-115: compile, or use the source of an interpreted target.  A
\* compiler that is missing raises FileNotFoundError, one that fails
\* raises CalledProcessError; both are caught and return False.
Compile ==
    /\ pc = "compile"
    /\ IF cur = "py"
          THEN pc' = "stop" /\ UNCHANGED <<verdict, failed, cur>>
          ELSE \E built \in BOOLEAN :
                  /\ built => Compiler[cur] \in present
                  /\ OnResult(built, "stop")
    /\ UNCHANGED <<raised, exitCode, idx, seen, cfg, present, files,
                   daemonVars>>

(***************************************************************************)
(* test_program: one CLI call per step.                                    *)
(***************************************************************************)
Unchanged == UNCHANGED <<raised, exitCode, idx, seen, cfg, present, files>>

\* Line 120: stop any stale session; the result is ignored.
StopStale ==
    /\ pc = "stop"
    /\ \E ok \in BOOLEAN : Stop(ok)
    /\ pc' = "start"
    /\ UNCHANGED <<verdict, failed, cur>> /\ Unchanged

\* Mutant of StartSession: a failed start is not noticed.
StartIgnoringFailure ==
    /\ pc = "start"
    /\ \E ok \in BOOLEAN : Start(cur, 1, ok)
    /\ pc' = "bpadd"
    /\ UNCHANGED <<verdict, failed, cur>> /\ Unchanged

\* Lines 124-131.
StartSession ==
    /\ pc = "start"
    /\ \E ok \in BOOLEAN : Start(cur, 1, ok) /\ OnResult(ok, "bpadd")
    /\ Unchanged

\* Lines 135-138: breakpoint at main.
SetBreakpoint ==
    /\ pc = "bpadd"
    /\ \E ok \in BOOLEAN : AddBreakpoint(ok) /\ OnResult(ok, "cont1")
    /\ Unchanged

\* Lines 142-145: continue from the entry stop.
ContinueFromEntry ==
    /\ pc = "cont1"
    /\ \E ok \in BOOLEAN : Continue(ok) /\ OnResult(ok, "await1")
    /\ Unchanged

\* Lines 149-151: wait for the breakpoint stop.
AwaitBreakpoint ==
    /\ pc = "await1"
    /\ \E ok \in BOOLEAN : Await(ok) /\ OnResult(ok, "threads")
    /\ Unchanged

\* Lines 155-156: list threads; the result is only logged.
Threads ==
    /\ pc = "threads"
    /\ \E ok \in BOOLEAN : Inspect(ok)
    /\ pc' = "locals"
    /\ UNCHANGED <<verdict, failed, cur>> /\ Unchanged

\* Lines 160-166: locals must succeed; missing x/y is only a warning.
Locals ==
    /\ pc = "locals"
    /\ \E ok \in BOOLEAN : Inspect(ok) /\ OnResult(ok, "cont2")
    /\ Unchanged

\* Lines 170-171: continue to the end.
ContinueToFinish ==
    /\ pc = "cont2"
    /\ \E ok \in BOOLEAN : Continue(ok) /\ OnResult(ok, "await2")
    /\ Unchanged

\* Lines 175-176: wait for exit; a failed await is tolerated.
AwaitExit ==
    /\ pc = "await2"
    /\ \E ok \in BOOLEAN : Await(ok)
    /\ pc' = "output"
    /\ UNCHANGED <<verdict, failed, cur>> /\ Unchanged

\* Mutant of CheckOutput: passes on the exit status of `output` alone.
CheckOutputOkOnly ==
    /\ pc = "output"
    /\ \E ok \in BOOLEAN :
          /\ Output(ok)
          /\ Finish(IF ok THEN "pass" ELSE "fail")
    /\ Unchanged

\* Lines 181-190: settle delay, `output`, substring check.  The delay does
\* not order the step after FlushOutput: nothing in the model ties them.
\* The check reads the CLI's stdout whatever its exit status, but a failed
\* `output` call prints no buffer, so the line is only found when `ok`.
CheckOutput ==
    /\ pc = "output"
    /\ \E ok \in BOOLEAN :
          /\ Output(ok)
          /\ Finish(IF ok /\ OutputHas(cur) THEN "pass" ELSE "fail")
    /\ Unchanged

(***************************************************************************)
(* test_complex_python                                                     *)
(***************************************************************************)
\* Line 203.
CxStop ==
    /\ pc = "cxstop"
    /\ \E ok \in BOOLEAN : Stop(ok)
    /\ pc' = "cxstart"
    /\ UNCHANGED <<verdict, failed, cur>> /\ Unchanged

\* Lines 206-208.
CxStart ==
    /\ pc = "cxstart"
    /\ \E ok \in BOOLEAN : Start(cur, RecursionHits, ok) /\ OnResult(ok, "batch")
    /\ Unchanged

\* One line of the stdin script as the interactive CLI runs it.
Exec(cmd, ok) ==
    CASE cmd = "break"    -> AddBreakpoint(ok)
      [] cmd = "continue" -> Continue(ok)
      [] cmd \in {"bt", "locals"} -> Inspect(ok)
      [] cmd = "remove"   -> RemoveAllBreakpoints(ok)
      [] cmd = "await"    -> Await(ok)
      [] cmd = "output"   -> Output(ok)

\* Mutant of BatchStep: the script index runs one past the end.
BatchStepOffByOne ==
    /\ pc = "batch"
    /\ \E ok \in BOOLEAN :
          /\ Exec(Script[idx], ok)
          /\ seen' = (seen \/ (Script[idx] = "output" /\ ok /\ OutputHas(cur)))
    /\ idx' = idx + 1
    /\ pc' = IF idx = Len(Script) THEN "cxcheck" ELSE "batch"
    /\ UNCHANGED <<verdict, failed, cur, raised, exitCode, cfg, present, files>>

\* Lines 244-256: the CLI reads the script line by line; a failing line
\* does not stop it.  Whatever `output` prints goes to the same stdout.
BatchStep ==
    /\ pc = "batch"
    /\ \E ok \in BOOLEAN :
          /\ Exec(Script[idx], ok)
          /\ seen' = (seen \/ (Script[idx] = "output" /\ ok /\ OutputHas(cur)))
    /\ idx' = IF idx = Len(Script) THEN idx ELSE idx + 1
    /\ pc' = IF idx = Len(Script) THEN "cxcheck" ELSE "batch"
    /\ UNCHANGED <<verdict, failed, cur, raised, exitCode, cfg, present, files>>

\* Lines 259-265.
CxCheck ==
    /\ pc = "cxcheck"
    /\ Finish(IF seen THEN "pass" ELSE "fail")
    /\ UNCHANGED daemonVars /\ Unchanged

(***************************************************************************)
(* The `finally` and the exit status (lines 346-354).                      *)
(***************************************************************************)
Cleanup ==
    /\ pc = "cleanup"
    /\ cfg' = "removed"
    /\ exitCode' = IF raised \/ failed THEN 1 ELSE 0
    /\ pc' = "done"
    /\ UNCHANGED <<cur, failed, raised, verdict, idx, seen, present, files,
                   daemonVars>>

\* The process has exited; the daemon and its debuggee may live on.
Terminated == pc = "done" /\ UNCHANGED vars

HarnessStep ==
    \/ Main \/ EnterScenario \/ WritePyFile \/ Compile
    \/ StopStale \/ StartSession \/ SetBreakpoint \/ ContinueFromEntry
    \/ AwaitBreakpoint \/ Threads \/ Locals \/ ContinueToFinish
    \/ AwaitExit \/ CheckOutput
    \/ CxStop \/ CxStart \/ BatchStep \/ CxCheck
    \/ Cleanup

DebuggeeStep == Debuggee /\ UNCHANGED harnessVars

Next == HarnessStep \/ DebuggeeStep \/ Terminated

\* The harness is one process the OS keeps scheduling; the debuggee may
\* hang, so it gets no fairness.
Spec == Init /\ [][Next]_vars /\ WF_vars(HarnessStep)

(***************************************************************************)
(* Properties                                                              *)
(***************************************************************************)

\* A scenario the harness reports as passed really ran: its own debuggee
\* wrote the expected line, and (test_program only) its own debuggee
\* stopped at the breakpoint.  This is what the `return False` after the
\* start and locals calls and the substring check of `output` buy.
SoundPass ==
    \A s \in Scen : verdict[s] = "pass" =>
        /\ s \in printed
        /\ s # "cx" => s \in stoppedAt

\* Once a scenario has started its session, every later CLI call of that
\* scenario is served by that session and not by one an earlier scenario
\* left behind in the shared runtime directory.
Ownership ==
    pc \in SessionSteps => sess.st # "none" /\ sess.owner = cur

\* The process exit status is 1 exactly when the binary was missing, an
\* exception escaped the try block, or some scenario failed; skipped
\* scenarios do not count (spec 4.6, 6).
ExitCodeFaithful ==
    pc = "done" =>
        (exitCode = 1 <=> \/ "debugger" \notin present
                          \/ raised
                          \/ \E s \in Scen : verdict[s] = "fail")

\* The harness always gets to its `finally` and exits, even when a
\* debuggee hangs: every blocking call is bounded by a timeout (spec 5).
Termination == <>(pc = "done" /\ cfg # "present")

\* Spec 3 and 4.1: a scenario runs in an environment of its own, so none
\* finds a session left by another when it issues its first `stop`.
NoLeakedSession ==
    pc \in {"stop", "cxstop"} => sess.st = "none"

\* Spec 2 (the isolated environment is fully removed, socket directory
\* included, before the process exits) and spec 6 (teardown through a
\* scoped cleanup): when main() has run its `finally` and exits, no
\* daemon session of the removed runtime directory is still alive.
TornDownAtExit ==
    pc = "done" => sess.st = "none"

\* Spec 4.2 and 8: a scenario whose toolchain is absent from the host is
\* skipped, never failed.
Needs == [c |-> {"gcc"}, rs |-> {"rustc"}, py |-> {"debugpy"},
          go |-> {"dlv", "go"}, cx |-> {"debugpy"}]

ToolchainAbsentSkips ==
    \A s \in Scen : ~(Needs[s] \subseteq present) => verdict[s] # "fail"

=============================================================================
