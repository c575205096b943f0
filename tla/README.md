# TLA+ models of the debugger-cli end-to-end harness

This directory holds TLA+ models, TLC runs and TLAPS proofs for the
end-to-end test harness of `debugger-cli` (`src/tests/e2e/run_tests.py`), the
debugger daemon it drives (modelled from `spec.md`), the Python fixtures
the harness debugs, and the five blog tutorial programs under
`src/blog-tutorials/`. Every module is written from the repository's code. The
one exception is the daemon, whose code is not under `src/`.

## The system

The harness, `run_tests.py`, is a single Python process. `main()`:

1. checks that the debugger binary exists;
2. creates one temporary config directory (`setup_config`);
3. runs five scenarios in order: C, Rust, Python, Go, and the complex Python
   app;
4. removes the directory in a `finally`;
5. exits 1 if any scenario failed.

Each scenario works like this:

- it compiles its target, if it needs to;
- it sends one CLI command per process: `stop`, `start --stop-on-entry`,
  `breakpoint add main`, `continue`, `await`, `threads`, `locals`, `continue`,
  `await`, `output`;
- it returns False at the first failing step that it checks.

The complex scenario (`test_complex_python`) works differently. It starts
`tests/complex_app/main.py`, then pipes a nine-line script into one
interactive CLI process, and checks that the output says
"Complex App Finished".

Every CLI process talks to the same daemon, a singleton per runtime
directory, and all scenarios share one runtime directory. The daemon owns
one debug session and the debuggee under it. The debuggee runs concurrently
with the harness: it reaches breakpoints, exits, and writes output that
reaches the daemon's buffer some time later.

## Modules

| Module | Models | State | Actions |
|---|---|---|---|
| `DebuggerDaemon` | daemon and debuggee (spec §4.4, §5), spec-modelled | `sess` (lifecycle `st`: none/entry/running/bp/exited, `owner`, `bp`, `hits`, `pipe`, `buf`), history `stoppedAt`, `printed` | `Stop`, `Start`, `AddBreakpoint`, `RemoveAllBreakpoints`, `Continue`, `Await`, `Inspect`, `Output` (each taking the CLI exit status `ok`), debuggee steps `HitBreakpoint`, `ProgramExit`, `FlushOutput` |
| `Harness` | `run_tests.py`: `main`, `setup_config`, the compilers, `test_program`, `test_complex_python` | `pc` (the line the harness is at), `cur` (scenario), `failed`, `raised`, `exitCode`, `verdict`, `idx`/`seen` (script progress), `cfg`, `present` (installed tools), `files` | one action per CLI call or decision of the code, named after it (`StopStale`, `StartSession`, `SetBreakpoint`, ..., `BatchStep`, `Cleanup`) |
| `HarnessProofs` | TLAPS proofs about `Harness`: types and `Ownership` | | |
| `HarnessVerdictProofs` | TLAPS proofs about `Harness`: `SoundPass`, `ExitCodeFaithful` | | |
| `ComplexApp` | `tests/complex_app/main.py`, `scenarios.py` | main-thread `mpc`, recursion argument `n`, worker threads `wpc`, stdout `out`, marker-line counts `hits` | `Start`, `Recurse`, `LargeData`, `StartThreads`, `JoinFirst`, `JoinSecond`, `Exception`, `Finish`, per worker `WorkerStart`, `WorkerWake`, `WorkerWork` |
| `ComplexAppProofs` | TLAPS proofs about `ComplexApp`: types, `RecursionStops`, `FinishedIsLast` | | |
| `ComplexTest` | `fibonacci`, `Calculator.factorial`, `process_people` of `tests/e2e/complex_test.py` | loop variables of each call, factorial's call stack `frames`, the last result of each function | `FibCall`/`FibIterate`, `FactCall`/`FactDescend`/`FactUnwind`, `PeopleCall`/`PeopleIterate` |

The blog tutorial programs are independent scripts that the harness never
runs. `spec.md` calls them intentionally buggy, their bugs being content.
Each has a module of its own:

| Module | Models | State | Actions / operators |
|---|---|---|---|
| `FibonacciTutorial` | `example1_fibonacci.py` | `main()`'s `mpc`, `mi`, `verdict`; `fibonacci`'s `arg`, `k`, `prev`, `curr`; history `rets` | `Call` (base cases included), `Iterate` (one loop iteration, or the return), `Return` (main's table loop and verification), `Exited` |
| `LinkedList` | `example2_linked_list.py` | `heap` (node objects by address, `[value, next]`), `head`, `size`, `result` | `LLAppend`, `LLRemove`, each the whole method with its pointer walk; `ToList` follows `next` from `head` as `to_list()` does |
| `AbstractList` | what the list promises: a sequence with append at the end and removal of the first occurrence | `lst`, `result` | `ListAppend`, `ListRemove` |
| `JSONParser` | `example3_json_parser.py` | `text`, `sent`, `res`, `status` of `test_json_parser` | one state step per test case (`RunCase`); each `parse_*` method is a recursive operator over `(text, pos)` returning `[val, pos]` or the exception raised, `[err, pos]` |
| `TreeTraversal` | `example3_tree_traversal.py` | `tree` (the set of root-to-node paths), `tpc`, the running loop's `queue`/`result`, each traversal's return value | `Inorder`, `Preorder` (recursive operators), `LevelCall`, `LevelStep`, `CorrectStep` (one `while queue` iteration each), `Done` |
| `ServerSimulation` | `example4_server_simulation.py` | `request_count`, `error_count`, `results` (response statuses in order) | `Handle` (one request through `handle()`, its routing and handlers), `Finished` |
| `ServerProofs` | TLAPS proofs about `ServerSimulation` | | |

How the pieces of the harness fit together:

- `Harness` EXTENDS `DebuggerDaemon`.
- Each harness step calls a daemon command, passing the exit status that
  the CLI returned. `Reply` states the rules for that status:
  - a command that is valid in the session's state succeeds;
  - an invalid command fails and has no effect;
  - a valid command may still fail by exceeding the generic request timeout
    (spec §5), and its effect may or may not then happen.
- `Await` can succeed only once the session is stopped or has exited. A
  running session's `await` can only time out.
- The interactive script of the complex scenario is the sequence `Script`.
  `Exec` maps each of its lines to a daemon command.

Data is abstracted to what the checks tell apart:

- A debuggee's output line is the `buf` flag of its own session.
- The substring check `expected in out_prog` becomes `OutputHas(cur)`: the
  buffer holds the line that the current scenario's own debuggee printed.

## Runs

| Run | Config | Expect | What it shows |
|---|---|---|---|
| `harness_safety` | `MCHarness.cfg` | pass | `TypeOK`, `SoundPass`, `Ownership`, `ExitCodeFaithful`, `Termination` (details below) |
| `leaked_session` | `MCHarness_NoLeakedSession.cfg` | violation | C's `await` times out while its program is running. `test_program` returns False, and Rust's scenario reaches its `stop` with C's session live. |
| `toolchain_skip` | `MCHarness_ToolchainAbsentSkips.cfg` | violation | On a host with only the debugger binary, scenario C fails on the missing gcc instead of being skipped. |
| `complex_app` | `MCComplexApp.cfg` | pass | `RecursionStops`: the recursion marker line runs exactly `Depth` times. `FinishedIsLast`: "Complex App Finished" is printed last, under every mode and every interleaving of the two worker threads. |
| `complex_test` | `MCComplexTest.cfg` | pass | `ResultsCorrect`: `fibonacci` and `factorial` match the reference Fibonacci and factorial functions for every n ≤ 9, and `process_people` matches a reference split into adults and minors for every list of up to 3 ages drawn from {17, 18, 30}. The run has about 4 million states and takes about a minute. |

| `teardown_at_exit` | `MCHarness_TornDownAtExit.cfg` | violation | `TornDownAtExit`: after any scenario that starts a session, `main()` runs its `finally` (`shutil.rmtree`) and exits with that session still alive. |
| `fibonacci` | `FibonacciTutorial.cfg` | pass | `ReturnsNext`: every call `main()` makes returns fib(n+1) for n ≥ 2 and the right value for 0 and 1, so the verification prints FAIL. This is the tutorial's intended off-by-one. |
| `linked_list` | `MCLinkedList.cfg` | pass | `ImplementsList`: under every sequence of appends and removes, the list `to_list()` sees implements `AbstractList`, head removal and duplicates included. |
| `json_roundtrip` | `MCJSONParser.cfg` | pass | `RoundTrip`: the serialised text of every value in a bounded set parses back to that value. The set covers strings with escaped quotes, backslashes and newlines, negative numbers, literals, and arrays and objects nested up to depth 3. |
| `json_errors` | `MCJSONParser_OnlyParseErrors.cfg` | violation | `OnlyParseErrors`: the text `{` makes `parse_object` call `parse_string` at the end of the text. Its unguarded `self.text[self.pos]` raises `IndexError`, which `test_json_parser` does not catch. |
| `tree_traversal` | `MCTreeTraversal.cfg` | pass | `TraversalsCorrect`: inorder, preorder and `level_order_correct` match reference orders defined from the paths alone. `LevelIsPreorder`: `level_order_traversal` returns exactly the preorder, on all 677 trees of depth ≤ 3. |
| `server_simulation` | `MCServerSimulation.cfg` | pass | `ErrorsCounted`: after any sequence of up to 10 requests, `error_count` equals the number of responses with status ≥ 400. |

The properties of `harness_safety`:

- `SoundPass`: a scenario is reported as passing only if its own debuggee
  printed its line, and (outside cx) stopped at the breakpoint.
- `Ownership`: every step after a successful `start` talks to the live
  session of the same scenario.
- `ExitCodeFaithful`: the exit code is 1 exactly when the binary is missing,
  an exception escaped, or some scenario failed.
- `Termination`: `main()` always ends, and the config directory is removed
  whenever it was created.

The violation runs are findings in `PROJECT.json`:

- the harness diverges from spec §3/§4.1, which says environments are
  isolated per scenario;
- it diverges from spec §4.2/§8, which says a missing toolchain skips its
  scenario;
- it diverges from spec §2, which says the environment is fully removed
  before the process exits. Removing the directory does not stop the daemon
  session that the last scenario left running;
- the JSON parser raises `IndexError` on malformed input. This is not the
  tutorial's documented bug.

The tutorials' documented bugs are intended, so they are stated as what the
code computes: `ReturnsNext` and `LevelIsPreorder`. The linked list's
documented bug is that `size` is not decremented when the head is removed.
`ImplementsList` shows that this bug leaves the visible list correct, since
`size` is not part of the refinement mapping.

The JSON parser's comments claim that an escaped quote is mishandled. The
code's `else` branch appends the escaped character itself, which is `"`, so
`RoundTrip` holds on escaped quotes.

Every property of a passing run has a mutant in `PROJECT.json`. A mutant is
a plausible bug in the code's definition, and TLC finds the property
violated under it:

- a `return False` that is ignored;
- `failed =` overwriting the flag instead of setting it;
- a scenario loop that does not stop after the last scenario;
- an output check that looks only at the exit status;
- no await timeout;
- a missing `t1.join()`;
- off-by-one recursion and loop bounds;
- `age > 18` instead of `>= 18`;
- the tutorials: the loop fixed to `range(n - 1)`, a head removal that walks
  on to the last match, a missing `\n` escape, the closing quote skipped
  twice, swapped child order, dropped `if node.left` guards, an uncounted
  admin refusal.

### Bounds

- `MCHarness`: `Targets` is the five scenarios, `MaxHits = 2` and
  `RecursionHits = 2`. `Init` ranges over every subset of the six tools and
  three fixture files, so every skip, failure and probe path happens. Each
  session can reach its breakpoint once (two hits in the complex
  scenario), which is every stop the harness's commands can use.
  - `complex_app` has recursion depth 10, yet 2 is enough here. The script
    continues only twice before `break remove --all`, so any depth of 2 or
    more behaves the same for the harness. `RecursionStops` checks the
    depth-10 count in `ComplexApp` itself.
  - The run has about 500,000 states and takes about 45 s.
- `MCComplexApp`: `Depth = 10`, taken from the code. All six modes are
  explored.
- `MCComplexTest`: `MaxN = 9`, because `main()` calls `fibonacci(0..9)`.
  Ages {17, 18, 30} straddle `is_adult`'s bound, and lists have up to 3
  people.

- `FibonacciTutorial`: the code's own constants (`range(15)`, `fib(10)`).
  It has 145 states.
- `MCLinkedList`: values {1, 2}, at most 4 node allocations. Two values
  give duplicates and misses. Four nodes allow removing the head, a middle
  node and the last node of a 3-element list after earlier removals. It
  has about 2,000 states.
- `MCJSONParser`: each value's serialisation as a test case, nesting up
  to 3. The malformed run uses every text of length ≤ 4 over
  `{ } " : 1 ,`.
- `MCTreeTraversal`: every binary tree of depth ≤ 3 (677 trees, including
  the sample tree's shape). It has about 17,000 states and takes about 30 s.
- `MCServerSimulation`: the ten requests of `generate_test_requests` plus
  edge paths (`/api/`, `/api/user/`, `/api`, `/admin/` with an empty user),
  in any order, up to 10 of them. It has about 89,000 states.

### Fairness

- `Harness`: `WF_vars(HarnessStep)`.
  - Why the harness gets weak fairness: it is one process that the OS keeps
    scheduling.
  - Why every CLI call eventually returns: each one is bounded by the
    request or await timeouts in the config that `setup_config` writes.
  - The debuggee and the daemon's output flush get no fairness. A debuggee
    may hang forever, and `Termination` must then hold through the await
    timeout alone.
- `ComplexApp`: weak fairness for the main thread and for each worker.
  CPython schedules every runnable thread, and every `time.sleep` ends.
- `ComplexTest` and the tutorial modules have no liveness property and so
  no fairness.

## Proofs (`HarnessProofs`, checked by `tlapm`)

- `TypeCorrect`: `Spec => []TypeOK`.
  - It holds for all values of the constants that satisfy
    `DaemonAssumption` (`NoTarget ∉ Targets`, `MaxHits ∈ Nat \ {0}`) and
    `HarnessAssumption` (`RecursionHits ∈ 1..MaxHits`, the scenarios are
    targets).
  - It is built from `TypeInit` and `TypeStep`. `TypeStep` has one step per
    action, resting on these lemmas:
    - `CommandTyped`, `StartTyped`, `DebuggeeTyped`: each daemon command and
      debuggee step keeps `sess` in `Session`;
    - `FinishTyped`, `OnResultTyped`: scenario bookkeeping;
    - `DaemonFrame`, `HarnessFrame`: steps that leave one side unchanged;
    - `ExecIsCommand`: each script line is a daemon command.
  - `Session` includes the constraint "a live session has an owner in
    `Targets`". The proof needs it so that `stoppedAt` and `printed` stay
    subsets of `Targets`.
- `OwnershipInvariant`: `Spec => []Ownership`.
  - `Ownership` is not inductive on its own, because its proof needs the
    types. The inductive invariant is `OwnInv == TypeOK /\ Ownership`.
  - The argument:
    - a successful `start` creates a session owned by `cur` (`StartOk`);
    - every other command and every debuggee step keeps a live session
      live and keeps its owner (`KeepsSession`);
    - a step that fails leaves the scenario's steps through `Finish`
      (`FinishLeaves`, `OnResultOwner`);
    - only `stop` can end a session, and it runs only at the `stop` and
      `cxstop` labels, which are outside `SessionSteps`.

## Proofs (`HarnessVerdictProofs`, checked by `tlapm`)

These hold under the same assumptions as `HarnessProofs`, for every set of
tools, fixture files, breakpoint hits and debuggee interleavings.

- `SoundPassInvariant`: `Spec => []SoundPass`.
  - `SoundPass` talks about the histories `stoppedAt` and `printed`. A step
    that records "pass" reads only the daemon's session and the harness's
    own flags, so the proof needs invariants that link these to the
    histories. The inductive invariant `PassInv` is the conjunction of
    `TypeOK`, `Ownership`, `SoundPass` and these:
    - `BufferPrinted`: output in the session's pipe or buffer was printed
      by the session's owner. `CheckOutput` and `BatchStep` need this,
      because `OutputHas(cur)` reads only the buffer;
    - `StopRecorded`: a session stopped at a breakpoint belongs to a
      debuggee that stopped there. A successful `locals` at a state past
      the entry stop can only mean a breakpoint stop;
    - `ProgressRecorded`: after a successful `continue` from the entry stop,
      the session is past the entry stop. After a successful `locals`,
      the scenario's debuggee is in `stoppedAt`. This carries the checks of
      earlier calls to the `output` step;
    - `ScenarioOfStep`: `test_program`'s labels run only for c/rs/py/go, and
      `test_complex_python`'s labels only for cx;
    - `SeenPrinted`: `seen` is set only by the complex scenario, on its own
      output.
  - Lemmas:
    - `CommandKeeps` and `DebuggeeKeeps`: the daemon keeps `BufferPrinted`
      and `StopRecorded`. New sessions have empty output, and the debuggee
      records its stop or print in the history in the same step;
    - `DaemonStep`: the histories only grow;
    - `FinishKeeps`: a "pass" is recorded only when the debuggee's history
      backs it.
  - `PassStep` has one case per action of `Next`.
- `ExitCodeFaithfulInvariant`: `Spec => []ExitCodeFaithful`.
  - The inductive invariant `ExitInv` is `TypeOK` and these:
    - `VerdictsBehind`: only scenarios before `cur` have a verdict, and cx
      has one only at `cleanup`/`done`;
    - `FailedFlag`: `failed` is the disjunction of the failed verdicts;
    - `ExitRecorded`: past `main` the binary is present, and at `done` the
      exit code is fixed by the binary check, `raised` and `failed`.
  - `VerdictsBehind` is needed because `FailedFlag` is kept only if
    `Finish` overwrites a "none" verdict. Without it, a second verdict for
    a failed scenario could clear the failure while `failed` stays set.
  - `FollowingOrder` shows that main()'s order of scenarios increases.
Before the proofs, TLC checked `PassInv` and `ExitInv` as invariants on
the `harness_safety` instance (501,208 states).

## Proofs (`ComplexAppProofs`, checked by `tlapm`)

These hold for every recursion depth `Depth ∈ Nat` (`ComplexAppAssumption`),
every mode and every interleaving of the worker threads.

- `TypeCorrect`: `Spec => []TypeOK`.
- `RecursionStopsInvariant`: `Spec => []RecursionStops`.
  - The inductive invariant is `RecInv == TypeOK /\ RecursionCount`.
    `RecursionCount` says:
    - the marker count is `Depth - n`;
    - `mpc = "recursion"` only in a mode that selects the test;
    - a mode that does not select it never recurses (`n = Depth`);
    - past the recursion, `n = 0`.
  - The last two conjuncts are what `RecursionStops` needs at `done`.
  - `NextFromFacts` shows that main()'s dispatch enters the recursion only
    from its first `if` and always does so when the test is selected. It
    rests on `MinOfPositions`, a least element of a set of positions.
- `FinishedIsLastProperty`: `Spec => FinishedIsLast`, an action property.
  - The inductive invariant is `LastInv == TypeOK /\ WorkersJoined /\
    FinishedPrinted`. It says:
    - the workers are unstarted before `run_threads()`;
    - t1 has ended when main() waits for t2;
    - after the threads test (or without it) every worker is unstarted or
      ended;
    - the final line is on stdout only at `done`.
  - `LastIsLast` then shows that no main or worker step is enabled once the
    final line is printed. `ToSetAppend`, `ToSetConcat2` and `PrintOther`
    track what is on stdout.
  - The joins are what the proof uses. Its mutant, a skipped `t1.join()`,
    is the one TLC kills.

Before the proofs, TLC checked `RecInv` and `LastInv` as invariants on
the `complex_app` instance.

## Proofs (`ServerProofs`, checked by `tlapm`)

These hold for every request set `Requests` and every `MaxRequests ∈ Nat`
(`ServerAssumption`):

- `TypeCorrect`: `Spec => []TypeOK`, including that at most `MaxRequests`
  requests are handled.
- `ErrorsCountedInvariant`: `Spec => []ErrorsCounted`.
  - The inductive invariant is `CountInv == TypeOK /\ ErrorsCounted`. The
    types are needed because the cardinality argument requires `results` to
    be a finite sequence of statuses.
  - `RouteCountsErrors`: every route through `handle()` answers with a
    status in {200, 401, 404}, and counts an error exactly when the status
    is ≥ 400.
  - `ErrorResponsesAppend`: appending a status adds one error position
    exactly when it is ≥ 400. It is proved from `FS_Interval`, `FS_Subset`
    and `FS_AddElement` of `FiniteSetTheorems`.

## Only model-checked

These stay with TLC only:

- `Termination` and all other liveness, which TLAPS cannot check.
- Everything in `ComplexTest`. Its correctness is about recursive
  reference definitions (`FibRef`, `FactRef`), and induction over data is
  beyond the installed provers.
- `LinkedList`'s `ImplementsList` and its `TypeOK`. Both depend on what
  `Walk`, a recursive function over the heap, returns for every index,
  which is induction over data.
- `JSONParser`, `TreeTraversal` and `FibonacciTutorial`:
  - their properties are about recursive operators or reference
    definitions;
  - `JSONParser` and `TreeTraversal` declare RECURSIVE operators, which the
    prover cannot use.

## Not modelled

- The daemon's internals: the DAP adapters, threads, frames and variable
  values. `threads`, `locals` and `bt` are modelled only by whether they
  succeed.
- The subprocess plumbing and logging of `run_debugger_command`.
- `Calculator.add`/`multiply` and their history, and `main()`'s prints, in `complex_test.py`.
- `tests/fixtures/simple.py`, which no scenario uses.
- The tutorials' printing. `Request.timestamp`, the HTTP method and the
  response bodies in the server simulation are also left out, because no
  decision reads them.
- Python's recursion limit in the JSON parser is modelled as
  `MaxNesting`. The bounded test texts never reach it.

## Plan for later sittings

1. `Calculator`'s history in `ComplexTest`.
2. No action property or refinement is stated about the daemon alone.
   The daemon's code is not under `src/`, and `DebuggerDaemon` is written
   from the spec. A property of the daemon model on its own would hold
   whatever `run_tests.py` does, so the properties of `harness_safety`
   are all about the harness's decisions.
3. The harness never rewrites a recorded outcome: `failed` is only ever
   set to `True`. `ExitCodeFaithful` covers this, so it has no separate
   action property; `verdict` is a history kept by the model only.
