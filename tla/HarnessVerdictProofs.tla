------------------------- MODULE HarnessVerdictProofs -------------------------
(***************************************************************************)
(* Proofs about the verdicts run_tests.py reports, for every value of the *)
(* constants: a scenario reported as passed really ran (SoundPass), and   *)
(* the exit status tells whether something failed (ExitCodeFaithful).     *)
(***************************************************************************)
EXTENDS HarnessProofs

(***************************************************************************)
(* The position of each scenario in main()'s sequence.                     *)
(***************************************************************************)
Order == [c |-> 1, rs |-> 2, py |-> 3, go |-> 4, cx |-> 5]

\* The labels of test_program and of test_complex_python.
ProgSteps == {"pyfile", "compile", "stop", "start", "bpadd", "cont1",
              "await1", "threads", "locals", "cont2", "await2", "output"}
CxSteps == {"cxstop", "cxstart", "batch", "cxcheck"}

(***************************************************************************)
(* What SoundPass rests on.                                                *)
(***************************************************************************)
\* Output in the pipe or the buffer was written by the session's debuggee.
BufferPrinted == sess.pipe \/ sess.buf => sess.owner \in printed

\* A session stopped at a breakpoint belongs to a debuggee that stopped.
StopRecorded == sess.st = "bp" => sess.owner \in stoppedAt

\* Each function's labels run only for its own scenarios.
ScenarioOfStep ==
    /\ pc \in ProgSteps => cur # "cx"
    /\ pc \in CxSteps => cur = "cx"

\* `seen` is only ever set by the complex scenario, on its own output.
SeenPrinted == seen => cur = "cx" /\ "cx" \in printed

\* After a successful `continue` from the entry stop, the session is past
\* its entry stop; after a successful `locals`, the debuggee has stopped at
\* its breakpoint.
ProgressRecorded ==
    /\ pc \in {"await1", "threads", "locals"} => sess.st \in {"running", "bp", "exited"}
    /\ pc \in {"cont2", "await2", "output"} => cur \in stoppedAt

PassInv ==
    /\ TypeOK /\ Ownership /\ SoundPass
    /\ BufferPrinted /\ StopRecorded /\ ScenarioOfStep /\ SeenPrinted
    /\ ProgressRecorded

(***************************************************************************)
(* What ExitCodeFaithful rests on.                                         *)
(***************************************************************************)
\* Only the scenarios main() has finished have a verdict.
VerdictsBehind ==
    \A s \in Scen : verdict[s] # "none" =>
        \/ Order[s] < Order[cur]
        \/ s = "cx" /\ pc \in {"cleanup", "done"}

\* main()'s `failed` flag summarises the verdicts.
FailedFlag == failed <=> \E s \in Scen : verdict[s] = "fail"

\* Past the binary check, the binary is there; at the end, the exit status
\* is fixed by the binary check, an escaped exception and `failed`.
ExitRecorded ==
    /\ pc \notin {"main", "done"} => "debugger" \in present
    /\ pc = "done" => (exitCode = 1 <=> \/ "debugger" \notin present
                                      \/ raised \/ failed)

ExitInv == TypeOK /\ VerdictsBehind /\ FailedFlag /\ ExitRecorded

(***************************************************************************)
(* The daemon keeps BufferPrinted and StopRecorded, and its histories only *)
(* grow.                                                                   *)
(***************************************************************************)
DaemonInv == BufferPrinted /\ StopRecorded

\* A reply that moves to a session with no output and not stopped at a
\* breakpoint, or to one with the same output, owner and state, keeps
\* DaemonInv.
LEMMA ReplyKeeps ==
    ASSUME DaemonInv, NEW ok, NEW valid, NEW new, Reply(ok, valid, new),
           \/ ~new.pipe /\ ~new.buf /\ new.st # "bp"
           \/ /\ new.pipe = sess.pipe /\ new.buf = sess.buf
              /\ new.owner = sess.owner
              /\ (new.st = "bp" => sess.st = "bp")
    PROVE  DaemonInv' /\ UNCHANGED <<stoppedAt, printed>>
<1>1. UNCHANGED <<stoppedAt, printed>>  BY DEF Reply
<1>2. sess' = sess \/ sess' = new  BY ReplyCases
<1>. QED  BY <1>1, <1>2, Zenon DEF DaemonInv, BufferPrinted, StopRecorded

\* Every command a CLI call can issue keeps DaemonInv and the histories.
LEMMA CommandKeeps ==
    ASSUME DaemonTypeOK, DaemonInv, NEW ok,
           \/ Stop(ok) \/ AddBreakpoint(ok) \/ RemoveAllBreakpoints(ok)
           \/ Continue(ok) \/ Await(ok) \/ Inspect(ok) \/ Output(ok)
           \/ \E t, h : Start(t, h, ok)
    PROVE  DaemonInv' /\ UNCHANGED <<stoppedAt, printed>>
<1>0. sess \in SessionFields  BY SessionElim DEF DaemonTypeOK
<1>1. CASE Stop(ok)
  <2>1. ~NoSession.pipe /\ ~NoSession.buf /\ NoSession.st # "bp"
    BY DEF NoSession
  <2>. QED  BY <1>1, <2>1, ReplyKeeps DEF Stop
<1>2. CASE \E t, h : Start(t, h, ok)
  <2>1. PICK t, h : Start(t, h, ok)  BY <1>2
  <2>. QED  BY <2>1, ReplyKeeps DEF Start
<1>3. CASE AddBreakpoint(ok)
  <2>1. PICK bound \in BOOLEAN :
          Reply(ok, sess.st \in {"entry", "running", "bp"},
                [sess EXCEPT !.bp = sess.bp \/ bound])
    BY <1>3 DEF AddBreakpoint
  <2>2. LET new == [sess EXCEPT !.bp = sess.bp \/ bound]
        IN  /\ new.pipe = sess.pipe /\ new.buf = sess.buf
            /\ new.owner = sess.owner /\ new.st = sess.st
    BY <1>0 DEF SessionFields
  <2>. QED  BY <2>1, <2>2, ReplyKeeps
<1>4. CASE RemoveAllBreakpoints(ok)
  <2>1. LET new == [sess EXCEPT !.bp = FALSE]
        IN  /\ new.pipe = sess.pipe /\ new.buf = sess.buf
            /\ new.owner = sess.owner /\ new.st = sess.st
    BY <1>0 DEF SessionFields
  <2>. QED  BY <1>4, <2>1, ReplyKeeps DEF RemoveAllBreakpoints
<1>5. CASE Continue(ok)
  <2>1. LET new == [sess EXCEPT !.st = "running"]
        IN  /\ new.pipe = sess.pipe /\ new.buf = sess.buf
            /\ new.owner = sess.owner /\ new.st = "running"
    BY <1>0 DEF SessionFields
  <2>. QED  BY <1>5, <2>1, ReplyKeeps DEF Continue
<1>6. CASE Await(ok)
  BY <1>6 DEF Await, daemonVars, DaemonInv, BufferPrinted, StopRecorded
<1>7. CASE Inspect(ok) \/ Output(ok)
  BY <1>7, ReplyKeeps DEF Inspect, Output
<1>. QED  BY <1>1, <1>2, <1>3, <1>4, <1>5, <1>6, <1>7

\* The debuggee keeps DaemonInv; its steps only add to the histories, and
\* never move a session out of the states past its entry stop.
LEMMA DebuggeeKeeps ==
    ASSUME DaemonTypeOK, DaemonInv, Debuggee
    PROVE  /\ DaemonInv'
           /\ stoppedAt \subseteq stoppedAt' /\ printed \subseteq printed'
           /\ sess'.owner = sess.owner
           /\ sess.st \in {"running", "bp", "exited"} =>
                 sess'.st \in {"running", "bp", "exited"}
<1>0. sess \in SessionFields  BY SessionElim DEF DaemonTypeOK
<1>1. CASE HitBreakpoint
  <2>1. sess'.st = "bp" /\ sess'.owner = sess.owner
        /\ sess'.pipe = sess.pipe /\ sess'.buf = sess.buf
    BY <1>0, <1>1 DEF HitBreakpoint, SessionFields
  <2>2. stoppedAt' = stoppedAt \cup {sess.owner} /\ printed' = printed
    BY <1>1 DEF HitBreakpoint
  <2>. QED  BY <2>1, <2>2, Zenon DEF DaemonInv, BufferPrinted, StopRecorded
<1>2. CASE ProgramExit
  <2>1. sess'.st = "exited" /\ sess'.owner = sess.owner
    BY <1>0, <1>2 DEF ProgramExit, SessionFields
  <2>2. printed' = printed \cup {sess.owner} /\ stoppedAt' = stoppedAt
    BY <1>2 DEF ProgramExit
  <2>. QED  BY <2>1, <2>2, Zenon DEF DaemonInv, BufferPrinted, StopRecorded
<1>3. CASE FlushOutput
  <2>1. sess'.st = sess.st /\ sess'.owner = sess.owner /\ sess.pipe
        /\ sess'.buf
    BY <1>0, <1>3 DEF FlushOutput, SessionFields
  <2>2. UNCHANGED <<stoppedAt, printed>>
    BY <1>3 DEF FlushOutput
  <2>. QED  BY <2>1, <2>2, Zenon DEF DaemonInv, BufferPrinted, StopRecorded
<1>. QED  BY <1>1, <1>2, <1>3 DEF Debuggee

\* The histories only grow.
Grows == stoppedAt \subseteq stoppedAt' /\ printed \subseteq printed'

\* Every step of the system keeps DaemonInv, and no step forgets that a
\* debuggee stopped at its breakpoint or printed its line.
LEMMA DaemonStep ==
    ASSUME TypeOK, DaemonInv, [Next]_vars
    PROVE  DaemonInv' /\ Grows
<1>0. DaemonTypeOK  BY DEF TypeOK
<1>1. CASE \E ok \in BOOLEAN :
             \/ Stop(ok) \/ AddBreakpoint(ok) \/ RemoveAllBreakpoints(ok)
             \/ Continue(ok) \/ Await(ok) \/ Inspect(ok) \/ Output(ok)
             \/ \E t, h : Start(t, h, ok)
  BY <1>0, <1>1, CommandKeeps DEF Grows
<1>2. CASE UNCHANGED daemonVars
  BY <1>2 DEF daemonVars, DaemonInv, BufferPrinted, StopRecorded, Grows
<1>3. CASE DebuggeeStep
  BY <1>0, <1>3, DebuggeeKeeps DEF DebuggeeStep, Grows
<1>4. CASE BatchStep
  <2>1. PICK ok \in BOOLEAN : Exec(Script[idx], ok)  BY <1>4 DEF BatchStep
  <2>2. idx \in 1..Len(Script)  BY DEF TypeOK
  <2>. QED  BY <2>1, <2>2, ExecIsCommand, <1>1
<1>. QED
  BY <1>1, <1>2, <1>3, <1>4
  DEF Next, HarnessStep, Main, EnterScenario, WritePyFile, Compile, StopStale,
      StartSession, SetBreakpoint, ContinueFromEntry, AwaitBreakpoint,
      Threads, Locals, ContinueToFinish, AwaitExit, CheckOutput, CxStop,
      CxStart, CxCheck, Cleanup, Terminated, vars

(***************************************************************************)
(* The harness side of PassInv.                                            *)
(***************************************************************************)
\* A step that records no verdict, stays in its scenario and leaves `seen`
\* alone keeps SoundPass and SeenPrinted, as the histories only grow.
LEMMA QuietKeeps ==
    ASSUME SoundPass, SeenPrinted, Grows,
           verdict' = verdict, cur' = cur, seen' = seen
    PROVE  SoundPass' /\ SeenPrinted'
BY DEF SoundPass, SeenPrinted, Grows

\* Finishing a scenario leaves every step of test_program and
\* test_complex_python, and keeps the complex scenario the current one.
LEMMA FinishMoves ==
    ASSUME NEW v, Finish(v)
    PROVE  /\ pc' \in {"cleanup", "enter"}
           /\ cur = "cx" => cur' = "cx"
           /\ ScenarioOfStep' /\ ProgressRecorded'
BY DEF Finish, ScenarioOfStep, ProgSteps, CxSteps, ProgressRecorded

\* Recording verdict v for the current scenario keeps PassInv's harness
\* conjuncts, provided a "pass" is backed by what the debuggee did.
LEMMA FinishKeeps ==
    ASSUME TypeOK, SoundPass, SeenPrinted, Grows, seen' = seen,
           NEW v, Finish(v),
           v = "pass" => cur \in printed' /\ (cur # "cx" => cur \in stoppedAt')
    PROVE  SoundPass' /\ SeenPrinted' /\ ScenarioOfStep' /\ ProgressRecorded'
<1>1. ScenarioOfStep' /\ ProgressRecorded' /\ (cur = "cx" => cur' = "cx")
  BY FinishMoves
<1>2. SeenPrinted'
  BY <1>1 DEF SeenPrinted, Grows
<1>3. SoundPass'
  <2> SUFFICES ASSUME NEW s \in Scen, verdict'[s] = "pass"
               PROVE  s \in printed' /\ (s # "cx" => s \in stoppedAt')
    BY DEF SoundPass
  <2>1. verdict'[s] = IF s = cur THEN v ELSE verdict[s]
    BY DEF TypeOK, Finish
  <2>2. CASE s = cur  BY <2>1, <2>2
  <2>3. CASE s # cur  BY <2>1, <2>3 DEF SoundPass, Grows
  <2>. QED  BY <2>2, <2>3
<1>. QED  BY <1>1, <1>2, <1>3

\* A CLI call whose failure makes test_program `return False`.
LEMMA OnResultKeeps ==
    ASSUME TypeOK, SoundPass, SeenPrinted, Grows, seen' = seen,
           NEW ok, NEW next, OnResult(ok, next)
    PROVE  /\ SoundPass' /\ SeenPrinted'
           /\ ok => pc' = next /\ cur' = cur
           /\ ~ok => ScenarioOfStep' /\ ProgressRecorded'
<1>1. CASE ok
  BY <1>1, QuietKeeps DEF OnResult
<1>2. CASE ~ok
  BY <1>2, FinishKeeps DEF OnResult
<1>. QED  BY <1>1, <1>2

\* Every step keeps PassInv.
LEMMA PassStep == PassInv /\ [Next]_vars => PassInv'
<1> SUFFICES ASSUME PassInv, [Next]_vars PROVE PassInv'
  OBVIOUS
<1> USE DEF PassInv
<1>1. TypeOK'  BY TypeStep
<1>2. Ownership'  BY OwnStep DEF OwnInv
<1>3. DaemonInv' /\ Grows  BY DaemonStep DEF DaemonInv
<1> DEFINE Rest == SoundPass' /\ SeenPrinted' /\ ScenarioOfStep'
                   /\ ProgressRecorded'
<1> HIDE DEF PassInv
<1>4. Rest
  <2> USE <1>3 DEF PassInv
  <2>0. sess \in SessionFields  BY SessionElim DEF TypeOK, DaemonTypeOK
  <2> DEFINE Moves(from, to) == pc = from /\ pc' = to /\ cur' = cur
  \* A step of test_program or test_complex_python that goes on to the next
  \* CLI call of the same scenario.
  <2>a. ASSUME NEW from, NEW to, Moves(from, to), seen' = seen,
               verdict' = verdict,
               to \in ProgSteps => from \in ProgSteps \cup {"enter"} /\ cur # "cx",
               to \in CxSteps => cur = "cx",
               to \in {"await1", "threads", "locals"} =>
                  sess'.st \in {"running", "bp", "exited"},
               to \in {"cont2", "await2", "output"} => cur \in stoppedAt'
        PROVE  Rest
    BY <2>a, QuietKeeps DEF ScenarioOfStep, ProgressRecorded
  <2>1. CASE Main
    BY <2>1, QuietKeeps DEF Main, ScenarioOfStep, ProgressRecorded, ProgSteps,
                           CxSteps
  <2>2. CASE EnterScenario
    <3>0. UNCHANGED <<seen, daemonVars>>  BY <2>2 DEF EnterScenario
    <3>1. CASE cur \in {"c", "rs"}
      BY <2>2, <3>0, <3>1, <2>a DEF EnterScenario, ProgSteps, CxSteps
    <3>2. CASE cur = "py"
      <4>1. CASE Probe("debugpy")
        BY <2>2, <3>0, <3>2, <4>1, <2>a DEF EnterScenario, ProgSteps, CxSteps
      <4>2. CASE ~Probe("debugpy")
        BY <2>2, <3>0, <3>2, <4>2, FinishKeeps DEF EnterScenario
      <4>. QED  BY <4>1, <4>2
    <3>3. CASE cur = "go"
      <4>1. CASE Probe("dlv") /\ "gofile" \in files
        BY <2>2, <3>0, <3>3, <4>1, <2>a DEF EnterScenario, ProgSteps, CxSteps
      <4>2. CASE ~(Probe("dlv") /\ "gofile" \in files)
        BY <2>2, <3>0, <3>3, <4>2, FinishKeeps DEF EnterScenario
      <4>. QED  BY <4>1, <4>2
    <3>4. CASE cur = "cx"
      <4>1. CASE ~Probe("debugpy")
        BY <2>2, <3>0, <3>4, <4>1, FinishKeeps DEF EnterScenario
      <4>2. CASE Probe("debugpy") /\ "cxfile" \notin files
        BY <2>2, <3>0, <3>4, <4>2, FinishKeeps DEF EnterScenario
      <4>3. CASE Probe("debugpy") /\ "cxfile" \in files
        BY <2>2, <3>0, <3>4, <4>3, <2>a DEF EnterScenario, ProgSteps, CxSteps
      <4>. QED  BY <4>1, <4>2, <4>3
    <3>. QED  BY <3>1, <3>2, <3>3, <3>4 DEF TypeOK, Scen
  <2>3. CASE WritePyFile
    BY <2>3, QuietKeeps
    DEF WritePyFile, ScenarioOfStep, ProgressRecorded, ProgSteps, CxSteps
  <2>4. CASE Compile
    <3>1. CASE cur = "py"
      BY <2>4, <3>1, <2>a DEF Compile, ProgSteps, CxSteps, ScenarioOfStep
    <3>2. CASE cur # "py"
      <4>1. PICK built \in BOOLEAN : OnResult(built, "stop")
        BY <2>4, <3>2 DEF Compile
      <4>2. pc = "compile" /\ seen' = seen  BY <2>4 DEF Compile
      <4>3. CASE built
        <5>1. Moves("compile", "stop") /\ seen' = seen /\ verdict' = verdict
          BY <4>1, <4>2, <4>3, OnResultKeeps DEF OnResult
        <5>. QED  BY <5>1, <2>a DEF ProgSteps, CxSteps, ScenarioOfStep
      <4>4. CASE ~built
        BY <4>1, <4>2, <4>4, OnResultKeeps
      <4>. QED  BY <4>3, <4>4
    <3>. QED  BY <3>1, <3>2
  <2>5. CASE StopStale
    <3>1. Moves("stop", "start") /\ seen' = seen /\ verdict' = verdict
      BY <2>5 DEF StopStale, Unchanged
    <3>. QED  BY <3>1, <2>a DEF ProgSteps, CxSteps, ScenarioOfStep
  <2>6. CASE CxStop
    <3>1. Moves("cxstop", "cxstart") /\ seen' = seen /\ verdict' = verdict
      BY <2>6 DEF CxStop, Unchanged
    <3>. QED  BY <3>1, <2>a DEF ProgSteps, CxSteps, ScenarioOfStep
  <2>7. CASE AwaitExit
    <3>1. Moves("await2", "output") /\ seen' = seen /\ verdict' = verdict
      BY <2>7 DEF AwaitExit, Unchanged
    <3>2. cur \in stoppedAt'
      BY <3>1 DEF ProgressRecorded, Grows
    <3>. QED  BY <3>1, <3>2, <2>a DEF ProgSteps, CxSteps, ScenarioOfStep
  \* A CLI call of test_program or test_complex_python whose failure ends
  \* the scenario.
  <2>b. ASSUME NEW from, NEW to, NEW ok, pc = from, OnResult(ok, to),
               seen' = seen,
               ok => /\ to \in ProgSteps =>
                          from \in ProgSteps \cup {"enter"} /\ cur # "cx"
                     /\ to \in CxSteps => cur = "cx"
                     /\ to \in {"await1", "threads", "locals"} =>
                           sess'.st \in {"running", "bp", "exited"}
                     /\ to \in {"cont2", "await2", "output"} => cur \in stoppedAt'
        PROVE  Rest
    <3>1. CASE ok
      <4>1. Moves(from, to) /\ verdict' = verdict  BY <3>1, <2>b DEF OnResult
      <4>. QED  BY <3>1, <4>1, <2>b, <2>a
    <3>2. CASE ~ok  BY <3>2, <2>b, OnResultKeeps
    <3>. QED  BY <3>1, <3>2
  <2>8. CASE StartSession \/ CxStart
    <3>1. PICK ok \in BOOLEAN, h \in {1, RecursionHits} :
            Start(cur, h, ok) /\ OnResult(ok, IF pc = "start" THEN "bpadd" ELSE "batch")
      BY <2>8 DEF StartSession, CxStart
    <3>2. seen' = seen  BY <2>8 DEF StartSession, CxStart, Unchanged
    <3>3. CASE pc = "start"
      BY <3>1, <3>2, <3>3, <2>b DEF ProgSteps, CxSteps, ScenarioOfStep
    <3>4. CASE pc = "cxstart"
      BY <3>1, <3>2, <3>4, <2>b DEF ProgSteps, CxSteps, ScenarioOfStep
    <3>. QED  BY <2>8, <3>3, <3>4 DEF StartSession, CxStart
  <2>9. CASE SetBreakpoint
    <3>1. PICK ok \in BOOLEAN : OnResult(ok, "cont1")  BY <2>9 DEF SetBreakpoint
    <3>. QED  BY <2>9, <3>1, <2>b
              DEF SetBreakpoint, Unchanged, ProgSteps, CxSteps, ScenarioOfStep
  <2>10. CASE ContinueFromEntry
    <3>1. PICK ok \in BOOLEAN : Continue(ok) /\ OnResult(ok, "await1")
      BY <2>10 DEF ContinueFromEntry
    <3>2. ok => sess'.st = "running"
      BY <3>1, <2>0 DEF Continue, Reply, SessionFields
    <3>. QED  BY <2>10, <3>1, <3>2, <2>b
              DEF ContinueFromEntry, Unchanged, ProgSteps, CxSteps, ScenarioOfStep
  <2>11. CASE AwaitBreakpoint
    <3>1. PICK ok \in BOOLEAN : Await(ok) /\ OnResult(ok, "threads")
      BY <2>11 DEF AwaitBreakpoint
    <3>2. sess' = sess  BY <3>1 DEF Await, daemonVars
    <3>. QED  BY <2>11, <3>1, <3>2, <2>b
              DEF AwaitBreakpoint, Unchanged, ProgSteps, CxSteps, ScenarioOfStep,
                  ProgressRecorded
  <2>12. CASE Threads
    <3>1. PICK ok \in BOOLEAN : Inspect(ok)  BY <2>12 DEF Threads
    <3>2. sess' = sess  BY <3>1, ReplyCases DEF Inspect
    <3>3. Moves("threads", "locals") /\ seen' = seen /\ verdict' = verdict
      BY <2>12 DEF Threads, Unchanged
    <3>. QED  BY <3>2, <3>3, <2>a DEF ProgSteps, CxSteps, ScenarioOfStep,
                                     ProgressRecorded
  <2>13. CASE Locals
    <3>1. PICK ok \in BOOLEAN : Inspect(ok) /\ OnResult(ok, "cont2")
      BY <2>13 DEF Locals
    <3>2. ok => sess.st = "bp"
      BY <2>13, <3>1 DEF Locals, Inspect, Reply, Stopped, ProgressRecorded
    <3>3. sess.owner = cur  BY <2>13 DEF Locals, Ownership, SessionSteps
    <3>4. ok => cur \in stoppedAt'  BY <3>2, <3>3 DEF StopRecorded, Grows
    <3>. QED  BY <2>13, <3>1, <3>4, <2>b
              DEF Locals, Unchanged, ProgSteps, CxSteps, ScenarioOfStep
  <2>14. CASE ContinueToFinish
    <3>1. PICK ok \in BOOLEAN : OnResult(ok, "await2")
      BY <2>14 DEF ContinueToFinish
    <3>2. cur \in stoppedAt'
      BY <2>14 DEF ContinueToFinish, ProgressRecorded, Grows
    <3>. QED  BY <2>14, <3>1, <3>2, <2>b
              DEF ContinueToFinish, Unchanged, ProgSteps, CxSteps, ScenarioOfStep
  <2>15. CASE CheckOutput
    <3>1. PICK ok \in BOOLEAN :
            /\ Output(ok)
            /\ Finish(IF ok /\ OutputHas(cur) THEN "pass" ELSE "fail")
      BY <2>15 DEF CheckOutput
    <3>2. OutputHas(cur) => cur \in printed'
      BY DEF OutputHas, BufferPrinted, Grows
    <3>3. cur \in stoppedAt' /\ cur # "cx"
      BY <2>15 DEF CheckOutput, ProgressRecorded, ScenarioOfStep, ProgSteps, Grows
    <3>4. seen' = seen  BY <2>15 DEF CheckOutput, Unchanged
    <3>. QED  BY <3>1, <3>2, <3>3, <3>4, FinishKeeps
  <2>16. CASE CxCheck
    <3>1. Finish(IF seen THEN "pass" ELSE "fail") /\ seen' = seen
      BY <2>16 DEF CxCheck, Unchanged
    <3>2. CASE seen
      <4>1. Finish("pass")  BY <3>1, <3>2
      <4>2. cur \in printed' /\ cur = "cx"  BY <3>2 DEF SeenPrinted, Grows
      <4>. QED  BY <3>1, <4>1, <4>2, FinishKeeps
    <3>3. CASE ~seen
      <4>1. Finish("fail")  BY <3>1, <3>3
      <4>. QED  BY <3>1, <4>1, FinishKeeps
    <3>. QED  BY <3>2, <3>3
  <2>17. CASE BatchStep
    <3>1. PICK ok \in BOOLEAN :
            seen' = (seen \/ (Script[idx] = "output" /\ ok /\ OutputHas(cur)))
      BY <2>17 DEF BatchStep
    <3>2. pc = "batch" /\ pc' \in {"batch", "cxcheck"} /\ cur' = cur
          /\ verdict' = verdict
      BY <2>17 DEF BatchStep
    <3>3. cur = "cx"  BY <3>2 DEF ScenarioOfStep, CxSteps
    <3>4. OutputHas(cur) => cur \in printed'
      BY DEF OutputHas, BufferPrinted, Grows
    <3>5. SeenPrinted'
      BY <3>1, <3>2, <3>3, <3>4 DEF SeenPrinted, Grows
    <3>6. SoundPass'  BY <3>2 DEF SoundPass, Grows
    <3>. QED  BY <3>2, <3>3, <3>5, <3>6
              DEF ScenarioOfStep, ProgressRecorded, ProgSteps, CxSteps
  <2>18. CASE Cleanup
    BY <2>18, QuietKeeps
    DEF Cleanup, ScenarioOfStep, ProgressRecorded, ProgSteps, CxSteps
  <2>19. CASE DebuggeeStep
    <3>1. UNCHANGED harnessVars  BY <2>19 DEF DebuggeeStep
    <3>2. sess.st \in {"running", "bp", "exited"} =>
             sess'.st \in {"running", "bp", "exited"}
      BY <2>19, DebuggeeKeeps DEF DebuggeeStep, TypeOK, DaemonInv
    <3>. QED  BY <3>1, <3>2, QuietKeeps
              DEF harnessVars, ScenarioOfStep, ProgressRecorded, Grows
  <2>20. CASE Terminated \/ UNCHANGED vars
    BY <2>20 DEF Terminated, vars, harnessVars, daemonVars, SoundPass,
                 SeenPrinted, ScenarioOfStep, ProgressRecorded
  <2>. QED
    BY <2>1, <2>2, <2>3, <2>4, <2>5, <2>6, <2>7, <2>8, <2>9, <2>10, <2>11,
       <2>12, <2>13, <2>14, <2>15, <2>16, <2>17, <2>18, <2>19, <2>20
    DEF Next, HarnessStep
<1>. QED  BY <1>1, <1>2, <1>3, <1>4 DEF PassInv, DaemonInv

\* The initial states of main() satisfy PassInv.
LEMMA PassInit == Init => PassInv
<1> SUFFICES ASSUME Init PROVE PassInv
  OBVIOUS
<1>1. TypeOK  BY TypeInit
<1>2. sess = NoSession /\ pc = "main" /\ ~seen
      /\ \A s \in Scen : verdict[s] = "none"
  BY DEF Init, DaemonInit
<1>. QED
  BY <1>1, <1>2
  DEF PassInv, NoSession, Ownership, SessionSteps, SoundPass, BufferPrinted,
      StopRecorded, ScenarioOfStep, ProgSteps, CxSteps, SeenPrinted,
      ProgressRecorded

\* A scenario run_tests.py reports as passed really ran, whatever the
\* targets, the breakpoint hits and the interleaving with the debuggees:
\* its own debuggee wrote the expected line and, for test_program, its own
\* debuggee stopped at the breakpoint on main.
THEOREM SoundPassInvariant == Spec => []SoundPass
<1>1. PassInv => SoundPass  BY DEF PassInv
<1>. QED  BY PassInit, PassStep, <1>1, PTL DEF Spec

(***************************************************************************)
(* ExitInv.                                                                *)
(***************************************************************************)
\* The recorded verdicts are left as they are.
VerdictKept == \A s \in Scen : verdict[s] # "none" => verdict'[s] = verdict[s]

ExitParts == VerdictsBehind /\ FailedFlag /\ ExitRecorded

\* The next scenario main() runs comes after the current one.
LEMMA FollowingOrder ==
    ASSUME NEW c \in Scen \ {"cx"}
    PROVE  Following[c] \in Scen /\ Order[Following[c]] = Order[c] + 1
BY DEF Scen, Following, Order

\* Finishing the current scenario, which can only happen inside one,
\* records its first verdict and keeps ExitParts.
LEMMA FinishExit ==
    ASSUME TypeOK, ExitParts, pc \notin {"main", "cleanup", "done"},
           NEW v, Finish(v), UNCHANGED <<present, raised, exitCode>>
    PROVE  ExitParts' /\ VerdictKept
<1>0. /\ cur \in Scen
      /\ verdict \in [Scen -> {"none", "pass", "fail", "skip"}]
      /\ \A s \in Scen : verdict'[s] = IF s = cur THEN v ELSE verdict[s]
  BY DEF TypeOK, Finish
<1>1. verdict[cur] = "none"
  BY <1>0 DEF ExitParts, VerdictsBehind, Order, Scen
<1>2. VerdictKept  BY <1>0, <1>1 DEF VerdictKept
<1>3. FailedFlag'
  <2>1. failed' <=> failed \/ v = "fail"  BY DEF Finish
  <2>. QED  BY <1>0, <1>1, <2>1 DEF ExitParts, FailedFlag
<1>4. ExitRecorded'
  <2>1. pc' \in {"cleanup", "enter"}  BY FinishMoves
  <2>. QED  BY <2>1 DEF ExitParts, ExitRecorded
<1>5. VerdictsBehind'
  <2> SUFFICES ASSUME NEW s \in Scen, verdict'[s] # "none"
               PROVE  \/ Order[s] < Order[cur']
                      \/ s = "cx" /\ pc' \in {"cleanup", "done"}
    BY DEF VerdictsBehind
  <2>1. verdict[s] # "none" => Order[s] < Order[cur]
    BY <1>0 DEF ExitParts, VerdictsBehind, Scen, Order
  <2>2. CASE cur = "cx"
    <3>1. pc' = "cleanup" /\ cur' = "cx"  BY <2>2 DEF Finish
    <3>2. s # "cx" => Order[s] < Order["cx"]  BY DEF Scen, Order
    <3>. QED  BY <3>1, <3>2
  <2>3. CASE cur # "cx"
    <3>1. cur' = Following[cur]  BY <2>3 DEF Finish
    <3>2. Order[cur'] = Order[cur] + 1  BY <1>0, <2>3, <3>1, FollowingOrder
    <3>3. Order[s] <= Order[cur]
      BY <1>0, <2>1 DEF Order, Scen
    <3>. QED  BY <3>2, <3>3, <1>0 DEF Order, Scen
  <2>. QED  BY <2>2, <2>3
<1>. QED  BY <1>2, <1>3, <1>4, <1>5 DEF ExitParts

\* A step that records nothing keeps the verdicts, `failed` and the order
\* of the scenarios.
LEMMA QuietExit ==
    ASSUME ExitParts, verdict' = verdict, cur' = cur, failed' = failed,
           pc \in {"cleanup", "done"} => pc' \in {"cleanup", "done"}
    PROVE  VerdictsBehind' /\ FailedFlag' /\ VerdictKept
BY DEF ExitParts, VerdictsBehind, FailedFlag, VerdictKept

\* Every step keeps ExitParts and never changes a recorded verdict.
LEMMA ExitStep == ExitInv /\ [Next]_vars => ExitParts' /\ VerdictKept
<1> SUFFICES ASSUME ExitInv, [Next]_vars PROVE ExitParts' /\ VerdictKept
  OBVIOUS
<1>0. TypeOK /\ ExitParts  BY DEF ExitInv, ExitParts
<1> DEFINE Mid == {"enter", "pyfile", "compile", "stop", "start", "bpadd",
                   "cont1", "await1", "threads", "locals", "cont2", "await2",
                   "output", "cxstop", "cxstart", "batch", "cxcheck"}
<1>a. ASSUME pc \in Mid, pc' \in Mid \cup {"cleanup"},
             verdict' = verdict, cur' = cur, failed' = failed,
             present' = present
      PROVE  ExitParts' /\ VerdictKept
  BY <1>0, <1>a, QuietExit DEF ExitParts, ExitRecorded
<1>b. ASSUME pc \in Mid, NEW v, Finish(v),
             UNCHANGED <<present, raised, exitCode>>
      PROVE  ExitParts' /\ VerdictKept
  BY <1>0, <1>b, FinishExit
<1>c. ASSUME pc \in Mid, NEW ok, NEW next \in Mid, OnResult(ok, next),
             UNCHANGED <<present, raised, exitCode>>
      PROVE  ExitParts' /\ VerdictKept
  <2>1. CASE ok  BY <1>c, <2>1, <1>a DEF OnResult
  <2>2. CASE ~ok  BY <1>c, <2>2, <1>b DEF OnResult
  <2>. QED  BY <2>1, <2>2
<1>1. CASE Main
  <2>1. verdict' = verdict /\ cur' = cur /\ failed' = failed /\ pc = "main"
        /\ present' = present
    BY <1>1 DEF Main
  <2>2. VerdictsBehind' /\ FailedFlag' /\ VerdictKept
    BY <1>0, <2>1, QuietExit
  <2>3. ExitRecorded'  BY <1>1 DEF Main, ExitRecorded
  <2>. QED  BY <2>2, <2>3 DEF ExitParts
<1>2. CASE EnterScenario
  <2>0. pc = "enter" /\ UNCHANGED <<present, raised, exitCode>>
    BY <1>2 DEF EnterScenario
  <2>1. CASE cur \in {"c", "rs"}  BY <1>2, <2>0, <2>1, <1>a DEF EnterScenario
  <2>2. CASE cur = "py"
    <3>1. CASE Probe("debugpy")  BY <1>2, <2>0, <2>2, <3>1, <1>a DEF EnterScenario
    <3>2. CASE ~Probe("debugpy")  BY <1>2, <2>0, <2>2, <3>2, <1>b DEF EnterScenario
    <3>. QED  BY <3>1, <3>2
  <2>3. CASE cur = "go"
    <3>1. CASE Probe("dlv") /\ "gofile" \in files
      BY <1>2, <2>0, <2>3, <3>1, <1>a DEF EnterScenario
    <3>2. CASE ~(Probe("dlv") /\ "gofile" \in files)
      BY <1>2, <2>0, <2>3, <3>2, <1>b DEF EnterScenario
    <3>. QED  BY <3>1, <3>2
  <2>4. CASE cur = "cx"
    <3>1. CASE ~Probe("debugpy")  BY <1>2, <2>0, <2>4, <3>1, <1>b DEF EnterScenario
    <3>2. CASE Probe("debugpy") /\ "cxfile" \notin files
      BY <1>2, <2>0, <2>4, <3>2, <1>b DEF EnterScenario
    <3>3. CASE Probe("debugpy") /\ "cxfile" \in files
      BY <1>2, <2>0, <2>4, <3>3, <1>a DEF EnterScenario
    <3>. QED  BY <3>1, <3>2, <3>3
  <2>. QED  BY <1>0, <2>1, <2>2, <2>3, <2>4 DEF TypeOK, Scen
<1>3. CASE WritePyFile \/ StopStale \/ CxStop \/ Threads \/ AwaitExit
           \/ BatchStep
  BY <1>3, <1>a DEF WritePyFile, StopStale, CxStop, Threads, AwaitExit,
                    BatchStep, Unchanged
<1>4. CASE Compile
  <2>1. CASE cur = "py"  BY <1>4, <2>1, <1>a DEF Compile
  <2>2. CASE cur # "py"
    <3>1. PICK built \in BOOLEAN : OnResult(built, "stop")  BY <1>4, <2>2 DEF Compile
    <3>. QED  BY <1>4, <3>1, <1>c DEF Compile
  <2>. QED  BY <2>1, <2>2
<1>5. CASE StartSession \/ SetBreakpoint \/ ContinueFromEntry
           \/ AwaitBreakpoint \/ Locals \/ ContinueToFinish \/ CxStart
  <2>1. PICK ok \in BOOLEAN, next \in Mid : OnResult(ok, next)
    BY <1>5 DEF StartSession, SetBreakpoint, ContinueFromEntry,
                AwaitBreakpoint, Locals, ContinueToFinish, CxStart
  <2>. QED
    BY <1>5, <2>1, <1>c DEF StartSession, SetBreakpoint, ContinueFromEntry,
                            AwaitBreakpoint, Locals, ContinueToFinish, CxStart,
                            Unchanged
<1>6. CASE CheckOutput \/ CxCheck
  <2>1. PICK v : Finish(v)  BY <1>6 DEF CheckOutput, CxCheck
  <2>. QED  BY <1>6, <2>1, <1>b DEF CheckOutput, CxCheck, Unchanged
<1>7. CASE Cleanup
  <2>1. verdict' = verdict /\ cur' = cur /\ failed' = failed /\ pc = "cleanup"
        /\ pc' = "done"
    BY <1>7 DEF Cleanup
  <2>2. VerdictsBehind' /\ FailedFlag' /\ VerdictKept
    BY <1>0, <2>1, QuietExit
  <2>3. "debugger" \in present  BY <1>0, <2>1 DEF ExitParts, ExitRecorded
  <2>4. ExitRecorded'  BY <1>7, <2>3 DEF Cleanup, ExitRecorded
  <2>. QED  BY <2>2, <2>4 DEF ExitParts
<1>8. CASE DebuggeeStep \/ Terminated \/ UNCHANGED vars
  <2>1. UNCHANGED harnessVars
    BY <1>8 DEF DebuggeeStep, Terminated, vars
  <2>. QED
    BY <1>0, <2>1 DEF harnessVars, ExitParts, VerdictsBehind, FailedFlag,
                      ExitRecorded, VerdictKept
<1>. QED
  BY <1>1, <1>2, <1>3, <1>4, <1>5, <1>6, <1>7, <1>8 DEF Next, HarnessStep

\* The initial states of main() satisfy ExitInv.
LEMMA ExitInit == Init => ExitInv
<1> SUFFICES ASSUME Init PROVE ExitInv
  OBVIOUS
<1>1. TypeOK  BY TypeInit
<1>2. pc = "main" /\ ~failed /\ \A s \in Scen : verdict[s] = "none"
  BY DEF Init
<1>. QED
  BY <1>1, <1>2 DEF ExitInv, VerdictsBehind, FailedFlag, ExitRecorded

\* ExitInv holds in every reachable state.
LEMMA ExitInvariant == Spec => []ExitInv
<1>1. ExitInv /\ [Next]_vars => ExitInv'
  BY TypeStep, ExitStep DEF ExitInv, ExitParts
<1>. QED  BY ExitInit, <1>1, PTL DEF Spec

\* For every set of installed tools and fixture files, run_tests.py exits
\* with status 1 exactly when the debugger binary is missing, an exception
\* escaped main()'s try block, or some scenario failed: a skipped scenario
\* never fails the run and a failed one is never lost to a later `failed`
\* assignment.
THEOREM ExitCodeFaithfulInvariant == Spec => []ExitCodeFaithful
<1>1. ExitInv => ExitCodeFaithful
  BY DEF ExitInv, ExitRecorded, FailedFlag, ExitCodeFaithful
<1>. QED  BY ExitInvariant, <1>1, PTL

=============================================================================
