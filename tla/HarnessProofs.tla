---------------------------- MODULE HarnessProofs ----------------------------
(***************************************************************************)
(* Proofs about Harness for every value of the constants: type             *)
(* correctness, and that every CLI call a scenario makes after its start   *)
(* is served by the session that scenario started (Ownership).             *)
(***************************************************************************)
EXTENDS Harness, TLAPS

USE DaemonAssumption, HarnessAssumption

(***************************************************************************)
(* Daemon commands keep the session well typed and leave the histories     *)
(* alone.                                                                  *)
(***************************************************************************)
SessionFields == [st : States, owner : Targets \cup {NoTarget},
                  bp : BOOLEAN, hits : 0..MaxHits, pipe : BOOLEAN,
                  buf : BOOLEAN]

LEMMA SessionElim ==
    ASSUME NEW r \in Session
    PROVE  /\ r \in SessionFields
           /\ r.st # "none" => r.owner \in Targets
BY DEF Session, SessionFields

LEMMA SessionIntro ==
    ASSUME NEW r \in SessionFields, r.st # "none" => r.owner \in Targets
    PROVE  r \in Session
BY DEF Session, SessionFields

LEMMA ReplyTyped ==
    ASSUME sess \in Session, NEW ok, NEW valid, NEW new,
           valid => new \in Session, Reply(ok, valid, new)
    PROVE  /\ sess' \in Session
           /\ UNCHANGED <<stoppedAt, printed>>
BY DEF Reply

LEMMA CommandTyped ==
    ASSUME DaemonTypeOK, NEW ok \in BOOLEAN,
           \/ Stop(ok) \/ AddBreakpoint(ok) \/ RemoveAllBreakpoints(ok)
           \/ Continue(ok) \/ Await(ok) \/ Inspect(ok) \/ Output(ok)
    PROVE  DaemonTypeOK'
<1> USE DEF DaemonTypeOK
<1>0. sess \in SessionFields /\ (sess.st # "none" => sess.owner \in Targets)
  BY SessionElim
<1>1. NoSession \in Session
  BY DEF NoSession, Session, States
<1>2. CASE Stop(ok)
  BY <1>1, <1>2, ReplyTyped DEF Stop
<1>3. CASE AddBreakpoint(ok)
  <2>1. PICK bound \in BOOLEAN :
          Reply(ok, sess.st \in {"entry", "running", "bp"},
                [sess EXCEPT !.bp = sess.bp \/ bound])
    BY <1>3 DEF AddBreakpoint
  <2>2. [sess EXCEPT !.bp = sess.bp \/ bound] \in SessionFields
    BY <1>0 DEF SessionFields
  <2>3. [sess EXCEPT !.bp = sess.bp \/ bound].st = sess.st
        /\ [sess EXCEPT !.bp = sess.bp \/ bound].owner = sess.owner
    BY <1>0 DEF SessionFields
  <2>4. [sess EXCEPT !.bp = sess.bp \/ bound] \in Session
    BY <1>0, <2>2, <2>3, SessionIntro
  <2>5. QED
    BY <2>1, <2>4, ReplyTyped
<1>4. CASE RemoveAllBreakpoints(ok)
  <2>1. [sess EXCEPT !.bp = FALSE] \in SessionFields
    BY <1>0 DEF SessionFields
  <2>2. [sess EXCEPT !.bp = FALSE].st = sess.st
        /\ [sess EXCEPT !.bp = FALSE].owner = sess.owner
    BY <1>0 DEF SessionFields
  <2>3. [sess EXCEPT !.bp = FALSE] \in Session
    BY <1>0, <2>1, <2>2, SessionIntro
  <2>4. QED
    BY <1>4, <2>3, ReplyTyped DEF RemoveAllBreakpoints
<1>5. CASE Continue(ok)
  <2>1. [sess EXCEPT !.st = "running"] \in SessionFields
    BY <1>0 DEF SessionFields, States
  <2>2. [sess EXCEPT !.st = "running"].st # "none"
        /\ [sess EXCEPT !.st = "running"].owner = sess.owner
    BY <1>0 DEF SessionFields
  <2>3. sess.st \in Stopped => [sess EXCEPT !.st = "running"] \in Session
    BY <1>0, <2>1, <2>2, SessionIntro DEF Stopped
  <2>4. QED
    BY <1>5, <2>3, ReplyTyped DEF Continue
<1>6. CASE Await(ok)
  BY <1>6 DEF Await, daemonVars
<1>7. CASE Inspect(ok)
  BY <1>7, ReplyTyped DEF Inspect
<1>8. CASE Output(ok)
  BY <1>8, ReplyTyped DEF Output
<1>9. QED
  BY <1>2, <1>3, <1>4, <1>5, <1>6, <1>7, <1>8

LEMMA StartTyped ==
    ASSUME DaemonTypeOK, NEW ok \in BOOLEAN, NEW t \in Targets,
           NEW hits \in 0..MaxHits, Start(t, hits, ok)
    PROVE  DaemonTypeOK'
<1>1. [st |-> "entry", owner |-> t, bp |-> FALSE,
       hits |-> hits, pipe |-> FALSE, buf |-> FALSE] \in Session
  BY DEF Session, States
<1>2. QED
  BY <1>1, ReplyTyped DEF Start, DaemonTypeOK

LEMMA DebuggeeTyped ==
    ASSUME DaemonTypeOK, Debuggee
    PROVE  DaemonTypeOK'
<1> USE DEF DaemonTypeOK
<1>0. sess \in SessionFields /\ (sess.st # "none" => sess.owner \in Targets)
  BY SessionElim
<1>1. CASE HitBreakpoint
  <2>0. sess.hits - 1 \in 0..MaxHits
    BY <1>0, <1>1 DEF HitBreakpoint, SessionFields
  <2>1. sess' \in SessionFields
    BY <1>0, <1>1, <2>0 DEF HitBreakpoint, SessionFields, States
  <2>2. sess'.st # "none" /\ sess'.owner = sess.owner /\ sess.owner \in Targets
    BY <1>0, <1>1 DEF HitBreakpoint, SessionFields
  <2>3. QED
    BY <1>1, <2>1, <2>2, SessionIntro DEF HitBreakpoint
<1>2. CASE ProgramExit
  <2>1. sess' \in SessionFields
    BY <1>0, <1>2 DEF ProgramExit, SessionFields, States
  <2>2. sess'.st # "none" /\ sess'.owner = sess.owner /\ sess.owner \in Targets
    BY <1>0, <1>2 DEF ProgramExit, SessionFields
  <2>3. QED
    BY <1>2, <2>1, <2>2, SessionIntro DEF ProgramExit
<1>3. CASE FlushOutput
  <2>1. sess' \in SessionFields
    BY <1>0, <1>3 DEF FlushOutput, SessionFields
  <2>2. sess'.st = sess.st /\ sess'.owner = sess.owner
    BY <1>0, <1>3 DEF FlushOutput, SessionFields
  <2>3. QED
    BY <1>0, <1>3, <2>1, <2>2, SessionIntro DEF FlushOutput
<1>4. QED
  BY <1>1, <1>2, <1>3 DEF Debuggee

(***************************************************************************)
(* Harness bookkeeping.                                                    *)
(***************************************************************************)
\* The harness's own variables are well typed.
HarnessTypeOK ==
    /\ pc \in Labels
    /\ cur \in Scen
    /\ failed \in BOOLEAN
    /\ raised \in BOOLEAN
    /\ exitCode \in {-1, 0, 1}
    /\ verdict \in [Scen -> {"none", "pass", "fail", "skip"}]
    /\ idx \in 1..Len(Script)
    /\ seen \in BOOLEAN
    /\ cfg \in {"absent", "present", "removed"}
    /\ present \subseteq Tools
    /\ files \subseteq Files

LEMMA TypeOKSplit == TypeOK <=> DaemonTypeOK /\ HarnessTypeOK
BY DEF TypeOK, HarnessTypeOK

LEMMA FinishTyped ==
    ASSUME HarnessTypeOK, NEW v \in {"pass", "fail", "skip"}, Finish(v)
    PROVE  /\ verdict' \in [Scen -> {"none", "pass", "fail", "skip"}]
           /\ failed' \in BOOLEAN
           /\ pc' \in Labels
           /\ cur' \in Scen
BY DEF HarnessTypeOK, Finish, Scen, Following, Labels

LEMMA OnResultTyped ==
    ASSUME HarnessTypeOK, NEW ok \in BOOLEAN, NEW next \in Labels,
           OnResult(ok, next)
    PROVE  /\ verdict' \in [Scen -> {"none", "pass", "fail", "skip"}]
           /\ failed' \in BOOLEAN
           /\ pc' \in Labels
           /\ cur' \in Scen
<1>1. CASE ok
  BY <1>1 DEF OnResult, HarnessTypeOK
<1>2. CASE ~ok
  BY <1>2, FinishTyped DEF OnResult
<1>3. QED
  BY <1>1, <1>2

\* A step that leaves the daemon alone keeps it well typed.
LEMMA DaemonFrame ==
    ASSUME DaemonTypeOK, UNCHANGED daemonVars
    PROVE  DaemonTypeOK'
BY DEF DaemonTypeOK, daemonVars

\* A step of test_program that types the four scenario variables keeps
\* the harness well typed.
LEMMA HarnessFrame ==
    ASSUME HarnessTypeOK, Unchanged,
           verdict' \in [Scen -> {"none", "pass", "fail", "skip"}],
           failed' \in BOOLEAN, pc' \in Labels, cur' \in Scen
    PROVE  HarnessTypeOK'
BY DEF HarnessTypeOK, Unchanged

\* Each line of the complex app's script is one of the daemon commands.
LEMMA ExecIsCommand ==
    ASSUME NEW i \in 1..Len(Script), NEW ok, Exec(Script[i], ok)
    PROVE  \/ AddBreakpoint(ok) \/ Continue(ok) \/ Inspect(ok)
           \/ RemoveAllBreakpoints(ok) \/ Await(ok) \/ Output(ok)
<1>1. Script[i] \in {"break", "continue", "bt", "locals", "remove",
                     "await", "output"}
  BY DEF Script
<1>2. QED
  BY <1>1 DEF Exec

(***************************************************************************)
(* Type correctness.                                                       *)
(***************************************************************************)
\* The initial states of main() are well typed.
LEMMA TypeInit == Init => TypeOK
<1> SUFFICES ASSUME Init PROVE DaemonTypeOK /\ HarnessTypeOK
  BY DEF TypeOK, HarnessTypeOK
<1>1. NoSession \in Session
  BY DEF NoSession, Session, States
<1>2. DaemonTypeOK
  BY <1>1 DEF Init, DaemonInit, DaemonTypeOK
<1>3. Len(Script) = 9
  BY DEF Script
<1>4. pc \in Labels /\ cur \in Scen /\ idx \in 1..Len(Script)
  BY <1>3 DEF Init, Labels, Scen
<1>5. verdict \in [Scen -> {"none", "pass", "fail", "skip"}]
  BY DEF Init, Scen
<1>6. present \subseteq Tools /\ files \subseteq Files
  BY DEF Init
<1>7. HarnessTypeOK
  BY <1>4, <1>5, <1>6 DEF Init, HarnessTypeOK
<1>8. QED BY <1>2, <1>7

\* Every step of the harness and of the debuggee keeps the state well typed.
LEMMA TypeStep == TypeOK /\ [Next]_vars => TypeOK'
<1> SUFFICES ASSUME DaemonTypeOK, HarnessTypeOK, [Next]_vars
             PROVE  DaemonTypeOK' /\ HarnessTypeOK'
  BY DEF TypeOK, HarnessTypeOK
<1>1. CASE Main
  <2>1. DaemonTypeOK' BY <1>1, DaemonFrame DEF Main
  <2>2. HarnessTypeOK' BY <1>1 DEF Main, SetupConfig, HarnessTypeOK, Labels
  <2>3. QED BY <2>1, <2>2
<1>2. CASE EnterScenario
  <2>1. DaemonTypeOK' BY <1>2, DaemonFrame DEF EnterScenario
  <2>2. Unchanged BY <1>2 DEF EnterScenario, Unchanged
  <2>3. \/ pc' \in Labels /\ UNCHANGED <<verdict, failed, cur>>
        \/ \E v \in {"pass", "fail", "skip"} : Finish(v)
    <3>1. CASE cur \in {"c", "rs"} BY <1>2, <3>1 DEF EnterScenario, Labels
    <3>2. CASE cur = "py" BY <1>2, <3>2 DEF EnterScenario, Labels
    <3>3. CASE cur = "go" BY <1>2, <3>3 DEF EnterScenario, Labels
    <3>4. CASE cur = "cx" BY <1>2, <3>4 DEF EnterScenario, Labels
    <3>5. QED BY <3>1, <3>2, <3>3, <3>4 DEF HarnessTypeOK, Scen
  <2>4. verdict' \in [Scen -> {"none", "pass", "fail", "skip"}]
        /\ failed' \in BOOLEAN /\ pc' \in Labels /\ cur' \in Scen
    BY <2>3, FinishTyped DEF HarnessTypeOK
  <2>5. QED BY <2>1, <2>2, <2>4, HarnessFrame
<1>3. CASE WritePyFile
  <2>1. DaemonTypeOK' BY <1>3, DaemonFrame DEF WritePyFile
  <2>2. HarnessTypeOK' BY <1>3 DEF WritePyFile, HarnessTypeOK, Labels, Files
  <2>3. QED BY <2>1, <2>2
<1>4. CASE Compile
  <2>1. DaemonTypeOK' BY <1>4, DaemonFrame DEF Compile
  <2>2. Unchanged BY <1>4 DEF Compile, Unchanged
  <2>3. \/ pc' \in Labels /\ UNCHANGED <<verdict, failed, cur>>
        \/ \E ok \in BOOLEAN : OnResult(ok, "stop")
    BY <1>4 DEF Compile, Labels
  <2>4. verdict' \in [Scen -> {"none", "pass", "fail", "skip"}]
        /\ failed' \in BOOLEAN /\ pc' \in Labels /\ cur' \in Scen
    BY <2>3, OnResultTyped DEF HarnessTypeOK, Labels
  <2>5. QED BY <2>1, <2>2, <2>4, HarnessFrame
<1>5. CASE StopStale
  <2>1. PICK ok \in BOOLEAN : Stop(ok)
    BY <1>5 DEF StopStale
  <2>2. Unchanged /\ pc' = "start" /\ UNCHANGED <<verdict, failed, cur>>
    BY <1>5 DEF StopStale
  <2>3. verdict' \in [Scen -> {"none", "pass", "fail", "skip"}]
        /\ failed' \in BOOLEAN /\ pc' \in Labels /\ cur' \in Scen
    BY <2>2 DEF HarnessTypeOK, Labels
  <2>4. QED BY <2>1, <2>2, <2>3, CommandTyped, HarnessFrame
<1>6. CASE StartSession
  <2>1. PICK ok \in BOOLEAN : Start(cur, 1, ok) /\ OnResult(ok, "bpadd")
    BY <1>6 DEF StartSession
  <2>2. Unchanged BY <1>6 DEF StartSession
  <2>3. cur \in Targets /\ 1 \in 0..MaxHits
    BY DEF HarnessTypeOK
  <2>4. QED BY <2>1, <2>2, <2>3, StartTyped, OnResultTyped, HarnessFrame DEF Labels
<1>7. CASE SetBreakpoint
  <2>1. PICK ok \in BOOLEAN : AddBreakpoint(ok) /\ OnResult(ok, "cont1")
    BY <1>7 DEF SetBreakpoint
  <2>2. Unchanged BY <1>7 DEF SetBreakpoint
  <2>3. QED BY <2>1, <2>2, CommandTyped, OnResultTyped, HarnessFrame DEF Labels
<1>8. CASE ContinueFromEntry
  <2>1. PICK ok \in BOOLEAN : Continue(ok) /\ OnResult(ok, "await1")
    BY <1>8 DEF ContinueFromEntry
  <2>2. Unchanged BY <1>8 DEF ContinueFromEntry
  <2>3. QED BY <2>1, <2>2, CommandTyped, OnResultTyped, HarnessFrame DEF Labels
<1>9. CASE AwaitBreakpoint
  <2>1. PICK ok \in BOOLEAN : Await(ok) /\ OnResult(ok, "threads")
    BY <1>9 DEF AwaitBreakpoint
  <2>2. Unchanged BY <1>9 DEF AwaitBreakpoint
  <2>3. QED BY <2>1, <2>2, CommandTyped, OnResultTyped, HarnessFrame DEF Labels
<1>10. CASE Threads
  <2>1. PICK ok \in BOOLEAN : Inspect(ok)
    BY <1>10 DEF Threads
  <2>2. Unchanged /\ pc' = "locals" /\ UNCHANGED <<verdict, failed, cur>>
    BY <1>10 DEF Threads
  <2>3. verdict' \in [Scen -> {"none", "pass", "fail", "skip"}]
        /\ failed' \in BOOLEAN /\ pc' \in Labels /\ cur' \in Scen
    BY <2>2 DEF HarnessTypeOK, Labels
  <2>4. QED BY <2>1, <2>2, <2>3, CommandTyped, HarnessFrame
<1>11. CASE Locals
  <2>1. PICK ok \in BOOLEAN : Inspect(ok) /\ OnResult(ok, "cont2")
    BY <1>11 DEF Locals
  <2>2. Unchanged BY <1>11 DEF Locals
  <2>3. QED BY <2>1, <2>2, CommandTyped, OnResultTyped, HarnessFrame DEF Labels
<1>12. CASE ContinueToFinish
  <2>1. PICK ok \in BOOLEAN : Continue(ok) /\ OnResult(ok, "await2")
    BY <1>12 DEF ContinueToFinish
  <2>2. Unchanged BY <1>12 DEF ContinueToFinish
  <2>3. QED BY <2>1, <2>2, CommandTyped, OnResultTyped, HarnessFrame DEF Labels
<1>13. CASE AwaitExit
  <2>1. PICK ok \in BOOLEAN : Await(ok)
    BY <1>13 DEF AwaitExit
  <2>2. Unchanged /\ pc' = "output" /\ UNCHANGED <<verdict, failed, cur>>
    BY <1>13 DEF AwaitExit
  <2>3. verdict' \in [Scen -> {"none", "pass", "fail", "skip"}]
        /\ failed' \in BOOLEAN /\ pc' \in Labels /\ cur' \in Scen
    BY <2>2 DEF HarnessTypeOK, Labels
  <2>4. QED BY <2>1, <2>2, <2>3, CommandTyped, HarnessFrame
<1>14. CASE CheckOutput
  <2>1. PICK ok \in BOOLEAN :
          Output(ok) /\ Finish(IF ok /\ OutputHas(cur) THEN "pass" ELSE "fail")
    BY <1>14 DEF CheckOutput
  <2>2. Unchanged BY <1>14 DEF CheckOutput
  <2>3. (IF ok /\ OutputHas(cur) THEN "pass" ELSE "fail")
          \in {"pass", "fail", "skip"}
    OBVIOUS
  <2>4. QED BY <2>1, <2>2, <2>3, CommandTyped, FinishTyped, HarnessFrame
<1>15. CASE CxStop
  <2>1. PICK ok \in BOOLEAN : Stop(ok)
    BY <1>15 DEF CxStop
  <2>2. Unchanged /\ pc' = "cxstart" /\ UNCHANGED <<verdict, failed, cur>>
    BY <1>15 DEF CxStop
  <2>3. verdict' \in [Scen -> {"none", "pass", "fail", "skip"}]
        /\ failed' \in BOOLEAN /\ pc' \in Labels /\ cur' \in Scen
    BY <2>2 DEF HarnessTypeOK, Labels
  <2>4. QED BY <2>1, <2>2, <2>3, CommandTyped, HarnessFrame
<1>16. CASE CxStart
  <2>1. PICK ok \in BOOLEAN : Start(cur, RecursionHits, ok) /\ OnResult(ok, "batch")
    BY <1>16 DEF CxStart
  <2>2. Unchanged BY <1>16 DEF CxStart
  <2>3. cur \in Targets /\ RecursionHits \in 0..MaxHits
    BY DEF HarnessTypeOK
  <2>4. QED BY <2>1, <2>2, <2>3, StartTyped, OnResultTyped, HarnessFrame DEF Labels
<1>17. CASE BatchStep
  <2>1. PICK ok \in BOOLEAN :
          /\ Exec(Script[idx], ok)
          /\ seen' = (seen \/ (Script[idx] = "output" /\ ok /\ OutputHas(cur)))
    BY <1>17 DEF BatchStep
  <2>2. DaemonTypeOK' BY <2>1, ExecIsCommand, CommandTyped DEF HarnessTypeOK
  <2>3. Len(Script) = 9 BY DEF Script
  <2>4. HarnessTypeOK'
    BY <1>17, <2>1, <2>3 DEF BatchStep, HarnessTypeOK, Labels
  <2>5. QED BY <2>2, <2>4
<1>18. CASE CxCheck
  <2>1. DaemonTypeOK' BY <1>18, DaemonFrame DEF CxCheck
  <2>2. Finish(IF seen THEN "pass" ELSE "fail") /\ Unchanged
    BY <1>18 DEF CxCheck
  <2>3. (IF seen THEN "pass" ELSE "fail") \in {"pass", "fail", "skip"}
    OBVIOUS
  <2>4. QED BY <2>1, <2>2, <2>3, FinishTyped, HarnessFrame
<1>19. CASE Cleanup
  <2>1. DaemonTypeOK' BY <1>19, DaemonFrame DEF Cleanup
  <2>2. HarnessTypeOK' BY <1>19 DEF Cleanup, HarnessTypeOK, Labels
  <2>3. QED BY <2>1, <2>2
<1>20. CASE DebuggeeStep
  <2>1. DaemonTypeOK' BY <1>20, DebuggeeTyped DEF DebuggeeStep
  <2>2. HarnessTypeOK' BY <1>20 DEF DebuggeeStep, harnessVars, HarnessTypeOK
  <2>3. QED BY <2>1, <2>2
<1>21. CASE Terminated \/ UNCHANGED vars
  <2>1. UNCHANGED daemonVars /\ UNCHANGED harnessVars
    BY <1>21 DEF Terminated, vars
  <2>2. DaemonTypeOK' BY <2>1, DaemonFrame
  <2>3. HarnessTypeOK' BY <2>1 DEF harnessVars, HarnessTypeOK
  <2>4. QED BY <2>2, <2>3
<1>22. QED
  BY <1>1, <1>2, <1>3, <1>4, <1>5, <1>6, <1>7, <1>8, <1>9, <1>10,
     <1>11, <1>12, <1>13, <1>14, <1>15, <1>16, <1>17, <1>18, <1>19,
     <1>20, <1>21 DEF Next, HarnessStep

\* Type correctness of the harness together with the daemon: every variable
\* of run_tests.py's main() and of the session it drives stays in its type.
THEOREM TypeCorrect == Spec => []TypeOK
BY TypeInit, TypeStep, PTL DEF Spec

(***************************************************************************)
(* Ownership: the steps of a scenario talk to the session that scenario    *)
(* started.                                                                *)
(***************************************************************************)
\* A reply leaves the session as it was or moves it to the new state.
LEMMA ReplyCases ==
    ASSUME NEW ok, NEW valid, NEW new, Reply(ok, valid, new)
    PROVE  sess' = sess \/ sess' = new
BY DEF Reply

\* A start that reports success has created the new session.
LEMMA StartOk ==
    ASSUME NEW t, NEW hits, Start(t, hits, TRUE)
    PROVE  sess'.st = "entry" /\ sess'.owner = t
BY DEF Start, Reply

\* Commands other than `stop`, and the debuggee, never end a live session
\* and never change whose session it is.
LEMMA KeepsSession ==
    ASSUME DaemonTypeOK, sess.st # "none", NEW ok,
           \/ AddBreakpoint(ok) \/ RemoveAllBreakpoints(ok) \/ Continue(ok)
           \/ Await(ok) \/ Inspect(ok) \/ Output(ok) \/ Debuggee
    PROVE  sess'.st # "none" /\ sess'.owner = sess.owner
<1>0. sess \in SessionFields
  BY SessionElim DEF DaemonTypeOK
<1>1. CASE AddBreakpoint(ok)
  <2>1. PICK bound \in BOOLEAN :
          Reply(ok, sess.st \in {"entry", "running", "bp"},
                [sess EXCEPT !.bp = sess.bp \/ bound])
    BY <1>1 DEF AddBreakpoint
  <2>2. QED BY <2>1, <1>0, ReplyCases DEF SessionFields
<1>2. CASE RemoveAllBreakpoints(ok)
  BY <1>2, <1>0, ReplyCases DEF RemoveAllBreakpoints, SessionFields
<1>3. CASE Continue(ok)
  BY <1>3, <1>0, ReplyCases DEF Continue, SessionFields
<1>4. CASE Await(ok)
  BY <1>4 DEF Await, daemonVars
<1>5. CASE Inspect(ok) \/ Output(ok)
  BY <1>5, ReplyCases DEF Inspect, Output
<1>6. CASE Debuggee
  BY <1>6, <1>0 DEF Debuggee, HitBreakpoint, ProgramExit, FlushOutput,
                    SessionFields
<1>7. QED BY <1>1, <1>2, <1>3, <1>4, <1>5, <1>6

\* Finishing a scenario leaves its steps.
LEMMA FinishLeaves ==
    ASSUME NEW v, Finish(v)
    PROVE  pc' \notin SessionSteps
BY DEF Finish, SessionSteps

\* A step that reports success keeps the scenario; one that fails leaves it.
LEMMA OnResultOwner ==
    ASSUME NEW ok, NEW next, OnResult(ok, next)
    PROVE  /\ ok => pc' = next /\ cur' = cur
           /\ ~ok => pc' \notin SessionSteps
BY FinishLeaves DEF OnResult

OwnInv == TypeOK /\ Ownership

\* A step inside a scenario whose command keeps the session, and whose
\* outcome keeps the scenario or leaves it, keeps Ownership.
LEMMA InsideStep ==
    ASSUME OwnInv, pc \in SessionSteps, sess'.st # "none",
           sess'.owner = sess.owner,
           pc' \in SessionSteps => cur' = cur
    PROVE  Ownership'
BY DEF OwnInv, Ownership

LEMMA OwnStep == OwnInv /\ [Next]_vars => Ownership'
<1> SUFFICES ASSUME OwnInv, [Next]_vars PROVE Ownership'
  OBVIOUS
<1>0. DaemonTypeOK BY DEF OwnInv, TypeOK
<1> DEFINE Outside == pc' \notin SessionSteps
<1>1. Outside => Ownership'
  BY DEF Ownership
<1>2. CASE Main \/ EnterScenario \/ WritePyFile \/ Compile \/ StopStale
           \/ CxStop \/ Cleanup
  <2>1. CASE EnterScenario
    <3>1. CASE cur \in {"c", "rs"} BY <2>1, <3>1, <1>1 DEF EnterScenario, SessionSteps
    <3>2. CASE cur = "py" BY <2>1, <3>2, FinishLeaves, <1>1 DEF EnterScenario, SessionSteps
    <3>3. CASE cur = "go" BY <2>1, <3>3, FinishLeaves, <1>1 DEF EnterScenario, SessionSteps
    <3>4. CASE cur = "cx" BY <2>1, <3>4, FinishLeaves, <1>1 DEF EnterScenario, SessionSteps
    <3>5. QED BY <3>1, <3>2, <3>3, <3>4, <1>1 DEF OwnInv, TypeOK, Scen
  <2>2. CASE Compile
    BY <2>2, <1>1, OnResultOwner DEF Compile, SessionSteps
  <2>3. QED
    BY <1>2, <2>1, <2>2, <1>1 DEF Main, WritePyFile, StopStale, CxStop,
                                Cleanup, SessionSteps
<1>3. CASE StartSession \/ CxStart
  <2>1. PICK ok \in BOOLEAN, h \in {1, RecursionHits} :
          Start(cur, h, ok) /\ OnResult(ok, IF pc = "start" THEN "bpadd" ELSE "batch")
    BY <1>3 DEF StartSession, CxStart
  <2>2. CASE ok
    <3>1. sess'.st = "entry" /\ sess'.owner = cur
      BY <2>1, <2>2, StartOk
    <3>2. cur' = cur BY <2>1, <2>2, OnResultOwner
    <3>3. QED BY <3>1, <3>2 DEF Ownership
  <2>3. CASE ~ok
    BY <2>1, <2>3, <1>1, OnResultOwner
  <2>4. QED BY <2>2, <2>3
<1>4. CASE SetBreakpoint \/ ContinueFromEntry \/ AwaitBreakpoint \/ Locals
           \/ ContinueToFinish
  <2>1. PICK ok \in BOOLEAN, next \in Labels :
          /\ AddBreakpoint(ok) \/ Continue(ok) \/ Await(ok) \/ Inspect(ok)
          /\ OnResult(ok, next)
    BY <1>4 DEF SetBreakpoint, ContinueFromEntry, AwaitBreakpoint, Locals,
                ContinueToFinish, Labels
  <2>2. pc \in SessionSteps
    BY <1>4 DEF SetBreakpoint, ContinueFromEntry, AwaitBreakpoint, Locals,
                ContinueToFinish, SessionSteps
  <2>3. sess.st # "none" BY <2>2 DEF OwnInv, Ownership
  <2>4. sess'.st # "none" /\ sess'.owner = sess.owner
    BY <2>1, <2>3, <1>0, KeepsSession
  <2>5. pc' \in SessionSteps => cur' = cur
    BY <2>1, OnResultOwner
  <2>6. QED BY <2>2, <2>4, <2>5, InsideStep
<1>5. CASE Threads \/ AwaitExit
  <2>1. PICK ok \in BOOLEAN : Inspect(ok) \/ Await(ok)
    BY <1>5 DEF Threads, AwaitExit
  <2>2. pc \in SessionSteps /\ cur' = cur
    BY <1>5 DEF Threads, AwaitExit, SessionSteps
  <2>3. sess.st # "none" BY <2>2 DEF OwnInv, Ownership
  <2>4. sess'.st # "none" /\ sess'.owner = sess.owner
    BY <2>1, <2>3, <1>0, KeepsSession
  <2>5. QED BY <2>2, <2>4, InsideStep
<1>6. CASE CheckOutput \/ CxCheck
  BY <1>6, <1>1, FinishLeaves DEF CheckOutput, CxCheck
<1>7. CASE BatchStep
  <2>1. PICK ok \in BOOLEAN : Exec(Script[idx], ok)
    BY <1>7 DEF BatchStep
  <2>2. idx \in 1..Len(Script) BY DEF OwnInv, TypeOK
  <2>3. pc \in SessionSteps /\ cur' = cur
    BY <1>7 DEF BatchStep, SessionSteps
  <2>4. sess.st # "none" BY <2>3 DEF OwnInv, Ownership
  <2>5. sess'.st # "none" /\ sess'.owner = sess.owner
    BY <2>1, <2>2, <2>4, <1>0, ExecIsCommand, KeepsSession
  <2>6. QED BY <2>3, <2>5, InsideStep
<1>8. CASE DebuggeeStep
  <2>1. UNCHANGED harnessVars BY <1>8 DEF DebuggeeStep
  <2>2. CASE pc \in SessionSteps
    <3>1. sess.st # "none" BY <2>2 DEF OwnInv, Ownership
    <3>2. sess'.st # "none" /\ sess'.owner = sess.owner
      BY <1>8, <3>1, <1>0, KeepsSession DEF DebuggeeStep
    <3>3. QED BY <2>1, <2>2, <3>2, InsideStep DEF harnessVars
  <2>3. CASE pc \notin SessionSteps
    BY <2>1, <2>3, <1>1 DEF harnessVars
  <2>4. QED BY <2>2, <2>3
<1>9. CASE Terminated \/ UNCHANGED vars
  BY <1>9 DEF Terminated, vars, harnessVars, daemonVars, OwnInv, Ownership
<1>10. QED
  BY <1>2, <1>3, <1>4, <1>5, <1>6, <1>7, <1>8, <1>9 DEF Next, HarnessStep

\* Every CLI call a scenario makes after its `start` is about the session
\* that scenario started: no step of test_program or test_complex_python
\* talks to an empty daemon or to the previous scenario's debuggee.
THEOREM OwnershipInvariant == Spec => []Ownership
<1>1. Init => OwnInv
  BY TypeInit DEF Init, OwnInv, Ownership, SessionSteps
<1>2. OwnInv /\ [Next]_vars => OwnInv'
  BY TypeStep, OwnStep DEF OwnInv
<1>3. OwnInv => Ownership
  BY DEF OwnInv
<1>4. QED
  BY <1>1, <1>2, <1>3, PTL DEF Spec

=============================================================================
