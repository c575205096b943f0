--------------------------- MODULE DebuggerDaemon ---------------------------
(***************************************************************************)
(* The debugger daemon behind the `debugger` CLI, as the e2e harness sees  *)
(* it: one session per runtime-socket path, driven by one CLI invocation   *)
(* per command, plus the debuggee it controls.  The daemon's code is part  *)
(* of the repository but not under src/, so this module is written from    *)
(* the session lifecycle of spec section 4.4 and the await/output notes of *)
(* sections 4.4 and 5.                                                     *)
(*                                                                         *)
(* Every command is an operator with a Boolean parameter `ok`: the exit    *)
(* status the CLI process reports (TRUE = exit code 0).                    *)
(***************************************************************************)
EXTENDS Naturals

CONSTANTS
    Targets,      \* the debuggees a session can be started on
    NoTarget,     \* owner of the empty session
    MaxHits       \* bound on how often one session's breakpoint is hit

ASSUME DaemonAssumption ==
    /\ NoTarget \notin Targets
    /\ MaxHits \in Nat \ {0}

VARIABLES
    sess,         \* the daemon's single session
    stoppedAt,    \* history: debuggees that stopped at a breakpoint
    printed       \* history: debuggees that wrote their output line

daemonVars == <<sess, stoppedAt, printed>>

(***************************************************************************)
(* st    : Unstarted ("none"), StoppedAtEntry ("entry"), "running",         *)
(*         StoppedAtBreakpoint ("bp"), "exited"                            *)
(* owner : the debuggee the session was started on                         *)
(* bp    : a bound breakpoint is set                                       *)
(* hits  : how many more times the debuggee will reach that breakpoint     *)
(* pipe  : the debuggee wrote its output line, not yet in the buffer       *)
(* buf   : the output line is in the daemon's output buffer                *)
(***************************************************************************)
States == {"none", "entry", "running", "bp", "exited"}
Stopped == {"entry", "bp"}

\* A live session always belongs to a debuggee.
Session == {r \in [st : States, owner : Targets \cup {NoTarget},
                   bp : BOOLEAN, hits : 0..MaxHits, pipe : BOOLEAN,
                   buf : BOOLEAN] : r.st # "none" => r.owner \in Targets}

NoSession == [st |-> "none", owner |-> NoTarget, bp |-> FALSE,
              hits |-> 0, pipe |-> FALSE, buf |-> FALSE]

DaemonTypeOK ==
    /\ sess \in Session
    /\ stoppedAt \subseteq Targets
    /\ printed \subseteq Targets

DaemonInit ==
    /\ sess = NoSession
    /\ stoppedAt = {}
    /\ printed = {}

(***************************************************************************)
(* Commands (spec 4.4 table, spec 6 CLI surface).                          *)
(*                                                                         *)
(* Reply(ok, valid, new): a command valid in the current state succeeds    *)
(* and moves the session to `new`; an invalid one fails with no effect.    *)
(* A valid request may also exceed the generic request timeout (spec 5):   *)
(* the CLI then fails, and the adapter may or may not have carried the     *)
(* request out.                                                            *)
(***************************************************************************)
Reply(ok, valid, new) ==
    /\ \/ ok = valid /\ sess' = IF valid THEN new ELSE sess
       \/ ~ok /\ valid /\ sess' \in {sess, new}
    /\ UNCHANGED <<stoppedAt, printed>>

\* `stop`: ends any session.  It is best effort: with nothing running, or
\* when it times out, it may report failure.
Stop(ok) == Reply(ok, TRUE, NoSession)

\* `start <target> --stop-on-entry`: only from Unstarted (the daemon is a
\* singleton per runtime directory).  A new session has an empty output
\* buffer and `hits` breakpoint hits ahead of it.
Start(t, hits, ok) ==
    Reply(ok, sess.st = "none",
          [st |-> "entry", owner |-> t, bp |-> FALSE,
           hits |-> hits, pipe |-> FALSE, buf |-> FALSE])

\* `breakpoint add <loc>` (`break <loc>` in the interactive CLI): the
\* adapter either binds it or keeps it unverified, and the debuggee never
\* stops at an unverified one.
AddBreakpoint(ok) ==
    \E bound \in BOOLEAN :
        Reply(ok, sess.st \in {"entry", "running", "bp"},
              [sess EXCEPT !.bp = sess.bp \/ bound])

\* `break remove --all`.
RemoveAllBreakpoints(ok) ==
    Reply(ok, sess.st \in {"entry", "running", "bp"}, [sess EXCEPT !.bp = FALSE])

\* `continue`: only from a stopped state.
Continue(ok) ==
    Reply(ok, sess.st \in Stopped, [sess EXCEPT !.st = "running"])

\* Mutant of Await: no await-default timeout.
AwaitNoTimeout(ok) ==
    /\ \/ sess.st \in Stopped /\ ok
       \/ sess.st = "exited"
       \/ sess.st = "none" /\ ~ok
    /\ UNCHANGED daemonVars

\* `await`: blocks until the session stops or exits, or the await-default
\* timeout fires.  A running session can only time out (the successful
\* return happens after a debuggee step); an exited session may report
\* the await as failed; with no session it fails.
Await(ok) ==
    /\ \/ sess.st \in Stopped /\ ok
       \/ sess.st = "exited"
       \/ sess.st \in {"running", "none"} /\ ~ok
    /\ UNCHANGED daemonVars

\* `threads`, `locals`, `bt`: read-only inspection of a stopped session.
Inspect(ok) == Reply(ok, sess.st \in Stopped, sess)

\* `output`: the buffered stdout of the session's debuggee.  OutputHas(t)
\* is the check `expected in out_prog` for the line debuggee t prints,
\* when the call succeeded.
Output(ok) == Reply(ok, sess.st # "none", sess)

OutputHas(t) == sess.st # "none" /\ sess.buf /\ sess.owner = t

(***************************************************************************)
(* The debuggee under the session, concurrent with every command.          *)
(***************************************************************************)

\* It reaches the bound breakpoint and the daemon reports the stop.
HitBreakpoint ==
    /\ sess.st = "running" /\ sess.bp /\ sess.hits > 0
    /\ sess' = [sess EXCEPT !.st = "bp", !.hits = @ - 1]
    /\ stoppedAt' = stoppedAt \cup {sess.owner}
    /\ UNCHANGED printed

\* It prints its line and exits; the exit event may reach the daemon
\* before the output line does.
ProgramExit ==
    /\ sess.st = "running" /\ (~sess.bp \/ sess.hits = 0)
    /\ sess' = [sess EXCEPT !.st = "exited", !.pipe = TRUE]
    /\ printed' = printed \cup {sess.owner}
    /\ UNCHANGED stoppedAt

\* The output line reaches the daemon's buffer.
FlushOutput ==
    /\ sess.pipe
    /\ sess' = [sess EXCEPT !.pipe = FALSE, !.buf = TRUE]
    /\ UNCHANGED <<stoppedAt, printed>>

Debuggee == HitBreakpoint \/ ProgramExit \/ FlushOutput

=============================================================================
