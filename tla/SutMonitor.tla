----------------------------- MODULE SutMonitor -----------------------------
(***************************************************************************)
(* The server-under-test as a subprocess (fixtures.py:190-277): the        *)
(* process writes lines to a bounded pipe, a monitor thread reads them,    *)
(* raises the start event and the error flag, and the session waits for    *)
(* the start, checks the flag around every test, kills the process and     *)
(* joins the thread.                                                       *)
(*                                                                         *)
(* A line is what the two matchers tell apart: the start line, an error    *)
(* line, or another one.  A child process of the server-under-test may     *)
(* have inherited the pipe and survive the kill ("orphan").                *)
(***************************************************************************)
EXTENDS Naturals, Sequences

CONSTANTS NumTests,         \* bound: tests of the session
          NumLines,         \* bound: lines the process prints
          PipeSize,         \* lines the pipe holds before a writer blocks
          HasStartMatcher,  \* config.start_matcher is set
          HasErrorMatcher   \* config.error_matcher is set

ASSUME MonitorAssumption ==
  /\ NumTests \in Nat
  /\ NumLines \in Nat
  /\ PipeSize \in Nat \ {0}
  /\ HasStartMatcher \in BOOLEAN
  /\ HasErrorMatcher \in BOOLEAN

Lines == {"start", "error", "other"}

\* How a test ended: failed by check_server_state, had the key "xfail".
Result == [failed : BOOLEAN, xfail : BOOLEAN]

VARIABLES
  spc,         \* the session: before the fixture, waiting for the start,
               \* ready for a test, in a test, joining, closing, ended
  xfail,       \* the running test's configuration has the key "xfail"
  results,     \* per finished test: failed by the check, had the key
  sut,         \* the process
  orphan,      \* a child of the process keeps the pipe open
  pipe,        \* lines written and not read
  printed,     \* number of lines written so far
  closed,      \* Popen.__exit__ has closed the reading end
  mpc,         \* the monitor thread
  line,        \* the line it read last
  startEvent,  \* start_event is set
  serverError, \* the global _server_error
  seenIn       \* the test during which an error line was read, 0 if none
               \* (for the properties)

sessionVars == <<spc, xfail, results>>
sutVars == <<sut, orphan, printed>>
monitorVars == <<mpc, line, startEvent>>
vars == <<spc, xfail, results, sut, orphan, pipe, printed, closed, mpc, line,
          startEvent, serverError, seenIn>>

Init ==
  /\ spc = "before"
  /\ xfail = FALSE
  /\ results = << >>
  /\ sut = "off"
  /\ orphan \in BOOLEAN
  /\ pipe = << >>
  /\ printed = 0
  /\ closed = FALSE
  /\ mpc = "off"
  /\ line = "none"
  /\ startEvent = FALSE
  /\ serverError = FALSE
  /\ seenIn = 0

PipeOpen == sut = "up" \/ (orphan /\ sut = "dead")

-----------------------------------------------------------------------------
(***************************************************************************)
(* The process.                                                            *)
(***************************************************************************)
WriteLine(l) ==
  /\ sut = "up"
  /\ printed < NumLines
  /\ Len(pipe) < PipeSize
  /\ pipe' = Append(pipe, l)
  /\ printed' = printed + 1
  /\ UNCHANGED <<sessionVars, sut, orphan, closed, monitorVars, serverError,
                 seenIn>>

Crash ==
  /\ sut = "up"
  /\ sut' = "dead"
  /\ UNCHANGED <<sessionVars, orphan, pipe, printed, closed, monitorVars,
                 serverError, seenIn>>

-----------------------------------------------------------------------------
(***************************************************************************)
(* The monitor thread.                                                     *)
(***************************************************************************)

\* What readline() needs to return or raise.
Readable == pipe # << >> \/ ~PipeOpen \/ closed

\* One call of the local function readline(): an error line sets the flag
\* and raises, and so does a closed pipe; either ends the thread, inside the
\* try block or outside.  At the end of the output readline() returns the
\* empty string, written "eof" here.
ReadLine(next) ==
  /\ Readable
  /\ IF closed
       THEN mpc' = "exit" /\ UNCHANGED <<pipe, line, serverError, seenIn>>
     ELSE IF pipe = << >>
       THEN mpc' = next /\ line' = "eof" /\ UNCHANGED <<pipe, serverError, seenIn>>
     ELSE
       /\ pipe' = Tail(pipe)
       /\ line' = Head(pipe)
       /\ IF HasErrorMatcher /\ Head(pipe) = "error"
            THEN /\ serverError' = TRUE
                 /\ seenIn' = IF spc = "test" THEN Len(results) + 1 ELSE 0
                 /\ mpc' = "exit"
            ELSE mpc' = next /\ UNCHANGED <<serverError, seenIn>>

ReadFirst ==
  /\ mpc = "first"
  /\ ReadLine("match")
  /\ UNCHANGED <<sessionVars, sutVars, closed, startEvent>>

Matched == HasStartMatcher => line = "start"

\* The start line has been read, or there is no start_matcher and any first
\* line, the empty one at the end of the output included, will do.
SetStartEvent ==
  /\ mpc = "match"
  /\ Matched
  /\ startEvent' = TRUE
  /\ mpc' = "drain"
  /\ UNCHANGED <<sessionVars, sutVars, pipe, closed, line, serverError, seenIn>>

\* while not config.start_matcher(line): the loop does not test for the end
\* of the output.
ReadPending ==
  /\ mpc = "match"
  /\ ~Matched
  /\ ReadLine("match")
  /\ UNCHANGED <<sessionVars, sutVars, closed, startEvent>>

\* Mutant: nothing reads the output once the server has started.
DrainForgotten == FALSE

\* while line: line = readline().
Drain ==
  /\ mpc = "drain"
  /\ line # "eof"
  /\ ReadLine("drain")
  /\ UNCHANGED <<sessionVars, sutVars, closed, startEvent>>

DrainEnds ==
  /\ mpc = "drain"
  /\ line = "eof"
  /\ mpc' = "exit"
  /\ UNCHANGED <<sessionVars, sutVars, pipe, closed, line, startEvent,
                 serverError, seenIn>>

Monitor == ReadFirst \/ SetStartEvent \/ ReadPending \/ Drain \/ DrainEnds

\* The thread is inside readline() and holds the buffer's lock.
InRead ==
  /\ ~Readable
  /\ \/ mpc = "first"
     \/ mpc = "match" /\ ~Matched
     \/ mpc = "drain" /\ line # "eof"

-----------------------------------------------------------------------------
(***************************************************************************)
(* The session: local_server_subprocess and check_server_state.            *)
(***************************************************************************)
StartServer ==
  /\ spc = "before"
  /\ sut' = "up"
  /\ mpc' = "first"
  /\ spc' = "waiting"
  /\ UNCHANGED <<xfail, results, orphan, pipe, printed, closed, line,
                 startEvent, serverError, seenIn>>

\* start_event.wait(10) returns because the event is set, or gives up; the
\* session goes on in both cases.
WaitEnds ==
  /\ spc = "waiting"
  /\ spc' = "ready"
  /\ UNCHANGED <<xfail, results, sutVars, pipe, closed, monitorVars,
                 serverError, seenIn>>

\* Mutant: the flag is not reset before a test.
BeginTestNoReset(x) ==
  /\ spc = "ready"
  /\ Len(results) < NumTests
  /\ spc' = "test"
  /\ xfail' = x
  /\ UNCHANGED <<results, sutVars, pipe, closed, monitorVars, serverError, seenIn>>

\* check_server_state up to its yield.
BeginTest(x) ==
  /\ spc = "ready"
  /\ Len(results) < NumTests
  /\ spc' = "test"
  /\ xfail' = x
  /\ serverError' = FALSE
  /\ UNCHANGED <<results, sutVars, pipe, closed, monitorVars, seenIn>>

\* check_server_state after its yield.
EndTest ==
  /\ spc = "test"
  /\ spc' = "ready"
  /\ results' = Append(results, [failed |-> ~xfail /\ serverError,
                                 xfail |-> xfail])
  /\ UNCHANGED <<xfail, sutVars, pipe, closed, monitorVars, serverError, seenIn>>

\* Mutant: the process may ignore the signal.
KillIgnored ==
  /\ spc = "ready"
  /\ Len(results) = NumTests
  /\ spc' = "joining"
  /\ UNCHANGED <<xfail, results, sutVars, pipe, closed, monitorVars,
                 serverError, seenIn>>

\* server.kill(): a direct child only.
Kill ==
  /\ spc = "ready"
  /\ Len(results) = NumTests
  /\ sut' = "dead"
  /\ spc' = "joining"
  /\ UNCHANGED <<xfail, results, orphan, pipe, printed, closed, monitorVars,
                 serverError, seenIn>>

\* server_output_thread.join(10): the thread has ended, or the time is up.
Join ==
  /\ spc = "joining"
  /\ spc' = "closing"
  /\ UNCHANGED <<xfail, results, sutVars, pipe, closed, monitorVars,
                 serverError, seenIn>>

\* Mutant: the process is not used as a context manager.
CloseForgotten ==
  /\ spc = "closing"
  /\ spc' = "ended"
  /\ UNCHANGED <<xfail, results, sutVars, pipe, closed, monitorVars,
                 serverError, seenIn>>

\* Popen.__exit__ closes stdout, which takes the buffer's lock.
Close ==
  /\ spc = "closing"
  /\ ~InRead
  /\ closed' = TRUE
  /\ spc' = "ended"
  /\ UNCHANGED <<xfail, results, sutVars, pipe, monitorVars, serverError, seenIn>>

Session ==
  \/ StartServer
  \/ WaitEnds
  \/ \E x \in BOOLEAN : BeginTest(x)
  \/ EndTest
  \/ Kill
  \/ Join
  \/ Close

Next ==
  \/ \E l \in Lines : WriteLine(l)
  \/ Crash
  \/ Monitor
  \/ Session

Spec == Init /\ [][Next]_vars

\* The monitor thread runs whenever it can, and the session goes on: tests
\* end, waits and joins have time-outs.
FairSpec == Spec /\ WF_vars(Monitor) /\ WF_vars(Session)

-----------------------------------------------------------------------------
TypeOK ==
  /\ spc \in {"before", "waiting", "ready", "test", "joining", "closing", "ended"}
  /\ xfail \in BOOLEAN
  /\ results \in Seq(Result)
  /\ Len(results) <= NumTests
  /\ sut \in {"off", "up", "dead"}
  /\ orphan \in BOOLEAN
  /\ pipe \in Seq(Lines)
  /\ Len(pipe) <= PipeSize
  /\ printed \in 0 .. NumLines
  /\ closed \in BOOLEAN
  /\ mpc \in {"off", "first", "match", "drain", "exit"}
  /\ line \in Lines \cup {"none", "eof"}
  /\ startEvent \in BOOLEAN
  /\ serverError \in BOOLEAN
  /\ seenIn \in 0 .. NumTests

\* A test is failed by check_server_state exactly when an error line was
\* read while it ran and its configuration lacks the key "xfail"
\* (fixtures.py:271-277): an error read before its setup is not blamed on
\* it, and an error read before its teardown is never overlooked.
BlameExact ==
  \A k \in 1 .. Len(results) :
    results[k].failed <=> (seenIn = k /\ ~results[k].xfail)

\* The flag and the test it belongs to, while that test runs; the first error
\* line is the last line the monitor reads.
FlagInStep ==
  /\ spc = "before" => mpc = "off"
  /\ spc = "test" => Len(results) < NumTests
  /\ spc = "test" => (serverError <=> seenIn = Len(results) + 1)
  /\ seenIn <= Len(results) + (IF spc = "test" THEN 1 ELSE 0)
  /\ (seenIn # 0 \/ serverError) => mpc = "exit"

\* The inductive invariant behind BlameExact.
IInv == TypeOK /\ FlagInStep /\ BlameExact

\* A process that filled the pipe is not left blocked in its write, whatever
\* the session does meanwhile, unless the monitor has ended: at an error line
\* (fixtures.py:218-220), or because the pipe was closed under it.
WriterGoesOn ==
  (sut = "up" /\ Len(pipe) = PipeSize)
    ~> (Len(pipe) < PipeSize \/ mpc = "exit")

\* The teardown of the session ends, unless a child of the process keeps the
\* pipe open under the monitor's read: then closing stdout waits for a lock
\* that readline() never releases (fixtures.py:246-263).
TeardownEnds == (spc = "joining" /\ ~orphan) ~> (spc = "ended")

\* After the session the monitor thread ends as well, even when it was
\* looping over the end of the output in search of the start line
\* (fixtures.py:226-229); it is not a daemon and would keep pytest alive.
MonitorEnds == (spc = "ended") ~> (mpc = "exit")
=============================================================================
