-------------------------- MODULE ServerLifecycle --------------------------
(***************************************************************************)
(* The life of the simulated server within a pytest session: the session   *)
(* fixture remote_http_server creates it the first time a test asks for it *)
(* (fixtures.py:165-177, http/client.py:56-61), the autouse fixture resets *)
(* it before every test if the global _remote_http_server says that it     *)
(* exists (fixtures.py:180-187), its thread binds the port and serves      *)
(* (http/server.py:130-143), and the end of the session stops it           *)
(* (http/server.py:145-147).                                               *)
(***************************************************************************)
EXTENDS Naturals

CONSTANTS NumTests  \* bound: tests of the session

ASSUME LifecycleAssumption == NumTests \in Nat

VARIABLES
  session,    \* idle, in a test's setup, testing, stopping, ended
  test,       \* number of the last test
  global,     \* _remote_http_server is set
  published,  \* the tests whose documents are in self._documents
  taken,      \* another process owns the port of remote_base_url
  thread,     \* none, started, bound, serving, failed, done
  httpd,      \* self.httpd is set
  request,    \* the server loop has been asked to shut down
  down,       \* the event the server loop sets when it ends
  skipped     \* stop() found no httpd (for the properties)

sessionVars == <<session, test, global, published>>
threadVars == <<thread, httpd, request, down>>
vars == <<session, test, global, published, taken, thread, httpd, request,
          down, skipped>>

\* find_available_tcp_port tries the port 0, which any free port satisfies, and
\* returns the first number of its range: nobody knows whether it is free.
PortTaken == BOOLEAN

Init ==
  /\ session = "idle"
  /\ test = 0
  /\ global = FALSE
  /\ published = {}
  /\ taken \in PortTaken
  /\ thread = "none"
  /\ httpd = FALSE
  /\ request = FALSE
  /\ down = FALSE
  /\ skipped = FALSE

-----------------------------------------------------------------------------
(***************************************************************************)
(* The session.                                                            *)
(***************************************************************************)
BeginTest ==
  /\ session = "idle"
  /\ test < NumTests
  /\ test' = test + 1
  /\ session' = "setup"
  /\ UNCHANGED <<global, published, taken, threadVars, skipped>>

\* Mutant: the fixture asks whether the server is already serving.
ResetIfServing ==
  /\ session = "setup"
  /\ session' = "testing"
  /\ published' = IF global /\ thread = "serving" THEN {} ELSE published
  /\ UNCHANGED <<test, global, taken, threadVars, skipped>>

\* reset_remote_http_server runs before any fixture that uses the server.
ResetFixture ==
  /\ session = "setup"
  /\ session' = "testing"
  /\ published' = IF global THEN {} ELSE published
  /\ UNCHANGED <<test, global, taken, threadVars, skipped>>

\* A fixture that comes before the reset has ended the test.
LeaveSetup ==
  /\ session = "setup"
  /\ session' = "idle"
  /\ UNCHANGED <<test, global, published, taken, threadVars, skipped>>

\* remote_http_server: construct, start the thread and set the global.  The
\* barrier in start() has one party, so start() does not wait for run().
Create ==
  /\ session = "testing"
  /\ ~global
  /\ global' = TRUE
  /\ thread' = "started"
  /\ UNCHANGED <<session, test, published, taken, httpd, request, down,
                 skipped>>

Publish ==
  /\ session = "testing"
  /\ global
  /\ published' = published \cup {test}
  /\ UNCHANGED <<session, test, global, taken, threadVars, skipped>>

EndTest ==
  /\ session = "testing"
  /\ session' = "idle"
  /\ UNCHANGED <<test, global, published, taken, threadVars, skipped>>

\* Mutant: the session only drops its reference to the server.
FinishUnstopped ==
  /\ session = "idle"
  /\ test = NumTests
  /\ session' = "ended"
  /\ global' = FALSE
  /\ UNCHANGED <<test, published, taken, threadVars, skipped>>

\* The end of the session: stop() asks the loop to shut down and waits for
\* it, but does nothing when the thread has not set self.httpd (yet).
Finish ==
  /\ session = "idle"
  /\ test = NumTests
  /\ global' = FALSE
  /\ IF global /\ httpd
       THEN session' = "stopping" /\ request' = TRUE /\ UNCHANGED skipped
       ELSE session' = "ended" /\ skipped' = global /\ UNCHANGED request
  /\ UNCHANGED <<test, published, taken, thread, httpd, down>>

\* shutdown() returns.
StopReturns ==
  /\ session = "stopping"
  /\ down
  /\ session' = "ended"
  /\ UNCHANGED <<test, global, published, taken, threadVars, skipped>>

-----------------------------------------------------------------------------
(***************************************************************************)
(* The server thread.                                                      *)
(***************************************************************************)

\* Mutant: self.httpd is assigned before the port is bound.
BindAssignsFirst ==
  /\ thread = "started"
  /\ thread' = IF taken THEN "failed" ELSE "bound"
  /\ httpd' = TRUE
  /\ UNCHANGED <<sessionVars, taken, request, down, skipped>>

\* The constructor of the socket server binds and listens; when the port is
\* taken it raises and the thread ends with self.httpd unset.
Bind ==
  /\ thread = "started"
  /\ thread' = IF taken THEN "failed" ELSE "bound"
  /\ httpd' = ~taken
  /\ UNCHANGED <<sessionVars, taken, request, down, skipped>>

\* serve_forever() clears the event, loops until it is asked to stop, takes
\* the request back and sets the event.
ServeForever ==
  /\ thread = "bound"
  /\ thread' = "serving"
  /\ down' = FALSE
  /\ UNCHANGED <<sessionVars, taken, httpd, request, skipped>>

LoopEnds ==
  /\ thread = "serving"
  /\ request
  /\ thread' = "done"
  /\ request' = FALSE
  /\ down' = TRUE
  /\ UNCHANGED <<sessionVars, taken, httpd, skipped>>

Thread == Bind \/ ServeForever \/ LoopEnds

-----------------------------------------------------------------------------
Session ==
  \/ BeginTest
  \/ ResetFixture
  \/ LeaveSetup
  \/ Create
  \/ Publish
  \/ EndTest
  \/ Finish
  \/ StopReturns

Next == Session \/ Thread

Spec == Init /\ [][Next]_vars

-----------------------------------------------------------------------------
TypeOK ==
  /\ session \in {"idle", "setup", "testing", "stopping", "ended"}
  /\ test \in 0 .. NumTests
  /\ published \subseteq 1 .. NumTests
  /\ global \in BOOLEAN
  /\ taken \in BOOLEAN
  /\ thread \in {"none", "started", "bound", "serving", "failed", "done"}
  /\ httpd \in BOOLEAN
  /\ request \in BOOLEAN
  /\ down \in BOOLEAN
  /\ skipped \in BOOLEAN

\* A test never starts with documents of an earlier test, although the reset
\* does nothing while the server does not exist and the server may be
\* created in the middle of any test (fixtures.py:180-187).
CleanStart == session = "testing" => published \subseteq {test}

\* Until the server exists nothing is published, and a test has a number.
PublishedInStep ==
  /\ session \in {"setup", "testing"} => test > 0
  /\ (session \in {"idle", "setup", "testing"} /\ ~global) => published = {}

\* The inductive invariant behind CleanStart.
IInv == TypeOK /\ PublishedInStep /\ CleanStart

\* The end of the session is never stuck in shutdown(): stop() only calls it
\* when the thread will run its loop, even if it has not entered it yet
\* (server.py:131-147).  Fairness is stated by TestSession.
StopEnds == (session = "stopping") ~> (session = "ended")

\* The thread ends with the session, or its bind lost the race with stop():
\* then nobody tells it to stop and it serves forever (server.py:145-147).
ThreadEnds ==
  (session = "ended" /\ ~skipped) ~> (thread \in {"none", "failed", "done"})
=============================================================================
