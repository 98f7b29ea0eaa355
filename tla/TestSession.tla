---------------------------- MODULE TestSession ----------------------------
(***************************************************************************)
(* A test from its setup to its report, in a session with the simulated    *)
(* server of ServerLifecycle.  The autouse fixtures run in the order of     *)
(* their names: check_server_state, conditionally_skip_test,               *)
(* record_parametrize_data (which only records),                           *)
(* reset_remote_http_server, skip_without_server_capabilities              *)
(* (fixtures.py:180-187, 271-277, 310-384).  A fixture that ends the setup  *)
(* keeps the later ones from running; only check_server_state has a part    *)
(* after the test.  The monitor of the server under test is a thread that   *)
(* ends with the first error (fixtures.py:210-237, module SutMonitor).      *)
(***************************************************************************)
EXTENDS ServerLifecycle, TestConfig

VARIABLES
  stage,     \* the fixture that comes next, the body, or none
  sections,  \* the test's sections in config.toml
  config,    \* the value of the fixture test_config
  alive,     \* the monitor of the server under test is running
  flag,      \* _server_error
  report,    \* what is known of the test so far
  verdict,   \* what is reported of it
  seen,      \* history: an error was printed since check_server_state
  blamed     \* history: the tests that were failed for an error

testVars == <<sections, config, report>>
errorVars == <<alive, flag, seen>>
reportVars == <<stage, testVars, errorVars, verdict, blamed>>
allVars == <<vars, reportVars>>

Gates == {"run", "skip", "fail", "raised"}
Ends == {"passed", "failed", "skipped"}
Open == [setup |-> "open", call |-> "none", teardown |-> "none", config |-> Missing]

\* Stages between the two parts of check_server_state.
Watched == {"skip", "reset", "gate", "body", "teardown"}

SessionInit ==
  /\ Init
  /\ stage = "idle"
  /\ sections = [test |-> "plain", outer |-> Missing, inner |-> Missing]
  /\ config = Missing
  /\ alive = TRUE
  /\ flag = FALSE
  /\ report = Open
  /\ verdict = Open
  /\ seen = FALSE
  /\ blamed = {}

-----------------------------------------------------------------------------
Begin ==
  /\ BeginTest
  /\ stage' = "check"
  /\ sections' \in Sections
  /\ report' = Open
  /\ verdict' = Open
  /\ seen' = FALSE
  /\ UNCHANGED <<config, alive, flag, blamed>>

\* The keys of the first map that has them.
Chained(first, second) ==
  Table(IF first.skip = "absent" THEN second.skip ELSE first.skip,
        IF first.xfail = "absent" THEN second.xfail ELSE first.xfail)

\* test_config: a section, or a ChainMap of the two.
ConfigFixture(s) ==
  IF s.outer.kind = "table" /\ s.inner.kind # "value"
    THEN Chained(s.inner, s.outer)
    ELSE IF s.inner.kind = "value" THEN s.inner ELSE s.outer

\* Looking for the instance in a section that is no table raises.
ConfigRaises ==
  /\ stage = "check"
  /\ sections.test = "instance" /\ sections.outer.kind = "value"
  /\ stage' = "over"
  /\ verdict' = [Open EXCEPT !.setup = "error", !.teardown = "passed"]
  /\ UNCHANGED <<vars, testVars, errorVars, blamed>>

\* Mutant: the flag of the last test stays.
CheckKeepsFlag ==
  /\ stage = "check"
  /\ ~(sections.test = "instance" /\ sections.outer.kind = "value")
  /\ config' = ConfigFixture(sections)
  /\ stage' = "skip"
  /\ UNCHANGED <<vars, sections, report, errorVars, verdict, blamed>>

\* check_server_state up to its yield, with the test_config it needs.
Check ==
  /\ stage = "check"
  /\ ~(sections.test = "instance" /\ sections.outer.kind = "value")
  /\ config' = ConfigFixture(sections)
  /\ flag' = FALSE
  /\ stage' = "skip"
  /\ UNCHANGED <<vars, sections, report, alive, seen, verdict, blamed>>

\* What conditionally_skip_test puts in the stash.
Stashed ==
  IF config.skip # "absent" \/ config.xfail # "absent" THEN config ELSE Missing

EndSetup(how, stash) ==
  /\ report' = [report EXCEPT !.setup = how, !.config = stash]
  /\ stage' = "teardown"

\* Mutant: the expected failure is looked at first.
SkipAfterXfail ==
  /\ stage = "skip"
  /\ CASE config.kind = "value" -> EndSetup("error", Missing)
       [] config.kind # "value" /\ config.xfail = "on" -> EndSetup("xfailed", Stashed)
       [] config.kind # "value" /\ config.xfail # "on" /\ config.skip = "on" ->
            EndSetup("skipped", Stashed)
       [] OTHER -> /\ report' = [report EXCEPT !.config = Stashed]
                   /\ stage' = "reset"
  /\ UNCHANGED <<vars, sections, config, errorVars, verdict, blamed>>

\* conditionally_skip_test; dict() of a value that is no table raises.
ConditionallySkip ==
  /\ stage = "skip"
  /\ CASE config.kind = "value" -> EndSetup("error", Missing)
       [] config.kind # "value" /\ config.skip = "on" -> EndSetup("skipped", Stashed)
       [] config.kind # "value" /\ config.skip # "on" /\ config.xfail = "on" ->
            EndSetup("xfailed", Stashed)
       [] OTHER -> /\ report' = [report EXCEPT !.config = Stashed]
                   /\ stage' = "reset"
  /\ UNCHANGED <<vars, sections, config, errorVars, verdict, blamed>>

Reset ==
  /\ stage = "reset"
  /\ ResetFixture
  /\ stage' = "gate"
  /\ UNCHANGED <<testVars, errorVars, verdict, blamed>>

\* skip_without_server_capabilities decides (module Capabilities).
Gate(decision) ==
  /\ stage = "gate"
  /\ CASE decision = "run" -> /\ report' = [report EXCEPT !.setup = "passed"]
                              /\ stage' = "body"
       [] decision = "skip" -> EndSetup("lacking", report.config)
       [] decision = "fail" -> EndSetup("failed", report.config)
       [] decision = "raised" -> EndSetup("error", report.config)
  /\ UNCHANGED <<vars, sections, config, errorVars, verdict, blamed>>

\* The fixtures a test asks for and its body use the simulated server.
UseServer ==
  /\ stage = "body"
  /\ Create \/ Publish
  /\ UNCHANGED reportVars

EndBody(end) ==
  /\ stage = "body"
  /\ report' = [report EXCEPT !.call = end]
  /\ stage' = "teardown"
  /\ UNCHANGED <<vars, sections, config, errorVars, verdict, blamed>>

\* check_server_state after its yield; "xfail" in a number raises.
Teardown ==
  LET fails == flag /\ config.kind # "value" /\ config.xfail = "absent"
  IN  /\ stage = "teardown"
      /\ verdict' = [report EXCEPT
                       !.teardown = IF fails \/ config.kind = "value"
                                      THEN "error" ELSE "passed"]
      /\ blamed' = IF fails THEN blamed \cup {test} ELSE blamed
      /\ stage' = "over"
      /\ UNCHANGED <<vars, testVars, errorVars>>

Leave ==
  /\ stage = "over"
  /\ EndTest \/ LeaveSetup
  /\ stage' = "idle"
  /\ UNCHANGED <<testVars, errorVars, verdict, blamed>>

\* The monitor reads a line that the error matcher matches, sets the flag,
\* and its thread ends.
ErrorLine ==
  /\ alive
  /\ alive' = FALSE
  /\ flag' = TRUE
  /\ seen' = IF stage \in Watched THEN TRUE ELSE seen
  /\ UNCHANGED <<vars, stage, testVars, verdict, blamed>>

\* The server thread, and the end of the session.
Background ==
  /\ Thread \/ StopReturns \/ (stage = "idle" /\ Finish)
  /\ UNCHANGED reportVars

-----------------------------------------------------------------------------
SessionNext ==
  \/ Begin
  \/ ConfigRaises
  \/ Check
  \/ ConditionallySkip
  \/ Reset
  \/ \E decision \in Gates : Gate(decision)
  \/ UseServer
  \/ \E end \in Ends : EndBody(end)
  \/ Teardown
  \/ Leave
  \/ ErrorLine
  \/ Background

SessionSpec == SessionInit /\ [][SessionNext]_allVars

\* The server thread keeps running, and shutdown() returns once it can.
SessionFairSpec ==
  /\ SessionSpec
  /\ WF_allVars(Thread /\ Background)
  /\ WF_allVars(StopReturns /\ Background)

-----------------------------------------------------------------------------
Verdicts == INSTANCE TestVerdicts

\* The pipeline of fixtures gives each test the verdict of TestVerdicts
\* (fixtures.py:271-336, docs/configuration.md:97-118): skip comes before
\* xfail, the instance's section before the test's, an error of the server
\* under test counts if it was printed between setup and teardown, whichever
\* fixture has ended the setup meanwhile.
ImplementsVerdicts == Verdicts!VerdictSpec

\* An error of the server under test is held against one test of the session
\* at most: the flag outlives the test it was raised in, and is reset before
\* anything of the next test runs (fixtures.py:207-221 and 271-277).
BlamedOnce == \A s, t \in blamed : s = t

\* The flag is raised once, and is down or unspent while a test is watched.
FlagInStep ==
  /\ alive => ~flag /\ blamed = {}
  /\ stage \in Watched /\ flag => blamed = {}
=============================================================================
