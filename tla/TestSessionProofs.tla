------------------------- MODULE TestSessionProofs -------------------------
(***************************************************************************)
(* Theorems about ServerLifecycle and TestSession, for any number of       *)
(* tests: a session is a ServerLifecycle, whose theorems it inherits, and  *)
(* it implements TestVerdicts.                                             *)
(***************************************************************************)
EXTENDS TestSession, TLAPS

-----------------------------------------------------------------------------
(***************************************************************************)
(* ServerLifecycle.                                                        *)
(***************************************************************************)
\* The steps of the thread and the end of the session publish nothing.
LEMMA OthersPublishNothing ==
  ASSUME IInv, Thread \/ StopReturns \/ Finish \/ UNCHANGED vars
  PROVE  /\ UNCHANGED <<test, published>>
         /\ \/ UNCHANGED <<session, global>>
            \/ session' \in {"stopping", "ended"}
BY DEF Thread, Bind, ServeForever, LoopEnds, StopReturns, Finish,
       sessionVars, vars

\* Every step keeps every variable in its type.
LEMMA TypeStep ==
  ASSUME IInv, [Next]_vars
  PROVE  TypeOK'
<1> USE LifecycleAssumption DEF LifecycleAssumption, TypeOK, sessionVars, threadVars
<1>0. TypeOK /\ PublishedInStep
  BY DEF IInv
<1>1. CASE BeginTest
  BY <1>0, <1>1 DEF BeginTest
<1>2. CASE ResetFixture
  BY <1>0, <1>2 DEF ResetFixture
<1>3. CASE Create
  BY <1>0, <1>3 DEF Create
<1>4. CASE Publish
  <2>1. test \in 1 .. NumTests
    BY <1>0, <1>4 DEF Publish, PublishedInStep
  <2>2. QED BY <1>0, <1>4, <2>1 DEF Publish
<1>5. CASE EndTest
  BY <1>0, <1>5 DEF EndTest
<1>6. CASE Finish
  <2>1. CASE global /\ httpd
    BY <1>0, <1>6, <2>1 DEF Finish
  <2>2. CASE ~(global /\ httpd)
    BY <1>0, <1>6, <2>2 DEF Finish
  <2>3. QED BY <2>1, <2>2
<1>7. CASE StopReturns
  BY <1>0, <1>7 DEF StopReturns
<1>8. CASE Bind
  BY <1>0, <1>8 DEF Bind
<1>9. CASE ServeForever
  BY <1>0, <1>9 DEF ServeForever
<1>10. CASE LoopEnds
  BY <1>0, <1>10 DEF LoopEnds
<1>11. CASE UNCHANGED vars
  BY <1>0, <1>11 DEF vars
<1>12. CASE LeaveSetup
  BY <1>0, <1>12 DEF LeaveSetup
<1>13. QED
  BY <1>1, <1>2, <1>3, <1>4, <1>5, <1>6, <1>7, <1>8, <1>9, <1>10, <1>11, <1>12
     DEF Next, Session, Thread

LEMMA PublishedStep ==
  ASSUME IInv, [Next]_vars
  PROVE  PublishedInStep' /\ CleanStart'
<1> USE DEF PublishedInStep, CleanStart
<1>0. TypeOK /\ PublishedInStep /\ CleanStart
  BY DEF IInv
<1>1. CASE BeginTest
  BY <1>0, <1>1 DEF BeginTest, TypeOK
<1>2. CASE ResetFixture
  BY <1>0, <1>2 DEF ResetFixture
<1>3. CASE Create
  BY <1>0, <1>3 DEF Create
<1>4. CASE Publish
  BY <1>0, <1>4 DEF Publish
<1>5. CASE EndTest
  BY <1>0, <1>5 DEF EndTest
<1>6. CASE Thread \/ StopReturns \/ Finish \/ UNCHANGED vars
  <2>1. CASE UNCHANGED <<session, global>>
    BY <1>0, <1>6, <2>1, OthersPublishNothing
  <2>2. CASE session' \in {"stopping", "ended"}
    BY <1>0, <1>6, <2>2, OthersPublishNothing DEF TypeOK
  <2>3. QED BY <1>6, <2>1, <2>2, OthersPublishNothing
<1>7. CASE LeaveSetup
  BY <1>0, <1>7 DEF LeaveSetup
<1>8. QED
  BY <1>1, <1>2, <1>3, <1>4, <1>5, <1>6, <1>7 DEF Next, Session

\* The invariant holds of every session: the server may be created in any
\* test, and its port may be free or taken (fixtures.py:165-187).
THEOREM Invariance == Spec => []IInv
<1>1. Init => IInv
  <2> SUFFICES ASSUME Init PROVE IInv
    OBVIOUS
  <2>1. TypeOK
    <3>1. test \in 0 .. NumTests /\ published \subseteq 1 .. NumTests
      BY LifecycleAssumption DEF Init, PortTaken, LifecycleAssumption
    <3>2. QED BY <3>1, Zenon DEF Init, PortTaken, TypeOK
  <2>2. PublishedInStep /\ CleanStart
    BY DEF Init, PublishedInStep, CleanStart
  <2>3. QED BY <2>1, <2>2 DEF IInv
<1>2. IInv /\ [Next]_vars => IInv'
  BY TypeStep, PublishedStep DEF IInv
<1>3. QED BY <1>1, <1>2, PTL DEF Spec

\* No test starts with a document that another test published.
THEOREM TestsStartClean == Spec => []CleanStart
<1>1. IInv => CleanStart
  BY DEF IInv
<1>2. QED BY <1>1, Invariance, PTL

-----------------------------------------------------------------------------
(***************************************************************************)
(* TestSession.                                                            *)
(***************************************************************************)

\* Every step is one of the life of the server, or leaves it alone.
LEMMA LifecycleStep == [SessionNext]_allVars => [Next]_vars
BY DEF SessionNext, Begin, ConfigRaises, Check, ConditionallySkip, Reset, Gate,
       UseServer, EndBody, Teardown, Leave, ErrorLine, Background, allVars,
       Next, Session

\* No test of a session starts with documents of another, although the tests
\* that are skipped in their setup never reach the reset.
THEOREM SessionTestsStartClean == SessionSpec => []CleanStart
<1>1. SessionInit => Init
  BY DEF SessionInit
<1>2. SessionSpec => Spec
  BY <1>1, LifecycleStep, PTL DEF SessionSpec, Spec
<1>3. QED BY <1>2, TestsStartClean, PTL

-----------------------------------------------------------------------------
LEMMA FlagStep ==
  ASSUME FlagInStep, BlamedOnce, [SessionNext]_allVars
  PROVE  FlagInStep' /\ BlamedOnce'
<1> USE DEF FlagInStep, BlamedOnce, Watched
<1>1. CASE Begin
  BY <1>1 DEF Begin
<1>2. CASE ConfigRaises
  BY <1>2 DEF ConfigRaises, errorVars
<1>3. CASE Check
  BY <1>3 DEF Check
<1>4. CASE ConditionallySkip
  BY <1>4 DEF ConditionallySkip, EndSetup, errorVars
<1>5. CASE Reset
  BY <1>5 DEF Reset, errorVars
<1>6. ASSUME NEW decision \in Gates, Gate(decision)
      PROVE  FlagInStep' /\ BlamedOnce'
  BY <1>6 DEF Gate, EndSetup, errorVars
<1>7. CASE UseServer
  BY <1>7 DEF UseServer, reportVars, errorVars
<1>8. ASSUME NEW end \in Ends, EndBody(end)
      PROVE  FlagInStep' /\ BlamedOnce'
  BY <1>8 DEF EndBody, errorVars
<1>9. CASE Teardown
  <2>1. stage' = "over" /\ UNCHANGED <<alive, flag>>
    BY <1>9 DEF Teardown, errorVars
  <2>2. CASE flag /\ config.kind # "value" /\ config.xfail = "absent"
    <3>1. blamed = {} /\ blamed' = {test}
      BY <1>9, <2>2 DEF Teardown
    <3>2. QED BY <2>1, <2>2, <3>1
  <2>3. CASE ~(flag /\ config.kind # "value" /\ config.xfail = "absent")
    <3>1. UNCHANGED blamed
      BY <1>9, <2>3 DEF Teardown
    <3>2. QED BY <2>1, <3>1
  <2>4. QED BY <2>2, <2>3
<1>10. CASE Leave
  BY <1>10 DEF Leave, errorVars
<1>11. CASE ErrorLine
  BY <1>11 DEF ErrorLine
<1>12. CASE Background
  BY <1>12 DEF Background, reportVars, errorVars
<1>13. CASE UNCHANGED allVars
  BY <1>13 DEF allVars, reportVars, errorVars
<1>14. QED
  BY <1>1, <1>2, <1>3, <1>4, <1>5, <1>6, <1>7, <1>8, <1>9, <1>10, <1>11, <1>12,
     <1>13
     DEF SessionNext

\* One test at most is failed for an error of the server under test
\* (fixtures.py:207-221 and 271-277).
THEOREM ErrorsAreBlamedOnce == SessionSpec => []BlamedOnce
<1>1. SessionInit => FlagInStep /\ BlamedOnce
  BY DEF SessionInit, FlagInStep, BlamedOnce, Watched
<1>2. FlagInStep /\ BlamedOnce /\ [SessionNext]_allVars => FlagInStep' /\ BlamedOnce'
  BY FlagStep
<1>3. QED BY <1>1, <1>2, PTL DEF SessionSpec

-----------------------------------------------------------------------------
(***************************************************************************)
(* The refinement.                                                         *)
(***************************************************************************)
Readable(s) == ~(s.test = "instance" /\ s.outer.kind = "value")

\* What is known of a test while its body has not run.
SoFar(setup, call, conf) ==
  [setup |-> setup, call |-> call, teardown |-> "none", config |-> conf]

\* How far the report has come when a stage begins.
ReportInStep ==
  /\ stage = "skip" => report = Open
  /\ stage \in {"reset", "gate"} =>
       /\ report = SoFar("open", "none", Verdicts!ConfigOf(sections))
       /\ config.kind # "value" /\ config.skip # "on" /\ config.xfail # "on"
  /\ stage = "body" =>
       /\ report = SoFar("passed", "none", Verdicts!ConfigOf(sections))
       /\ Verdicts!SetupOf(sections, "run") = "passed"
  /\ stage = "teardown" =>
       \E gate \in Gates, end \in Ends :
         report = SoFar(Verdicts!SetupOf(sections, gate),
                        IF Verdicts!SetupOf(sections, gate) = "passed"
                          THEN end ELSE "none",
                        Verdicts!ConfigOf(sections))

TestInStep ==
  /\ sections \in Sections
  /\ stage # "idle" => test > 0
  /\ stage = "check" => verdict = Open /\ report = Open /\ ~seen
  /\ stage \in Watched =>
       /\ verdict = Open
       /\ Readable(sections)
       /\ config = ConfigFixture(sections)
       /\ seen <=> flag
  /\ ReportInStep

\* What test_config returns is what the sections say.
LEMMA ConfigSays ==
  ASSUME NEW s \in Sections, Readable(s)
  PROVE  LET c == ConfigFixture(s)
         IN  /\ c.kind = "value" <=> ~Verdicts!Usable(s)
             /\ Verdicts!Usable(s) => /\ c = Table(c.skip, c.xfail) \/ c = Missing
                                      /\ c.skip = Verdicts!Says(s, "skip")
                                      /\ c.xfail = Verdicts!Says(s, "xfail")
             /\ Verdicts!Usable(s) \/ Verdicts!Unusable(s)
<1> USE DEF Readable, ConfigFixture, Verdicts!Usable, Verdicts!Unusable,
            Verdicts!Unreadable, Verdicts!Says, Missing, NoTable, Table, Chained
<1>1. \A t \in Tables : t.kind = "table" /\ t = Table(t.skip, t.xfail)
  BY DEF Tables
<1>2. \A t \in Section : t \in Tables \/ t = Missing \/ t = NoTable
  BY DEF Section
<1>3. CASE s \in [test : {"plain"}, outer : Section, inner : {Missing}]
  <2>1. s.test = "plain" /\ s.outer \in Section /\ s.inner = Missing
    BY <1>3
  <2>2. QED BY <1>1, <1>2, <2>1
<1>4. CASE s \in [test : {"instance"}, outer : Tables, inner : Section]
  <2>1. s.test = "instance" /\ s.outer \in Tables /\ s.inner \in Section
    BY <1>4
  <2>2. QED BY <1>1, <1>2, <2>1
<1>5. CASE s \in [test : {"instance"}, outer : {Missing, NoTable}, inner : {Missing}]
  <2>1. s.test = "instance" /\ s.outer = Missing /\ s.inner = Missing
    BY <1>5
  <2>2. QED BY <2>1
<1>6. QED BY <1>3, <1>4, <1>5 DEF Sections

\* The steps between the setup and the teardown that only move the stage on.
LEMMA InitInStep == SessionInit => TestInStep
<1> SUFFICES ASSUME SessionInit PROVE TestInStep
  OBVIOUS
<1>1. sections \in Sections
  BY DEF SessionInit, Sections, Section
<1>2. QED BY <1>1 DEF SessionInit, TestInStep, ReportInStep, Watched

LEMMA BeginInStep ==
  ASSUME TypeOK, TestInStep, Begin PROVE TestInStep'
<1>1. /\ stage' = "check" /\ sections' \in Sections /\ report' = Open /\ verdict' = Open
      /\ seen' = FALSE /\ test' = test + 1 /\ test \in Nat
  BY LifecycleAssumption DEF Begin, BeginTest, TypeOK, LifecycleAssumption
<1>2. QED BY <1>1 DEF TestInStep, ReportInStep, Watched

LEMMA CheckInStep ==
  ASSUME TestInStep, Check PROVE TestInStep'
BY DEF TestInStep, ReportInStep, Check, Readable, Watched, vars, testVars

\* The ends of the setup, as the verdict will have them.
LEMMA SkipInStep ==
  ASSUME TestInStep, ConditionallySkip PROVE TestInStep'
<1> DEFINE s == sections
<1>1. /\ stage = "skip" /\ report = Open /\ s \in Sections /\ Readable(s)
      /\ config = ConfigFixture(s) /\ verdict = Open /\ test > 0 /\ (seen <=> flag)
  BY DEF ConditionallySkip, TestInStep, ReportInStep, Watched
<1>2. UNCHANGED <<test, sections, config, flag, seen, verdict>>
  BY DEF ConditionallySkip, vars, errorVars
<1>3. stage' \in {"teardown", "reset"}
  BY DEF ConditionallySkip, EndSetup
<1>4. Open = [setup |-> "open", call |-> "none", teardown |-> "none", config |-> Missing]
  BY DEF Open
<1>5. /\ config.kind = "value" <=> ~Verdicts!Usable(s)
      /\ Verdicts!Usable(s) => /\ config = Table(config.skip, config.xfail)
                                  \/ config = Missing
                               /\ config.skip = Verdicts!Says(s, "skip")
                               /\ config.xfail = Verdicts!Says(s, "xfail")
  BY <1>1, ConfigSays
<1>6. Verdicts!ConfigOf(s) = IF config.kind # "value" THEN Stashed ELSE Missing
  BY <1>5 DEF Verdicts!ConfigOf, Stashed, Missing, Verdicts!Missing, Table,
              Verdicts!Table
<1>7. ReportInStep'
  <2>1. CASE config.kind = "value"
    <3>1. report' = SoFar("error", "none", Verdicts!ConfigOf(s)) /\ stage' = "teardown"
      BY <1>1, <1>4, <1>6, <2>1 DEF ConditionallySkip, EndSetup, SoFar
    <3>2. Verdicts!SetupOf(s, "run") = "error"
      BY <1>5, <2>1 DEF Verdicts!SetupOf
    <3>3. QED BY <1>2, <3>1, <3>2 DEF ReportInStep, Gates, Ends
  <2>2. CASE config.kind # "value" /\ config.skip = "on"
    <3>1. report' = SoFar("skipped", "none", Verdicts!ConfigOf(s)) /\ stage' = "teardown"
      BY <1>1, <1>4, <1>6, <2>2 DEF ConditionallySkip, EndSetup, SoFar
    <3>2. Verdicts!SetupOf(s, "run") = "skipped"
      BY <1>5, <2>2 DEF Verdicts!SetupOf
    <3>3. QED BY <1>2, <3>1, <3>2 DEF ReportInStep, Gates, Ends
  <2>3. CASE config.kind # "value" /\ config.skip # "on" /\ config.xfail = "on"
    <3>1. report' = SoFar("xfailed", "none", Verdicts!ConfigOf(s)) /\ stage' = "teardown"
      BY <1>1, <1>4, <1>6, <2>3 DEF ConditionallySkip, EndSetup, SoFar
    <3>2. Verdicts!SetupOf(s, "run") = "xfailed"
      BY <1>5, <2>3 DEF Verdicts!SetupOf
    <3>3. QED BY <1>2, <3>1, <3>2 DEF ReportInStep, Gates, Ends
  <2>4. CASE config.kind # "value" /\ config.skip # "on" /\ config.xfail # "on"
    <3>1. report' = SoFar("open", "none", Verdicts!ConfigOf(s)) /\ stage' = "reset"
      BY <1>1, <1>4, <1>6, <2>4 DEF ConditionallySkip, EndSetup, SoFar
    <3>2. QED BY <1>2, <2>4, <3>1 DEF ReportInStep
  <2>5. QED BY <2>1, <2>2, <2>3, <2>4
<1>8. QED BY <1>1, <1>2, <1>3, <1>7 DEF TestInStep, Watched

LEMMA ResetInStep ==
  ASSUME TestInStep, Reset PROVE TestInStep'
BY DEF TestInStep, ReportInStep, Reset, ResetFixture, Watched, testVars, errorVars

LEMMA GateInStep ==
  ASSUME TestInStep, NEW decision \in Gates, Gate(decision) PROVE TestInStep'
<1> DEFINE s == sections
           conf == Verdicts!ConfigOf(s)
<1>1. /\ stage = "gate" /\ report = SoFar("open", "none", conf)
      /\ s \in Sections /\ Readable(s) /\ config = ConfigFixture(s)
      /\ verdict = Open /\ test > 0 /\ (seen <=> flag)
      /\ config.kind # "value" /\ config.skip # "on" /\ config.xfail # "on"
  BY DEF Gate, TestInStep, ReportInStep, Watched
<1>2. UNCHANGED <<test, sections, config, flag, seen, verdict>>
  BY DEF Gate, vars, errorVars
<1>3. stage' \in {"teardown", "body"}
  BY DEF Gate, Gates, EndSetup
<1>4. /\ Verdicts!Usable(s) /\ Verdicts!Says(s, "skip") # "on"
      /\ Verdicts!Says(s, "xfail") # "on"
  BY <1>1, ConfigSays
<1>5. Verdicts!SetupOf(s, decision) = CASE decision = "run" -> "passed"
                                        [] decision = "skip" -> "lacking"
                                        [] decision = "fail" -> "failed"
                                        [] OTHER -> "error"
  BY <1>4 DEF Verdicts!SetupOf
<1> HIDE DEF conf
<1>6. ReportInStep'
  <2>1. CASE decision = "run"
    <3>1. report' = SoFar("passed", "none", conf) /\ stage' = "body"
      BY <1>1, <2>1 DEF Gate, SoFar
    <3>2. QED BY <1>2, <1>5, <2>1, <3>1 DEF ReportInStep, conf
  <2>2. CASE decision # "run"
    <3>1. /\ report' = SoFar(Verdicts!SetupOf(s, decision), "none", conf)
          /\ stage' = "teardown"
          /\ Verdicts!SetupOf(s, decision) # "passed"
      BY <1>1, <1>5, <2>2 DEF Gate, SoFar, EndSetup, Gates
    <3>2. QED BY <1>2, <3>1 DEF ReportInStep, conf, Ends
  <2>3. QED BY <2>1, <2>2
<1>7. QED BY <1>1, <1>2, <1>3, <1>6 DEF TestInStep, Watched

LEMMA BodyInStep ==
  ASSUME TestInStep, NEW end \in Ends, EndBody(end) PROVE TestInStep'
<1> DEFINE conf == Verdicts!ConfigOf(sections)
<1>1. /\ stage = "body" /\ report = SoFar("passed", "none", conf)
      /\ Verdicts!SetupOf(sections, "run") = "passed"
  BY DEF EndBody, TestInStep, ReportInStep
<1>2. UNCHANGED <<test, sections, config, flag, seen, verdict>> /\ stage' = "teardown"
  BY DEF EndBody, vars, errorVars
<1> HIDE DEF conf
<1>3. report' = SoFar("passed", end, conf)
  BY <1>1 DEF EndBody, SoFar
<1>4. ReportInStep'
  BY <1>1, <1>2, <1>3 DEF ReportInStep, Gates, conf
<1>5. QED BY <1>1, <1>2, <1>4 DEF TestInStep, Watched

\* The steps that leave the report alone.
LEMMA OthersInStep ==
  ASSUME TestInStep,
         ConfigRaises \/ UseServer \/ Teardown \/ Leave \/ Background \/ UNCHANGED allVars
  PROVE  TestInStep'
<1>1. CASE ConfigRaises
  BY <1>1 DEF ConfigRaises, TestInStep, ReportInStep, Watched, vars, testVars
<1>2. CASE Teardown
  BY <1>2 DEF Teardown, TestInStep, ReportInStep, Watched, vars, testVars
<1>3. CASE Leave
  BY <1>3 DEF Leave, TestInStep, ReportInStep, Watched, EndTest, LeaveSetup, testVars
<1>4. CASE UseServer
  <2>1. UNCHANGED <<test, reportVars>>
    BY <1>4 DEF UseServer, Create, Publish
  <2>2. QED
    BY <2>1 DEF TestInStep, ReportInStep, Watched, reportVars, testVars, errorVars
<1>5. CASE Background
  <2>1. UNCHANGED <<test, reportVars>>
    BY <1>5 DEF Background, Thread, Bind, ServeForever, LoopEnds, StopReturns, Finish,
                sessionVars
  <2>2. QED
    BY <2>1 DEF TestInStep, ReportInStep, Watched, reportVars, testVars, errorVars
<1>6. CASE UNCHANGED allVars
  BY <1>6 DEF TestInStep, ReportInStep, Watched, allVars, vars, reportVars, testVars,
              errorVars
<1>7. QED BY <1>1, <1>2, <1>3, <1>4, <1>5, <1>6

LEMMA ErrorInStep ==
  ASSUME TestInStep, ErrorLine PROVE TestInStep'
<1>1. UNCHANGED <<test, stage, sections, config, report, verdict>>
      /\ flag' = TRUE
      /\ seen' = IF stage \in Watched THEN TRUE ELSE seen
  BY DEF ErrorLine, vars, testVars
<1>2. ReportInStep'
  BY <1>1 DEF TestInStep, ReportInStep
<1>3. QED BY <1>1, <1>2 DEF TestInStep, Watched

LEMMA TestStep == TypeOK /\ TestInStep /\ [SessionNext]_allVars => TestInStep'
BY BeginInStep, CheckInStep, SkipInStep, ResetInStep, GateInStep, BodyInStep,
   OthersInStep, ErrorInStep
   DEF SessionNext

-----------------------------------------------------------------------------
\* What the teardown reports is the verdict of the sections.
LEMMA TeardownReports ==
  ASSUME TestInStep, Teardown
  PROVE  Verdicts!Report
<1> DEFINE s == sections
<1>1. /\ stage = "teardown" /\ verdict = Open /\ test > 0
      /\ s \in Sections /\ Readable(s) /\ config = ConfigFixture(s)
      /\ seen <=> flag
  BY DEF Teardown, TestInStep, Watched
<1>2. PICK gate \in Gates, end \in Ends :
        report = SoFar(Verdicts!SetupOf(s, gate),
                       IF Verdicts!SetupOf(s, gate) = "passed" THEN end ELSE "none",
                       Verdicts!ConfigOf(s))
  BY <1>1 DEF TestInStep, ReportInStep
<1>3. /\ config.kind = "value" <=> ~Verdicts!Usable(s)
      /\ Verdicts!Usable(s) => config.xfail = Verdicts!Says(s, "xfail")
      /\ ~Verdicts!Usable(s) => Verdicts!Unusable(s)
      /\ Verdicts!Usable(s) => ~Verdicts!Unusable(s)
  BY <1>1, ConfigSays DEF Verdicts!Unusable, Verdicts!Usable
<1> DEFINE fails == flag /\ config.kind # "value" /\ config.xfail = "absent"
<1>4. (fails \/ config.kind = "value") <=>
        (Verdicts!Unusable(s)
           \/ (Verdicts!Usable(s) /\ seen /\ Verdicts!Says(s, "xfail") = "absent"))
  BY <1>1, <1>3
<1>5. verdict' = [report EXCEPT !.teardown = Verdicts!TeardownOf(s, seen)]
  <2>1. Verdicts!TeardownOf(s, seen) = IF fails \/ config.kind = "value"
                                         THEN "error" ELSE "passed"
    BY <1>4 DEF Verdicts!TeardownOf
  <2>2. QED BY <2>1 DEF Teardown
<1>6. verdict' = Verdicts!VerdictOf(s, gate, end, seen)
  BY <1>2, <1>5 DEF Verdicts!VerdictOf, SoFar
<1>7. UNCHANGED <<test, sections, seen>> /\ Verdicts!Open = Open
  BY DEF Teardown, vars, testVars, errorVars, Verdicts!Open, Open, Missing,
         Verdicts!Missing
<1>8. gate \in Verdicts!Gates /\ end \in Verdicts!Ends
  BY DEF Gates, Ends, Verdicts!Gates, Verdicts!Ends
<1>9. QED BY <1>1, <1>6, <1>7, <1>8 DEF Verdicts!Report

\* So is what is reported when test_config raises.
LEMMA ConfigRaisesReports ==
  ASSUME TestInStep, ConfigRaises
  PROVE  Verdicts!Report
<1> DEFINE s == sections
<1>1. /\ stage = "check" /\ verdict = Open /\ test > 0
      /\ s.test = "instance" /\ s.outer.kind = "value"
      /\ UNCHANGED <<test, sections, seen>>
  BY DEF ConfigRaises, TestInStep, Watched, vars, testVars, errorVars
<1>2. /\ ~Verdicts!Usable(s) /\ ~Verdicts!Unusable(s)
      /\ Verdicts!SetupOf(s, "run") = "error"
      /\ Verdicts!ConfigOf(s) = Verdicts!Missing
      /\ Verdicts!TeardownOf(s, seen) = "passed"
  BY <1>1 DEF Verdicts!Usable, Verdicts!Unusable, Verdicts!Unreadable,
              Verdicts!SetupOf, Verdicts!ConfigOf, Verdicts!TeardownOf
<1>3. verdict' = [setup |-> "error", call |-> "none", teardown |-> "passed",
                  config |-> Missing]
  BY DEF ConfigRaises, Open
<1>4. Missing = Verdicts!Missing /\ Verdicts!Open = Open
  BY DEF Missing, Verdicts!Missing, Verdicts!Open, Open
<1>5. verdict' = Verdicts!VerdictOf(s, "run", "passed", seen)
  BY <1>2, <1>3, <1>4 DEF Verdicts!VerdictOf
<1>6. "run" \in Verdicts!Gates /\ "passed" \in Verdicts!Ends
  BY DEF Verdicts!Gates, Verdicts!Ends
<1>7. QED BY <1>1, <1>4, <1>5, <1>6 DEF Verdicts!Report

LEMMA SectionsAreSections == Sections = Verdicts!Sections
BY DEF Sections, Verdicts!Sections, Section, Verdicts!Section, Tables, Verdicts!Tables,
       Table, Verdicts!Table, Missing, Verdicts!Missing, NoTable, Verdicts!NoTable,
       Values, Verdicts!Values

LEMMA VerdictStep ==
  ASSUME TypeOK, TestInStep, [SessionNext]_allVars
  PROVE  [Verdicts!VerdictNext]_(Verdicts!verdictVars)
<1> USE DEF Verdicts!VerdictNext, Verdicts!verdictVars
<1>1. Verdicts!Open = Open
  BY DEF Verdicts!Open, Open, Missing, Verdicts!Missing
<1>2. CASE Begin
  BY <1>1, <1>2, SectionsAreSections DEF Begin, BeginTest, Verdicts!NewTest
<1>3. CASE ConfigRaises
  BY <1>3, ConfigRaisesReports
<1>4. CASE Teardown
  BY <1>4, TeardownReports
<1>5. CASE ErrorLine
  <2>1. /\ seen' = IF stage \in Watched THEN TRUE ELSE seen
        /\ UNCHANGED <<test, sections, verdict>>
    BY <1>5 DEF ErrorLine, vars, testVars
  <2>2. CASE stage \in Watched
    <3>1. verdict = Open /\ seen'
      BY <2>1, <2>2 DEF TestInStep
    <3>2. QED BY <1>1, <1>5, <2>1, <2>2, <3>1 DEF Verdicts!Error
  <2>3. CASE stage \notin Watched
    BY <2>1, <2>3, <1>5 DEF ErrorLine
  <2>4. QED BY <2>2, <2>3
<1>6. CASE Check
  BY <1>6 DEF Check, vars
<1>7. CASE ConditionallySkip
  BY <1>7 DEF ConditionallySkip, vars, errorVars
<1>8. CASE Reset
  BY <1>8 DEF Reset, ResetFixture, testVars, errorVars
<1>9. ASSUME NEW decision \in Gates, Gate(decision)
      PROVE  UNCHANGED Verdicts!verdictVars
  BY <1>9 DEF Gate, vars, errorVars
<1>10. ASSUME NEW end \in Ends, EndBody(end)
      PROVE  UNCHANGED Verdicts!verdictVars
  BY <1>10 DEF EndBody, vars, errorVars
<1>11. CASE UseServer
  BY <1>11 DEF UseServer, Create, Publish, reportVars, testVars, errorVars
<1>12. CASE Leave
  BY <1>12 DEF Leave, EndTest, LeaveSetup, testVars, errorVars
<1>13. CASE Background
  BY <1>13 DEF Background, Thread, Bind, ServeForever, LoopEnds, StopReturns, Finish,
               sessionVars, reportVars, testVars, errorVars
<1>14. CASE UNCHANGED allVars
  BY <1>14 DEF allVars, vars, reportVars, testVars, errorVars
<1>15. QED
  BY <1>2, <1>3, <1>4, <1>5, <1>6, <1>7, <1>8, <1>9, <1>10, <1>11, <1>12, <1>13,
     <1>14
     DEF SessionNext

\* The fixtures give every test the verdict that TestVerdicts describes, for
\* any sections, decisions and moments of an error (fixtures.py:271-336).
THEOREM FixturesImplementVerdicts == SessionSpec => ImplementsVerdicts
<1>1. SessionInit => Init /\ TestInStep /\ Verdicts!VerdictInit
  BY InitInStep
     DEF SessionInit, Init, Verdicts!VerdictInit, Verdicts!Open, Open, Missing,
         Verdicts!Missing
<1>2. SessionInit /\ [][SessionNext]_allVars => []TypeOK
  <2>1. SessionSpec => Spec
    BY <1>1, LifecycleStep, PTL DEF SessionSpec, Spec
  <2>2. IInv => TypeOK
    BY DEF IInv
  <2>3. QED BY <2>1, <2>2, Invariance, PTL DEF SessionSpec
<1>3. TypeOK /\ TestInStep /\ [SessionNext]_allVars => TestInStep'
  BY TestStep
<1>4. TypeOK /\ TestInStep /\ [SessionNext]_allVars
        => [Verdicts!VerdictNext]_(Verdicts!verdictVars)
  BY VerdictStep
<1>5. SessionSpec => Verdicts!VerdictSpec
  BY <1>1, <1>2, <1>3, <1>4, PTL DEF SessionSpec, Verdicts!VerdictSpec
<1>6. QED BY <1>5 DEF ImplementsVerdicts
=============================================================================
