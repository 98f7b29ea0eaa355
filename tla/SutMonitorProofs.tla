-------------------------- MODULE SutMonitorProofs --------------------------
(***************************************************************************)
(* Theorems about SutMonitor, for any number of tests and lines, any size  *)
(* of the pipe, with and without matchers.                                 *)
(***************************************************************************)
EXTENDS SutMonitor, TLAPS

\* The steps that neither read a line nor begin or end a test.
Quiet ==
  /\ UNCHANGED <<xfail, results, serverError, seenIn>>
  /\ (spc = "test") <=> (spc' = "test")
  /\ mpc = "exit" => mpc' = "exit"
  /\ spc' = "before" => spc = "before" /\ mpc' = mpc

LEMMA ReadLineTyped ==
  ASSUME TypeOK, NEW next \in {"match", "drain"}, ReadLine(next)
  PROVE  /\ mpc' \in {"match", "drain", "exit"}
         /\ pipe' \in Seq(Lines)
         /\ Len(pipe') <= PipeSize
         /\ line' \in Lines \cup {"none", "eof"}
         /\ serverError' \in BOOLEAN
<1>1. CASE closed
  BY <1>1 DEF ReadLine, TypeOK
<1>2. CASE ~closed /\ pipe = << >>
  BY <1>2 DEF ReadLine, TypeOK
<1>3. CASE ~closed /\ pipe # << >>
  <2>0. pipe \in Seq(Lines) /\ Len(pipe) <= PipeSize /\ PipeSize \in Nat
    BY MonitorAssumption DEF TypeOK
  <2>1. /\ Head(pipe) \in Lines
        /\ Tail(pipe) \in Seq(Lines)
        /\ Len(Tail(pipe)) <= PipeSize
    BY <1>3, <2>0
  <2>2. QED
    BY <1>3, <2>1 DEF ReadLine, TypeOK
<1>4. QED BY <1>1, <1>2, <1>3

\* What reading a line does to the flag.
LEMMA ReadLineFlag ==
  ASSUME TypeOK, NEW next \in {"match", "drain"}, ReadLine(next)
  PROVE  \/ UNCHANGED <<serverError, seenIn>>
         \/ /\ serverError' = TRUE
            /\ seenIn' = (IF spc = "test" THEN Len(results) + 1 ELSE 0)
            /\ mpc' = "exit"
BY DEF ReadLine

\* A test of the session has a number.
LEMMA ResultsTyped ==
  ASSUME TypeOK
  PROVE  Len(results) \in Nat /\ Len(results) <= NumTests
<1>1. results \in Seq(Result)
  BY DEF TypeOK
<1>2. QED BY <1>1 DEF TypeOK

LEMMA SeenTyped ==
  ASSUME TypeOK, FlagInStep,
         NEW next \in {"match", "drain"}, ReadLine(next)
  PROVE  seenIn' \in 0 .. NumTests
<1>1. Len(results) \in Nat /\ seenIn \in 0 .. NumTests
  BY ResultsTyped DEF TypeOK
<1>2. spc = "test" => Len(results) + 1 \in 0 .. NumTests
  BY <1>1, MonitorAssumption DEF FlagInStep
<1>3. seenIn' \in {seenIn, 0} \/ (spc = "test" /\ seenIn' = Len(results) + 1)
  BY ReadLineFlag
<1>4. QED
  BY <1>1, <1>2, <1>3, MonitorAssumption

LEMMA TypeStep == TypeOK /\ FlagInStep /\ [Next]_vars => TypeOK'
<1> SUFFICES ASSUME TypeOK, FlagInStep, [Next]_vars PROVE TypeOK'
  OBVIOUS
<1> USE MonitorAssumption DEF sessionVars, sutVars, monitorVars
<1>1. ASSUME NEW l \in Lines, WriteLine(l) PROVE TypeOK'
  <2>1. pipe' \in Seq(Lines) /\ Len(pipe') <= PipeSize
    <3>1. pipe \in Seq(Lines) /\ Len(pipe) < PipeSize /\ pipe' = Append(pipe, l)
      BY <1>1 DEF WriteLine, TypeOK
    <3>2. QED BY <3>1
  <2>2. printed' \in 0 .. NumLines
    BY <1>1 DEF WriteLine, TypeOK
  <2>3. QED
    BY <1>1, <2>1, <2>2 DEF WriteLine, TypeOK
<1>2. CASE Crash
  BY <1>2 DEF Crash, TypeOK
<1>3. CASE ReadFirst
  BY <1>3, ReadLineTyped, SeenTyped DEF ReadFirst, TypeOK
<1>4. CASE SetStartEvent
  BY <1>4 DEF SetStartEvent, TypeOK
<1>5. CASE ReadPending
  BY <1>5, ReadLineTyped, SeenTyped DEF ReadPending, TypeOK
<1>6. CASE Drain
  BY <1>6, ReadLineTyped, SeenTyped DEF Drain, TypeOK
<1>7. CASE DrainEnds
  BY <1>7 DEF DrainEnds, TypeOK
<1>8. CASE StartServer \/ WaitEnds \/ Kill \/ Join \/ Close
  <2>1. CASE StartServer
    BY <2>1 DEF StartServer, TypeOK
  <2>2. CASE WaitEnds
    BY <2>2 DEF WaitEnds, TypeOK
  <2>3. CASE Kill
    BY <2>3 DEF Kill, TypeOK
  <2>4. CASE Join
    BY <2>4 DEF Join, TypeOK
  <2>5. CASE Close
    BY <2>5 DEF Close, TypeOK
  <2>6. QED BY <1>8, <2>1, <2>2, <2>3, <2>4, <2>5
<1>9. ASSUME NEW x \in BOOLEAN, BeginTest(x) PROVE TypeOK'
  BY <1>9 DEF BeginTest, TypeOK
<1>10. CASE EndTest
  <2>1. (~xfail /\ serverError) \in BOOLEAN
    OBVIOUS
  <2>2. [failed |-> ~xfail /\ serverError, xfail |-> xfail]
          \in Result
    BY <2>1 DEF TypeOK, Result
  <2>3. /\ results' \in Seq(Result)
        /\ Len(results') = Len(results) + 1
    <3>1. results \in Seq(Result)
      BY DEF TypeOK
    <3>2. results' = Append(results, [failed |-> ~xfail /\ serverError,
                                      xfail |-> xfail])
      BY <1>10 DEF EndTest
    <3>3. QED BY <2>2, <3>1, <3>2
  <2>4. Len(results') <= NumTests
    BY <1>10, <2>3, ResultsTyped DEF EndTest, FlagInStep
  <2>5. QED
    BY <1>10, <2>3, <2>4 DEF EndTest, TypeOK
<1>11. CASE UNCHANGED vars
  BY <1>11 DEF vars, TypeOK
<1>12. QED
  BY <1>1, <1>2, <1>3, <1>4, <1>5, <1>6, <1>7, <1>8, <1>9, <1>10, <1>11
     DEF Next, Monitor, Session

-----------------------------------------------------------------------------
\* The three ways a step can touch the flag, the tests or their results.
LEMMA StepKinds ==
  ASSUME TypeOK, FlagInStep, [Next]_vars
  PROVE  \/ Quiet
         \/ \E next \in {"match", "drain"} :
              /\ ReadLine(next)
              /\ mpc \notin {"off", "exit"}
              /\ UNCHANGED <<spc, xfail, results>>
         \/ \E x \in BOOLEAN : BeginTest(x)
         \/ EndTest
<1> USE DEF sessionVars, sutVars, monitorVars, FlagInStep
<1>1. CASE \E l \in Lines : WriteLine(l)
  BY <1>1 DEF WriteLine, Quiet
<1>2. CASE Crash \/ SetStartEvent \/ DrainEnds
  BY <1>2 DEF Crash, SetStartEvent, DrainEnds, Quiet
<1>3. CASE StartServer \/ WaitEnds \/ Kill \/ Join \/ Close
  BY <1>3 DEF StartServer, WaitEnds, Kill, Join, Close, Quiet
<1>4. CASE ReadFirst \/ ReadPending \/ Drain
  BY <1>4 DEF ReadFirst, ReadPending, Drain
<1>5. CASE UNCHANGED vars
  BY <1>5 DEF vars, Quiet
<1>6. QED
  BY <1>1, <1>2, <1>3, <1>4, <1>5 DEF Next, Monitor, Session

LEMMA FlagStep == TypeOK /\ FlagInStep /\ [Next]_vars => FlagInStep'
<1> SUFFICES ASSUME TypeOK, FlagInStep, [Next]_vars PROVE FlagInStep'
  OBVIOUS
<1>1. CASE Quiet
  BY <1>1 DEF Quiet, FlagInStep
<1>2. ASSUME NEW next \in {"match", "drain"}, ReadLine(next), mpc \notin {"off", "exit"},
             UNCHANGED <<spc, xfail, results>>
      PROVE  FlagInStep'
  <2>1. seenIn = 0 /\ serverError = FALSE
    BY <1>2 DEF FlagInStep, TypeOK
  <2>2. CASE UNCHANGED <<serverError, seenIn>>
    BY <1>2, <2>1, <2>2 DEF FlagInStep
  <2>3. CASE /\ serverError' = TRUE
             /\ seenIn' = (IF spc = "test" THEN Len(results) + 1 ELSE 0)
             /\ mpc' = "exit"
    BY <1>2, <2>3, ResultsTyped DEF FlagInStep
  <2>4. QED BY <1>2, <2>2, <2>3, ReadLineFlag
<1>3. ASSUME NEW x \in BOOLEAN, BeginTest(x) PROVE FlagInStep'
  <2>1. seenIn # Len(results) + 1
    BY <1>3, ResultsTyped DEF BeginTest, FlagInStep, TypeOK
  <2>2. QED
    BY <1>3, <2>1, ResultsTyped DEF BeginTest, FlagInStep, monitorVars, TypeOK
<1>4. CASE EndTest
  <2>1. results \in Seq(Result)
    BY DEF TypeOK
  <2>2. Len(results') = Len(results) + 1
    BY <1>4, <2>1 DEF EndTest
  <2>3. seenIn <= Len(results) + 1
    <3>1. Len(results) \in Nat /\ seenIn \in Nat
      BY ResultsTyped, MonitorAssumption DEF TypeOK
    <3>2. spc = "test" /\ (serverError <=> seenIn = Len(results) + 1)
      BY <1>4 DEF EndTest, FlagInStep
    <3>3. seenIn <= Len(results) + 1
      BY <1>4, <3>1 DEF EndTest, FlagInStep
    <3>4. QED BY <3>3
  <2>4. QED
    BY <1>4, <2>2, <2>3 DEF EndTest, FlagInStep, monitorVars
<1>5. QED BY <1>1, <1>2, <1>3, <1>4, StepKinds

LEMMA BlameStep ==
  TypeOK /\ FlagInStep /\ BlameExact /\ [Next]_vars => BlameExact'
<1> SUFFICES ASSUME TypeOK, FlagInStep, BlameExact, [Next]_vars
             PROVE  BlameExact'
  OBVIOUS
<1>1. CASE Quiet
  BY <1>1 DEF Quiet, BlameExact
<1>2. ASSUME NEW next \in {"match", "drain"}, ReadLine(next), mpc \notin {"off", "exit"},
             UNCHANGED <<spc, xfail, results>>
      PROVE  BlameExact'
  <2>1. seenIn = 0
    BY <1>2 DEF FlagInStep
  <2>2. \A k \in 1 .. Len(results) : seenIn' # k
    <3>1. Len(results) \in Nat
      BY ResultsTyped
    <3>2. seenIn' \in {0, Len(results) + 1}
      BY <1>2, <2>1, ReadLineFlag
    <3>3. QED BY <3>1, <3>2
  <2>3. QED
    BY <1>2, <2>1, <2>2 DEF BlameExact
<1>3. ASSUME NEW x \in BOOLEAN, BeginTest(x) PROVE BlameExact'
  BY <1>3 DEF BeginTest, BlameExact
<1>4. CASE EndTest
  <2> DEFINE r == [failed |-> ~xfail /\ serverError, xfail |-> xfail]
  <2>1. results \in Seq(Result)
    BY DEF TypeOK
  <2>2. /\ Len(results') = Len(results) + 1
        /\ \A k \in 1 .. Len(results) : results'[k] = results[k]
        /\ results'[Len(results) + 1] = r
    BY <1>4, <2>1 DEF EndTest
  <2>3. seenIn' = seenIn
    BY <1>4 DEF EndTest
  <2>4. r.failed <=> (seenIn = Len(results) + 1 /\ ~r.xfail)
    BY <1>4, Zenon DEF EndTest, FlagInStep
  <2>5. QED
    BY <2>2, <2>3, <2>4, ResultsTyped DEF BlameExact
<1>5. QED BY <1>1, <1>2, <1>3, <1>4, StepKinds

-----------------------------------------------------------------------------
LEMMA InvInit == Init => IInv
<1> SUFFICES ASSUME Init PROVE IInv
  OBVIOUS
<1>1. results = << >> /\ pipe = << >> /\ seenIn = 0 /\ printed = 0
  BY DEF Init
<1>2. TypeOK
  <2>1. results \in Seq(Result) /\ pipe \in Seq(Lines) /\ Len(results) = 0
        /\ Len(pipe) = 0
    BY <1>1
  <2>2. /\ 0 <= NumTests
        /\ 0 <= PipeSize
        /\ 0 \in 0 .. NumLines
        /\ 0 \in 0 .. NumTests
    BY MonitorAssumption
  <2>3. QED
    BY <1>1, <2>1, <2>2 DEF Init, TypeOK
<1>3. FlagInStep
  BY <1>1 DEF Init, FlagInStep
<1>4. BlameExact
  BY <1>1 DEF BlameExact
<1>5. QED BY <1>2, <1>3, <1>4 DEF IInv

LEMMA InvStep == IInv /\ [Next]_vars => IInv'
BY TypeStep, FlagStep, BlameStep DEF IInv

\* The flag always belongs to the running test, and the monitor has stopped
\* reading once it has raised it.
THEOREM Invariance == Spec => []IInv
BY InvInit, InvStep, PTL DEF Spec

\* check_server_state fails exactly the test during which the monitor read
\* an error line, however the process, the monitor and the session
\* interleave.
THEOREM BlameIsExact == Spec => []BlameExact
<1>1. IInv => BlameExact
  BY DEF IInv
<1>2. QED BY <1>1, Invariance, PTL
=============================================================================
