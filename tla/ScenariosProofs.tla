--------------------------- MODULE ScenariosProofs ---------------------------
(***************************************************************************)
(* The verdicts of Scenarios, for any suite that is as ScenarioCourses     *)
(* assumes, any number of tries and any delay.                             *)
(***************************************************************************)
EXTENDS ScenarioCourses, SequenceTheorems, TLAPS

-----------------------------------------------------------------------------
(***************************************************************************)
(* Courses.                                                                *)
(***************************************************************************)
LEMMA CourseFacts ==
  ASSUME NEW t \in DOMAIN Script, NEW s \in Servers
  PROVE  /\ Len(Script[t]) \in Nat /\ DOMAIN Script[t] = Steps(t)
         /\ Len(Course[t][s]) \in Nat \ {0}
         /\ Course[t][s][1] =
              [step |-> 0, colls |-> [x \in Collections |-> << >>], mailbox |-> 0]
         /\ \A n \in States(t, s) : Course[t][s][n].mailbox \in Nat
         /\ \A n, m \in States(t, s) : n < m => Course[t][s][n].step < Course[t][s][m].step
         /\ \A n \in States(t, s) : n > 1 =>
              LET k == Course[t][s][n].step
                  effect == Effect(s, Script[t][k])
              IN  /\ k \in Steps(t) /\ Script[t][k].do = "post"
                  /\ Course[t][s][n].colls = Updated(Course[t][s][n - 1].colls, effect)
                  /\ Course[t][s][n].mailbox = Delivered(Course[t][s][n - 1].mailbox, effect)
         /\ \A k \in Steps(t) :
              Script[t][k].do = "post" => \E n \in States(t, s) : Course[t][s][n].step = k
BY CourseAssumption, ScenarioAssumption DEF CourseAssumption, ScenarioAssumption, Steps

LEMMA CourseSteps ==
  ASSUME NEW t \in DOMAIN Script, NEW s \in Servers, NEW n \in States(t, s)
  PROVE  /\ Course[t][s][n].step \in Nat
         /\ Course[t][s][n].step \in Steps(t) =>
              n > 1 /\ Script[t][Course[t][s][n].step].do = "post"
<1>1. n \in Nat /\ n >= 1
  BY CourseFacts DEF States
<1>2. CASE n = 1
  BY <1>2, CourseFacts DEF Steps
<1>3. CASE n > 1
  <2>1. Course[t][s][n].step \in Steps(t) /\ Script[t][Course[t][s][n].step].do = "post"
    BY <1>3, CourseFacts
  <2>2. QED BY <1>3, <2>1 DEF Steps
<1>4. QED BY <1>1, <1>2, <1>3

\* Before the first step the server is in its first state.
LEMMA SettledFirst ==
  ASSUME NEW t \in DOMAIN Script, NEW s \in Servers
  PROVE  1 \in States(t, s) /\ Settled(t, s, 1, 1)
<1>1. 1 \in States(t, s)
  BY CourseFacts DEF States
<1>2. ASSUME NEW m \in States(t, s)
      PROVE  Course[t][s][m].step < 1 <=> m <= 1
  <2>1. m \in Nat /\ m >= 1
    BY CourseFacts DEF States
  <2>2. CASE m = 1
    BY <2>2, CourseFacts
  <2>3. CASE m > 1
    <3>1. Course[t][s][m].step \in Steps(t)
      BY <2>3, CourseFacts
    <3>2. Course[t][s][m].step \in Int /\ Course[t][s][m].step >= 1
      BY <3>1, CourseFacts DEF Steps
    <3>3. QED BY <2>1, <2>3, <3>2
  <2>4. QED BY <2>1, <2>2, <2>3
<1>3. QED BY <1>1, <1>2 DEF Settled

\* A step that is not a post changes nothing; a post leads to the next state.
LEMMA SettledNext ==
  ASSUME NEW t \in DOMAIN Script, NEW s \in Servers, NEW k \in Steps(t), NEW m,
         Settled(t, s, k, m)
  PROVE  /\ Script[t][k].do # "post" => Settled(t, s, k + 1, m)
         /\ Script[t][k].do = "post" =>
              /\ m + 1 \in States(t, s)
              /\ Settled(t, s, k + 1, m + 1)
              /\ Course[t][s][m + 1].step = k
<1> DEFINE at(n) == Course[t][s][n].step
           last == Len(Course[t][s])
<1>1. last \in Nat /\ States(t, s) = 1 .. last /\ k \in Nat /\ k >= 1
  BY CourseFacts DEF States, Steps
<1>2. /\ \A n \in 1 .. last : at(n) \in Nat
      /\ \A n, j \in 1 .. last : n < j => at(n) < at(j)
      /\ \A n \in 1 .. last : at(n) = k => Script[t][k].do = "post"
      /\ Script[t][k].do = "post" => \E n \in 1 .. last : at(n) = k
  BY <1>1, CourseFacts, CourseSteps
<1>3. m \in 1 .. last /\ \A n \in 1 .. last : at(n) < k <=> n <= m
  BY <1>1 DEF Settled
<1>4. (\A n \in 1 .. last : at(n) < k + 1 <=> n <= m) => Settled(t, s, k + 1, m)
  BY <1>1, <1>3 DEF Settled
<1>5. m + 1 \in 1 .. last /\ (\A n \in 1 .. last : at(n) < k + 1 <=> n <= m + 1)
        => Settled(t, s, k + 1, m + 1)
  BY <1>1 DEF Settled
<1> HIDE DEF at, last
<1>6. CASE Script[t][k].do # "post"
  <2>1. \A n \in 1 .. last : at(n) < k + 1 <=> n <= m
    BY <1>1, <1>2, <1>3, <1>6
  <2>2. QED BY <1>4, <1>6, <2>1
<1>7. CASE Script[t][k].do = "post"
  <2>1. PICK n \in 1 .. last : at(n) = k
    BY <1>2, <1>7
  <2>2. n > m
    BY <1>1, <1>3, <2>1
  <2>3. m + 1 \in 1 .. last /\ n = m + 1
    <3>1. m + 1 \in 1 .. last
      BY <1>1, <1>3, <2>2
    <3>2. ~(m + 1 < n)
      BY <1>1, <1>2, <1>3, <2>1, <3>1
    <3>3. QED BY <1>1, <1>3, <2>2, <3>1, <3>2
  <2>4. \A j \in 1 .. last : at(j) < k + 1 <=> j <= m + 1
    <3> SUFFICES ASSUME NEW j \in 1 .. last PROVE at(j) < k + 1 <=> j <= m + 1
      OBVIOUS
    <3>1. CASE j <= m
      BY <1>1, <1>2, <1>3, <3>1
    <3>2. CASE j = m + 1
      BY <1>1, <2>1, <2>3, <3>2
    <3>3. CASE j > m + 1
      <4>1. at(m + 1) < at(j)
        BY <1>2, <2>3, <3>3
      <4>2. QED BY <1>1, <1>2, <1>3, <2>1, <2>3, <3>3, <4>1
    <3>4. QED BY <1>1, <1>3, <3>1, <3>2, <3>3
  <2>5. QED BY <1>1, <1>5, <1>7, <2>1, <2>3, <2>4 DEF at
<1>8. QED BY <1>6, <1>7

-----------------------------------------------------------------------------
(***************************************************************************)
(* The run follows the course.                                             *)
(***************************************************************************)
LEMMA StatesAreNat ==
  ASSUME TypeOK
  PROVE  /\ test \in DOMAIN Script /\ server \in Servers
         /\ \A n \in States(test, server) : n \in Nat /\ n >= 1
         /\ \A n \in States(test, server) : \A i \in 1 .. n : i \in States(test, server)
<1>1. test \in DOMAIN Script /\ server \in Servers
  BY DEF TypeOK
<1>2. Len(Course[test][server]) \in Nat
  BY <1>1, CourseFacts
<1>3. QED BY <1>1, <1>2 DEF States

LEMMA PcIsStep ==
  ASSUME TypeOK, ~Ended
  PROVE  pc \in Steps(test) /\ Step = Script[test][pc]
<1>1. Len(Script[test]) \in Nat
  BY ScenarioAssumption DEF TypeOK, ScenarioAssumption
<1>2. QED BY <1>1 DEF TypeOK, Ended, Steps, Step

\* A step that the test got past is one it could get past in a state that the
\* server was in.
LEMMA PassedOneMore ==
  ASSUME TypeOK, ~Ended, NEW n \in States(test, server), NEW m \in States(test, server),
         NEW l \in States(test, server), n <= m, n <= l,
         Settled(test, server, pc, m), ~server.async => n = m,
         HasPassed(n), Passable(test, server, pc, n),
         pc' = pc + 1, UNCHANGED <<test, server>>
  PROVE  HasPassed(l)'
<1>1. /\ pc \in Nat /\ pc >= 1
      /\ n \in Nat /\ m \in Nat /\ l \in Nat /\ n >= 1
  BY PcIsStep, StatesAreNat DEF TypeOK
<1>2. Possible(test, server, pc, n)
  BY <1>1 DEF Possible
<1>3. ASSUME NEW j \in 1 .. pc, NEW k \in 1 .. pc, j <= k
      PROVE  \E i, h \in 1 .. l :
               /\ i <= h
               /\ Possible(test, server, j, i) /\ Passable(test, server, j, i)
               /\ Possible(test, server, k, h) /\ Passable(test, server, k, h)
  <2>1. \A i \in 1 .. n : i \in 1 .. l
    BY <1>1
  <2>2. CASE k < pc
    <3>1. j \in 1 .. pc - 1 /\ k \in 1 .. pc - 1
      BY <1>1, <1>3, <2>2
    <3>2. QED BY <1>3, <2>1, <3>1 DEF HasPassed
  <2>3. CASE k = pc /\ j < pc
    <3>1. j \in 1 .. pc - 1 /\ j <= j
      BY <1>1, <2>3
    <3>2. PICK i \in 1 .. n :
            Possible(test, server, j, i) /\ Passable(test, server, j, i)
      BY <3>1 DEF HasPassed
    <3>3. i \in 1 .. l /\ n \in 1 .. l /\ i <= n
      BY <1>1, <3>2
    <3>4. QED BY <1>2, <2>3, <3>2, <3>3
  <2>4. CASE k = pc /\ j = pc
    <3>1. n \in 1 .. l /\ n <= n
      BY <1>1
    <3>2. QED BY <1>2, <2>4, <3>1
  <2>5. QED BY <1>1, <1>3, <2>2, <2>3, <2>4
<1>4. (pc + 1) - 1 = pc
  BY <1>1
<1>5. QED BY <1>3, <1>4 DEF HasPassed

\* The test gets past a step that is not a post.
LEMMA PassInCourse ==
  ASSUME TypeOK, ~Ended, NEW n \in States(test, server), NEW m \in States(test, server),
         InCourse(n, m), HasPassed(n), Passable(test, server, pc, n),
         Step.do # "post", pc' = pc + 1, UNCHANGED <<test, serverVars>>
  PROVE  CourseInStep'
<1> USE DEF serverVars
<1>1. pc \in Steps(test) /\ Step = Script[test][pc]
  BY PcIsStep
<1>2. n \in Nat /\ m \in Nat /\ n <= m /\ Settled(test, server, pc, m)
  BY StatesAreNat DEF InCourse
<1>3. Settled(test, server, pc + 1, m)
  BY <1>1, <1>2, SettledNext, StatesAreNat
<1>4. InCourse(n, m)'
  BY <1>3 DEF InCourse
<1>5. HasPassed(n)'
  <2>1. n <= n /\ (~server.async => n = m)
    BY <1>2 DEF InCourse
  <2>2. QED BY <1>2, <2>1, PassedOneMore
<1>6. QED BY <1>4, <1>5 DEF CourseInStep

LEMMA CourseFrame ==
  ASSUME CourseInStep, UNCHANGED <<test, pc, server, colls, queue, mailbox>>
  PROVE  CourseInStep'
BY DEF CourseInStep, InCourse, HasPassed

\* What a post makes of the next state.
LEMMA PerformNext ==
  ASSUME TypeOK, NEW n \in States(test, server), n + 1 \in States(test, server),
         colls = Course[test][server][n].colls,
         mailbox = Course[test][server][n].mailbox,
         Perform(Script[test][Course[test][server][n + 1].step])
  PROVE  /\ colls' = Course[test][server][n + 1].colls
         /\ mailbox' = Course[test][server][n + 1].mailbox
<1>1. n + 1 > 1 /\ (n + 1) - 1 = n
  BY StatesAreNat
<1>2. test \in DOMAIN Script /\ server \in Servers
  BY StatesAreNat
<1>3. LET effect == Effect(server, Script[test][Course[test][server][n + 1].step])
      IN  /\ Course[test][server][n + 1].colls =
               Updated(Course[test][server][n].colls, effect)
          /\ Course[test][server][n + 1].mailbox =
               Delivered(Course[test][server][n].mailbox, effect)
  BY <1>1, <1>2, CourseFacts
<1>4. QED BY <1>3 DEF Perform

LEMMA WorkInCourse ==
  ASSUME TypeOK, CourseInStep, Work
  PROVE  CourseInStep'
<1> USE DEF Work, testVars
<1>1. PICK n \in States(test, server), m \in States(test, server) :
        InCourse(n, m) /\ HasPassed(n)
  BY DEF CourseInStep
<1> DEFINE S == {Script[test][k] : k \in Steps(test)}
<1>2. queue \in Seq(S) /\ queue # << >>
  BY DEF TypeOK
<1> HIDE DEF S
<1>3. /\ Len(queue) \in Nat /\ Len(queue) >= 1 /\ Head(queue) = queue[1]
      /\ Len(Tail(queue)) = Len(queue) - 1
      /\ \A i \in 1 .. Len(queue) - 1 : Tail(queue)[i] = queue[i + 1]
  BY <1>2, HeadTailProperties
<1>4. n \in Nat /\ m \in Nat /\ n >= 1 /\ n <= m /\ Len(queue) = m - n
  BY <1>1, StatesAreNat DEF InCourse
<1>5. n + 1 <= m /\ 1 \in 1 .. m - n /\ Len(Tail(queue)) = m - (n + 1)
  BY <1>3, <1>4
<1>6. n + 1 \in States(test, server)
  BY <1>4, <1>5, StatesAreNat
<1>7. Head(queue) = Script[test][Course[test][server][n + 1].step]
  BY <1>1, <1>3, <1>5 DEF InCourse
<1>8. /\ colls' = Course[test][server][n + 1].colls
      /\ mailbox' = Course[test][server][n + 1].mailbox
  BY <1>1, <1>6, <1>7, PerformNext DEF InCourse
<1>9. ASSUME NEW i \in 1 .. m - (n + 1)
      PROVE  Tail(queue)[i] = Script[test][Course[test][server][(n + 1) + i].step]
  <2>1. i \in 1 .. Len(queue) - 1 /\ i + 1 \in 1 .. m - n /\ n + (i + 1) = (n + 1) + i
    BY <1>4
  <2>2. Tail(queue)[i] = queue[i + 1]
    BY <1>3, <2>1
  <2>3. queue[i + 1] = Script[test][Course[test][server][n + (i + 1)].step]
    BY <1>1, <2>1 DEF InCourse
  <2>4. QED BY <2>1, <2>2, <2>3
<1>10. server.async
  BY <1>1, <1>4, <1>5 DEF InCourse
<1>11. InCourse(n + 1, m)'
  BY <1>1, <1>5, <1>8, <1>9, <1>10 DEF InCourse
<1>12. HasPassed(n + 1)'
  <2>1. \A i \in 1 .. n : i \in 1 .. n + 1
    BY <1>4
  <2>2. QED BY <1>1, <2>1 DEF HasPassed
<1>13. QED BY <1>6, <1>11, <1>12 DEF CourseInStep

\* A post before which the server has processed everything, and after which it
\* has processed that post as well, or none of a longer queue.
LEMMA PostInCourse ==
  ASSUME TypeOK, CourseInStep, DoPost
  PROVE  CourseInStep'
<1> USE DEF DoPost
<1>1. PICK n \in States(test, server), m \in States(test, server) :
        InCourse(n, m) /\ HasPassed(n)
  BY DEF CourseInStep
<1>2. ~Ended /\ Step.do = "post"
  BY DEF At
<1>3. pc \in Steps(test) /\ Step = Script[test][pc]
  BY <1>2, PcIsStep
<1>4. n \in Nat /\ m \in Nat /\ n >= 1 /\ n <= m /\ Settled(test, server, pc, m)
  BY <1>1, StatesAreNat DEF InCourse
<1>5. /\ m + 1 \in States(test, server)
      /\ Settled(test, server, pc + 1, m + 1)
      /\ Course[test][server][m + 1].step = pc
  BY <1>2, <1>3, <1>4, SettledNext, StatesAreNat
<1>6. Passable(test, server, pc, n)
  BY <1>2, <1>3 DEF Passable, IsCheck
<1>7. ~server.async => n = m
  BY <1>1 DEF InCourse
<1>8. ASSUME NEW l \in States(test, server), n <= l
      PROVE  HasPassed(l)'
  BY <1>1, <1>2, <1>4, <1>6, <1>7, <1>8, PassedOneMore
<1>9. CASE server.async
  <2> DEFINE S == {Script[test][k] : k \in Steps(test)}
  <2>1. queue \in Seq(S) /\ Step \in S /\ queue' = Append(queue, Step)
    BY <1>3, <1>9 DEF TypeOK
  <2> HIDE DEF S
  <2>2. /\ Len(queue) \in Nat /\ Len(queue') = Len(queue) + 1
        /\ \A i \in 1 .. Len(queue) : queue'[i] = queue[i]
        /\ queue'[Len(queue) + 1] = Step
    BY <2>1, AppendProperties
  <2>3. Len(queue) = m - n
    BY <1>1 DEF InCourse
  <2>4. ASSUME NEW i \in 1 .. (m + 1) - n
        PROVE  queue'[i] = Script[test][Course[test][server][n + i].step]
    <3>1. CASE i \in 1 .. m - n
      <4>1. queue'[i] = queue[i]
        BY <2>2, <2>3, <3>1
      <4>2. QED BY <1>1, <3>1, <4>1 DEF InCourse
    <3>2. CASE i = (m - n) + 1
      <4>1. n + i = m + 1
        BY <1>4, <3>2
      <4>2. QED BY <1>3, <1>5, <2>2, <2>3, <3>2, <4>1
    <3>3. QED BY <1>4, <2>4, <3>1, <3>2
  <2>5. n <= m + 1 /\ Len(queue') = (m + 1) - n
    BY <1>4, <2>2, <2>3
  <2>6. UNCHANGED <<colls, mailbox>>
    BY <1>9
  <2>7. InCourse(n, m + 1)'
    BY <1>1, <1>5, <1>9, <2>4, <2>5, <2>6 DEF InCourse
  <2>8. HasPassed(n)'
    BY <1>4, <1>8
  <2>9. QED BY <1>5, <2>7, <2>8 DEF CourseInStep
<1>10. CASE ~server.async
  <2>1. n = m /\ Perform(Step) /\ UNCHANGED queue
    BY <1>7, <1>10
  <2>2. /\ colls' = Course[test][server][n + 1].colls
        /\ mailbox' = Course[test][server][n + 1].mailbox
    BY <1>1, <1>3, <1>5, <2>1, PerformNext DEF InCourse
  <2>3. (m + 1) - (n + 1) = m - n /\ n + 1 = m + 1 /\ n + 1 <= m + 1 /\ n <= n + 1
    BY <1>4, <2>1
  <2>4. \A i : i \notin 1 .. m - n
    BY <1>4, <2>1
  <2>5. Len(queue') = (m + 1) - (n + 1)
    BY <1>1, <2>1, <2>3 DEF InCourse
  <2>6. InCourse(n + 1, m + 1)'
    BY <1>5, <2>2, <2>3, <2>4, <2>5 DEF InCourse
  <2>7. HasPassed(n + 1)'
    BY <1>5, <1>8, <2>1, <2>3
  <2>8. QED BY <1>5, <2>1, <2>6, <2>7 DEF CourseInStep
<1>11. QED BY <1>9, <1>10

LEMMA CourseStep ==
  ASSUME TypeOK, CourseInStep, PollInStep, [Next]_vars
  PROVE  CourseInStep'
<1> USE DEF serverVars
<1>1. PICK n \in States(test, server), m \in States(test, server) :
        InCourse(n, m) /\ HasPassed(n)
  BY DEF CourseInStep
<1>2. colls = Course[test][server][n].colls /\ mailbox = Course[test][server][n].mailbox
  BY <1>1 DEF InCourse
<1>3. ASSUME ~Ended, Step.do # "post", pc' = pc + 1, UNCHANGED <<test, serverVars>>,
             Passable(test, server, pc, n)
      PROVE  CourseInStep'
  BY <1>1, <1>3, PassInCourse
<1>4. ASSUME ~Ended PROVE Step = Script[test][pc]
  BY <1>4, PcIsStep
<1>5. CASE Work
  BY <1>5, WorkInCourse
<1>6. CASE DoPost
  BY <1>6, PostInCourse
<1>7. CASE PostRefused
  BY <1>7, CourseFrame DEF PostRefused, Fail
<1>17. CASE ReadRaises
  BY <1>17, CourseFrame DEF ReadRaises, Fail
<1>8. CASE ReadOnce
  <2>1. CASE Satisfied(Step, colls)
    <3>1. Passable(test, server, pc, n)
      BY <1>2, <1>4, <1>8, <2>1 DEF ReadOnce, At, Passable
    <3>2. QED BY <1>3, <1>8, <2>1, <3>1 DEF ReadOnce, At, Pass
  <2>2. CASE ~Satisfied(Step, colls)
    BY <1>8, <2>2, CourseFrame DEF ReadOnce, Fail
  <2>3. QED BY <2>1, <2>2
<1>9. CASE PollRead
  <2>1. CASE Satisfied(Step, colls)
    <3>1. Passable(test, server, pc, n)
      BY <1>2, <1>4, <1>9, <2>1 DEF PollRead, At, Passable
    <3>2. QED BY <1>3, <1>9, <2>1, <3>1 DEF PollRead, At
  <2>2. CASE ~Satisfied(Step, colls)
    BY <1>9, <2>2, CourseFrame DEF PollRead
  <2>3. QED BY <2>1, <2>2
<1>10. CASE PollSleep
  BY <1>10, CourseFrame DEF PollSleep
<1>11. CASE PollEnds
  <2>1. CASE Step.checked
    BY <1>11, <2>1, CourseFrame DEF PollEnds, Fail
  <2>2. CASE ~Step.checked
    <3>1. Passable(test, server, pc, n)
      <4>1. tries > 0
        BY <1>11, ScenarioAssumption DEF PollEnds, ScenarioAssumption
      <4>2. QED
        BY <1>4, <1>11, <2>2, <4>1 DEF PollInStep, PollEnds, At, Passable, IsCheck
    <3>2. QED BY <1>3, <1>11, <2>2, <3>1 DEF PollEnds, At, Pass
  <2>3. QED BY <2>1, <2>2
<1>12. CASE Receive
  <2>1. Passable(test, server, pc, n)
    BY <1>2, <1>4, <1>12 DEF Receive, At, Passable, IsCheck
  <2>2. QED BY <1>3, <1>12, <2>1 DEF Receive, At, Pass
<1>13. CASE ReceiveTimesOut
  BY <1>13, CourseFrame DEF ReceiveTimesOut, Fail
<1>14. CASE Finish
  BY <1>14, CourseFrame DEF Finish
<1>15. CASE UNCHANGED vars
  BY <1>15, CourseFrame DEF vars
<1>16. QED
  BY <1>5, <1>6, <1>7, <1>8, <1>9, <1>10, <1>11, <1>12, <1>13, <1>14, <1>15,
     <1>17
  DEF Next, TestSteps

-----------------------------------------------------------------------------
(***************************************************************************)
(* The rest of the inductive invariant.                                    *)
(***************************************************************************)
LEMMA InitIInv ==
  ASSUME Init
  PROVE  IInv
<1> USE DEF Init
<1>1. test \in DOMAIN Script /\ server \in Servers
  OBVIOUS
<1>2. /\ Len(Script[test]) \in Nat
      /\ Course[test][server][1] =
           [step |-> 0, colls |-> [x \in Collections |-> << >>], mailbox |-> 0]
  BY <1>1, CourseFacts
<1>3. Tries \in Nat \ {0} /\ Delay \in Nat \ {0}
  BY ScenarioAssumption DEF ScenarioAssumption
<1>4. Len(queue) = 0 /\ queue \in Seq({Script[test][k] : k \in Steps(test)})
  BY EmptySeq
<1>5. TypeOK
  <2>1. pc \in 1 .. Len(Script[test]) + 1
    BY <1>2
  <2>2. tries \in 0 .. Tries
    BY <1>3
  <2>3. QED BY <1>1, <1>4, <2>1, <2>2 DEF TypeOK
<1>6. 1 \in States(test, server) /\ Settled(test, server, 1, 1)
  BY <1>1, SettledFirst
<1>7. InCourse(1, 1)
  BY <1>2, <1>4, <1>6 DEF InCourse
<1>8. HasPassed(1)
  BY DEF HasPassed
<1>9. CourseInStep
  BY <1>6, <1>7, <1>8 DEF CourseInStep
<1>10. AgeInStep /\ PollInStep /\ VerdictInStep
  BY <1>3 DEF AgeInStep, PollInStep, VerdictInStep
<1>11. QED BY <1>5, <1>9, <1>10 DEF IInv

LEMMA TypeStep ==
  ASSUME IInv, [Next]_vars
  PROVE  TypeOK'
<1> USE DEF IInv, testVars, serverVars
<1> DEFINE S == {Script[test][k] : k \in Steps(test)}
<1>1. TypeOK /\ CourseInStep'
  BY CourseStep
<1>2. UNCHANGED <<test, server>>
  BY DEF Next, TestSteps, Work, DoPost, PostRefused, ReadRaises, ReadOnce, PollRead, PollSleep, PollEnds,
         Receive, ReceiveTimesOut, Finish, vars
<1>3. mailbox' \in Nat
  <2>1. PICK n \in States(test, server) : mailbox' = Course[test][server][n].mailbox
    BY <1>1, <1>2 DEF CourseInStep, InCourse
  <2>2. QED BY <1>1, <2>1, StatesAreNat, CourseFacts
<1>4. ~Ended => pc \in Steps(test) /\ Step \in S /\ pc + 1 \in 1 .. Len(Script[test]) + 1
  <2>1. Len(Script[test]) \in Nat
    BY <1>1, StatesAreNat, CourseFacts
  <2>2. QED BY <1>1, <2>1, PcIsStep DEF Steps
<1>5. Tries \in Nat
  BY ScenarioAssumption DEF ScenarioAssumption
<1>6. queue \in Seq(S)
  BY <1>1 DEF TypeOK
<1> HIDE DEF S
<1>7. queue # << >> => Tail(queue) \in Seq(S)
  BY <1>6, HeadTailProperties
<1>8. Step \in S => Append(queue, Step) \in Seq(S)
  BY <1>6, AppendProperties
<1>9. queue' \in Seq(S) /\ age' \in Nat
  <2>1. age \in Nat
    BY <1>1 DEF TypeOK
  <2>2. CASE Work
    BY <1>6, <1>7, <2>1, <2>2 DEF Work
  <2>3. CASE DoPost
    BY <1>4, <1>6, <1>8, <2>1, <2>3 DEF DoPost, At
  <2>4. CASE PollSleep
    BY <1>6, <2>1, <2>4 DEF PollSleep
  <2>5. CASE UNCHANGED <<queue, age>>
    BY <1>6, <2>1, <2>5
  <2>6. QED
    BY <2>2, <2>3, <2>4, <2>5
    DEF Next, TestSteps, PostRefused, ReadRaises, ReadOnce, PollRead, PollEnds, Receive, ReceiveTimesOut,
        Finish, vars
<1> DEFINE places == 1 .. Len(Script[test]) + 1
<1>10. /\ pc \in places /\ (~Ended => pc + 1 \in places)
       /\ tries \in 0 .. Tries /\ 0 \in 0 .. Tries
       /\ tries < Tries => tries + 1 \in 0 .. Tries
       /\ asleep \in BOOLEAN /\ verdict \in {"running", "pass", "fail"}
  BY <1>1, <1>4, <1>5 DEF TypeOK
<1> HIDE DEF places
<1>11. /\ pc' \in places /\ tries' \in 0 .. Tries
       /\ asleep' \in BOOLEAN /\ verdict' \in {"running", "pass", "fail"}
  <2>1. CASE PollRead
    BY <1>10, <2>1 DEF PollRead, At
  <2>2. CASE PollSleep
    BY <1>10, <2>2 DEF PollSleep
  <2>3. CASE PollEnds
    BY <1>10, <2>3 DEF PollEnds, At, Pass, Fail
  <2>4. CASE DoPost
    BY <1>10, <2>4 DEF DoPost, At
  <2>5. CASE PostRefused \/ ReadRaises \/ ReadOnce \/ Receive \/ ReceiveTimesOut \/ Finish
    BY <1>10, <2>5 DEF PostRefused, ReadRaises, ReadOnce, Receive, ReceiveTimesOut, Finish, At, Pass, Fail
  <2>6. CASE Work \/ UNCHANGED vars
    BY <1>10, <2>6 DEF Work, vars
  <2>7. QED BY <2>1, <2>2, <2>3, <2>4, <2>5, <2>6 DEF Next, TestSteps
<1>12. queue' \in Seq({Script[test][k] : k \in Steps(test)})
  BY <1>9 DEF S
<1>13. pc' \in 1 .. Len(Script[test]) + 1
  BY <1>11 DEF places
<1>14. QED BY <1>1, <1>2, <1>3, <1>9, <1>11, <1>12, <1>13 DEF TypeOK, Steps

\* A read that is satisfied ends the poll, any other is counted.
LEMMA ReadCounts ==
  ASSUME PollRead
  PROVE  /\ Satisfied(Step, colls) => tries' = 0 /\ ~asleep' /\ pc' = pc + 1
         /\ ~Satisfied(Step, colls) => tries' = tries + 1 /\ asleep' /\ pc' = pc
<1> DEFINE good == Satisfied(Step, colls)
<1>1. /\ tries' = IF good THEN 0 ELSE tries + 1
      /\ asleep' = ~good
      /\ pc' = IF good THEN pc + 1 ELSE pc
  BY DEF PollRead
<1> HIDE DEF good
<1>2. QED
  <2>1. CASE good
    <3>1. asleep' = FALSE
      BY <1>1, <2>1
    <3>2. QED BY <1>1, <2>1, <3>1 DEF good
  <2>2. CASE ~good
    <3>1. asleep' = TRUE
      BY <1>1, <2>2
    <3>2. QED BY <1>1, <2>2, <3>1 DEF good
  <2>3. QED BY <2>1, <2>2

LEMMA AgeStep ==
  ASSUME IInv, [Next]_vars
  PROVE  AgeInStep'
<1> USE DEF IInv, testVars, serverVars
<1>1. tries \in Nat /\ age \in Nat /\ Delay \in Nat \ {0} /\ asleep \in BOOLEAN
  BY ScenarioAssumption DEF TypeOK, ScenarioAssumption
<1>2. CASE Work
  BY <1>1, <1>2 DEF AgeInStep, Work
<1>3. CASE DoPost
  \* No poll runs, so that the age of the queue says nothing yet.
  <2>1. tries = 0 /\ ~asleep
    BY <1>1, <1>3 DEF PollInStep, DoPost, At
  <2>2. UNCHANGED <<age, tries, asleep>> /\ (queue' = queue \/ queue' = Append(queue, Step))
    BY <1>3 DEF DoPost
  <2>3. queue' = << >> => queue = << >>
    <3>1. Len(queue) \in Nat /\ Len(Append(queue, Step)) = Len(queue) + 1
      BY DEF TypeOK
    <3>2. Append(queue, Step) # << >>
      BY <3>1
    <3>3. QED BY <2>2, <3>2
  <2>4. QED BY <1>1, <2>1, <2>2, <2>3 DEF AgeInStep
<1>4. CASE PollRead
  <2>1. ~asleep /\ UNCHANGED <<age, queue>>
    BY <1>4 DEF PollRead
  <2>2. (tries' = 0 /\ ~asleep') \/ (tries' = tries + 1 /\ asleep')
    BY <1>4, ReadCounts
  <2>3. QED BY <1>1, <2>1, <2>2 DEF AgeInStep
<1>5. CASE PollSleep
  BY <1>1, <1>5 DEF AgeInStep, PollSleep
<1>6. CASE PollEnds
  BY <1>1, <1>6 DEF AgeInStep, PollEnds
<1>7. CASE UNCHANGED <<tries, asleep, queue, age>>
  BY <1>7 DEF AgeInStep
<1>8. QED
  BY <1>2, <1>3, <1>4, <1>5, <1>6, <1>7
  DEF Next, TestSteps, PostRefused, ReadRaises, ReadOnce, Receive, ReceiveTimesOut, Finish, vars

\* A correct server that has processed every post lets the test get on.
LEMMA EmptyQueuePassable ==
  ASSUME TypeOK, CourseInStep, ~Ended, Correct(server, test),
         queue = << >> \/ ~server.async
  PROVE  /\ IsCheck(Step) => Satisfied(Step, colls)
         /\ Step.do = "await" => mailbox > 0
<1>1. PICK n \in States(test, server), m \in States(test, server) : InCourse(n, m)
  BY DEF CourseInStep
<1>2. n = m
  <2>1. n \in Nat /\ m \in Nat
    BY StatesAreNat
  <2>2. CASE queue = << >>
    <3>1. Len(queue) = 0
      BY <2>2
    <3>2. QED BY <1>1, <2>1, <3>1 DEF InCourse
  <2>3. QED BY <1>1, <2>2 DEF InCourse
<1>3. pc \in Steps(test) /\ Step = Script[test][pc]
  BY PcIsStep
<1>4. Settled(test, server, pc, n)
  BY <1>1, <1>2 DEF InCourse
<1>5. Passable(test, server, pc, n)
  BY <1>3, <1>4, LawfulAssumption DEF TypeOK, LawfulAssumption
<1>6. QED BY <1>1, <1>3, <1>5 DEF Passable, InCourse

LEMMA PollStep ==
  ASSUME IInv, [Next]_vars
  PROVE  PollInStep'
<1> USE DEF IInv, testVars, serverVars
<1>1. /\ tries \in Nat /\ age \in Nat /\ asleep \in BOOLEAN
      /\ Delay \in Nat \ {0} /\ Tries \in Nat \ {0}
  BY ScenarioAssumption DEF TypeOK, ScenarioAssumption
<1>2. CASE PollRead
  <2>1. CASE Satisfied(Step, colls)
    BY <1>2, <2>1, ReadCounts DEF PollInStep
  <2>2. CASE ~Satisfied(Step, colls)
    <3>1. /\ ~Ended /\ Step.do = "poll" /\ ~asleep /\ Readable(Step)
          /\ tries' = tries + 1 /\ UNCHANGED <<test, server, pc, verdict>>
      BY <1>2, <2>2 DEF PollRead, At
    <3>2. ASSUME Correct(server, test), Step.checked
          PROVE  server.async /\ tries + 1 <= Delay
      <4>1. IsCheck(Step)
        BY <3>1, <3>2 DEF IsCheck
      <4>2. queue # << >> /\ server.async
        BY <2>2, <3>1, <3>2, <4>1, EmptyQueuePassable
      <4>3. QED BY <1>1, <3>1, <4>2 DEF AgeInStep
    <3>3. At("poll")'
      BY <1>2, <3>1 DEF PollRead, At, Ended, Step
    <3>4. Step' = Step /\ Readable(Step)'
      BY <3>1 DEF Step, Readable
    <3>5. QED BY <1>1, <3>1, <3>2, <3>3, <3>4 DEF PollInStep
  <2>3. QED BY <2>1, <2>2
<1>3. CASE PollEnds
  BY <1>3 DEF PollInStep, PollEnds
<1>4. CASE PollSleep \/ Work \/ UNCHANGED vars
  BY <1>4 DEF PollInStep, PollSleep, Work, vars, At, Ended, Step, Readable
<1>5. CASE DoPost \/ PostRefused \/ ReadRaises \/ ReadOnce \/ Receive \/ ReceiveTimesOut \/ Finish
  <2>1. tries = 0 /\ ~asleep /\ UNCHANGED <<tries, asleep>>
    BY <1>1, <1>5
    DEF PollInStep, DoPost, PostRefused, ReadRaises, ReadOnce, Receive, ReceiveTimesOut, Finish, At
  <2>2. QED BY <2>1 DEF PollInStep
<1>6. QED BY <1>2, <1>3, <1>4, <1>5 DEF Next, TestSteps

\* The poll before a single read has made sure of what the read asks for.
LEMMA PatientReadPassable ==
  ASSUME TypeOK, CourseInStep, At("once"), Correct(server, test),
         server.async => Patient(test)
  PROVE  Satisfied(Step, colls)
<1>1. ~Ended /\ Step.do = "once" /\ IsCheck(Step)
  BY DEF At, IsCheck
<1>2. pc \in Steps(test) /\ Step = Script[test][pc] /\ pc \in Nat
  BY <1>1, PcIsStep DEF TypeOK
<1>3. CASE ~server.async
  BY <1>1, <1>3, EmptyQueuePassable
<1>4. CASE server.async
  <2>1. PICK n \in States(test, server), m \in States(test, server) :
          InCourse(n, m) /\ HasPassed(n)
    BY DEF CourseInStep
  <2>2. n \in Nat /\ n >= 1 /\ m \in Nat /\ n <= m
    BY <2>1, StatesAreNat DEF InCourse
  <2>3. Possible(test, server, pc, n)
    BY <1>4, <2>1, <2>2 DEF Possible, InCourse
  <2>4. PICK j \in 1 .. pc - 1 :
          \A i, l \in States(test, server) :
            (/\ i <= l /\ Possible(test, server, j, i) /\ Passable(test, server, j, i)
             /\ Possible(test, server, pc, l)) => Passable(test, server, pc, l)
    BY <1>1, <1>2, <1>4, PatienceAssumption DEF TypeOK, PatienceAssumption
  <2>5. j <= j
    BY <1>2
  <2>6. PICK i \in 1 .. n : Possible(test, server, j, i) /\ Passable(test, server, j, i)
    BY <2>1, <2>5 DEF HasPassed
  <2>7. i \in States(test, server) /\ i <= n
    BY <2>2, <2>6, StatesAreNat
  <2>8. Passable(test, server, pc, n)
    BY <2>3, <2>4, <2>6, <2>7
  <2>9. QED BY <1>1, <1>2, <2>1, <2>8 DEF Passable, InCourse
<1>5. QED BY <1>3, <1>4

LEMMA VerdictStep ==
  ASSUME IInv, [Next]_vars
  PROVE  VerdictInStep'
<1> USE DEF IInv, testVars, serverVars
<1> DEFINE fair == Correct(server, test) /\ (server.async => Patient(test) /\ Delay < Tries)
<1>1. UNCHANGED <<test, server>>
  BY DEF Next, TestSteps, Work, DoPost, PostRefused, ReadRaises, ReadOnce, PollRead, PollSleep, PollEnds,
         Receive, ReceiveTimesOut, Finish, vars
<1>2. fair' <=> fair
  BY <1>1
<1>3. verdict = "running" /\ ~Ended => verdict' # "pass"
  BY DEF VerdictInStep, Next, TestSteps, Work, DoPost, PostRefused, ReadRaises, ReadOnce, PollRead,
         PollSleep, PollEnds, Receive, ReceiveTimesOut, Finish, Pass, Fail, vars
<1>4. verdict # "running" => UNCHANGED <<verdict, pc>>
  BY DEF Next, TestSteps, Work, DoPost, PostRefused, ReadRaises, ReadOnce, PollRead, PollSleep, PollEnds,
         Receive, ReceiveTimesOut, Finish, At, vars
<1>5. Ended => UNCHANGED pc
  BY DEF Next, TestSteps, Work, DoPost, PostRefused, ReadRaises, ReadOnce, PollRead, PollSleep, PollEnds,
         Receive, ReceiveTimesOut, Finish, At, vars
<1>6. (verdict = "pass" => Ended)'
  BY <1>1, <1>3, <1>4, <1>5 DEF VerdictInStep, TypeOK, Ended
<1>7. ASSUME fair, verdict = "running"
      PROVE  verdict' # "fail"
  <2>1. TypeOK /\ CourseInStep /\ Correct(server, test)
    BY <1>7
  <2>2. CASE PostRefused
    <3>1. ~Ended /\ Step.do = "post" /\ server.dereferences /\ ~Step.served
      BY <2>2 DEF PostRefused, At, Outcome
    <3>2. pc \in Steps(test) /\ Step = Script[test][pc]
      BY <2>1, <3>1, PcIsStep
    <3>3. QED BY <2>1, <3>1, <3>2 DEF Correct, Served
  <2>3. CASE ReadOnce
    <3>1. Satisfied(Step, colls)
      BY <1>7, <2>1, <2>3, PatientReadPassable DEF ReadOnce
    <3>2. QED BY <1>7, <2>3, <3>1 DEF ReadOnce, Pass
  <2>4. CASE PollEnds
    <3>1. tries = Tries /\ Tries \in Nat \ {0} /\ Delay \in Nat
      BY <2>4, ScenarioAssumption DEF PollEnds, ScenarioAssumption
    <3>2. Step.checked => server.async /\ Tries <= Delay
      BY <2>1, <3>1 DEF PollInStep
    <3>3. ~Step.checked
      BY <1>7, <3>1, <3>2
    <3>4. QED BY <1>7, <2>4, <3>3 DEF PollEnds, Pass
  <2>8. CASE ReadRaises
    <3>1. ~Ended /\ Step.do \in {"once", "poll"} /\ ~Readable(Step)
      BY <2>8 DEF ReadRaises, At
    <3>2. pc \in Steps(test) /\ Step = Script[test][pc]
      BY <2>1, <3>1, PcIsStep
    <3>3. QED BY <2>1, <3>1, <3>2 DEF Correct, Served
  <2>5. CASE ReceiveTimesOut
    <3>1. ~Ended /\ Step.do = "await" /\ mailbox = 0 /\ queue = << >>
      BY <2>5 DEF ReceiveTimesOut, At
    <3>2. mailbox > 0
      BY <2>1, <3>1, EmptyQueuePassable
    <3>3. QED BY <3>1, <3>2
  <2>6. CASE Work \/ DoPost \/ PollRead \/ PollSleep \/ Receive \/ Finish \/ UNCHANGED vars
    BY <1>7, <2>6 DEF Work, DoPost, PollRead, PollSleep, Receive, Finish, Pass, vars
  <2>7. QED BY <2>2, <2>3, <2>4, <2>5, <2>6, <2>8 DEF Next, TestSteps
<1>8. ASSUME fair
      PROVE  verdict' # "fail"
  <2>1. verdict # "fail"
    BY <1>8 DEF VerdictInStep
  <2>2. CASE verdict = "running"
    BY <1>7, <1>8, <2>2
  <2>3. CASE verdict = "pass"
    BY <1>4, <2>3
  <2>4. QED BY <2>1, <2>2, <2>3 DEF TypeOK
<1>9. QED BY <1>2, <1>6, <1>8 DEF VerdictInStep

LEMMA NextIInv ==
  ASSUME IInv, [Next]_vars
  PROVE  IInv'
<1>1. CourseInStep'
  BY CourseStep DEF IInv
<1>2. QED BY <1>1, TypeStep, AgeStep, PollStep, VerdictStep DEF IInv

-----------------------------------------------------------------------------
(***************************************************************************)
(* The verdicts.                                                           *)
(***************************************************************************)
\* A run follows the course of its test: the queue of the server-under-test
\* holds the posts that separate its state from the one the test has asked
\* for, and every step that the test got past was one it could get past in a
\* state the server was in, in the order of the steps.
THEOREM Invariance == Spec => []IInv
<1>1. Init => IInv
  BY InitIInv
<1>2. IInv /\ [Next]_vars => IInv'
  BY NextIInv
<1>3. QED BY <1>1, <1>2, PTL DEF Spec

\* A pass tells that the test found everything it asked for: the suite never
\* passes over a document that is not served, nor over a post that a server
\* refused (client.py:164-168, support.py:204-210).  No assumption on the
\* suite is about this.
THEOREM PassesAreServed == Spec => []PassesTell
<1>1. IInv => PassesTell
  <2> SUFFICES ASSUME IInv, verdict = "pass", NEW k \in Steps(test)
               PROVE  LET step == Script[test][k]
                      IN  /\ step.do \in {"once", "poll"} => Readable(step)
                          /\ (step.do = "post" /\ server.dereferences /\ ~server.async)
                               => step.served
    BY DEF PassesTell
  <2>1. TypeOK /\ CourseInStep /\ Ended /\ test \in DOMAIN Script /\ server \in Servers
    BY DEF IInv, VerdictInStep, TypeOK
  <2>2. pc \in Nat /\ Len(Script[test]) \in Nat /\ pc > Len(Script[test])
    BY <2>1, CourseFacts DEF TypeOK, Ended
  <2>3. PICK n \in States(test, server) : HasPassed(n)
    BY <2>1 DEF CourseInStep
  <2>4. k \in 1 .. pc - 1 /\ k <= k
    BY <2>2 DEF Steps
  <2>5. PICK i \in 1 .. n : Passable(test, server, k, i)
    BY <2>3, <2>4 DEF HasPassed
  <2>6. QED BY <2>5 DEF Passable, Outcome
<1>2. QED BY <1>1, Invariance, PTL

\* No test fails a correct server that works after it has answered, where it
\* reads only what it has polled for (Patient), as long as the server processes
\* a post in fewer periods than a poll makes reads (support.py:130-144).
THEOREM PatientTestsPass ==
  ASSUME Delay < Tries
  PROVE  Spec => []PatientNeverFails
<1>1. IInv => PatientNeverFails
  BY DEF IInv, VerdictInStep, PatientNeverFails
<1>2. QED BY <1>1, Invariance, PTL

\* A test that gives a pass has got past all of its steps, two of which no
\* server with the defect gets it past, whenever the server processes the
\* posts.
THEOREM DefectsAreDetected == Spec => []Detects
<1>1. IInv => Detects
  <2> SUFFICES ASSUME IInv, verdict = "pass", server.defective
               PROVE  Blind(test) \/ (server.async /\ MayLookTooEarly(test))
    BY DEF Detects
  <2>1. TypeOK /\ CourseInStep /\ Ended /\ test \in DOMAIN Script /\ server \in Servers
    BY DEF IInv, VerdictInStep, TypeOK
  <2>2. pc \in Nat /\ Len(Script[test]) \in Nat /\ pc > Len(Script[test])
    BY <2>1, CourseFacts DEF TypeOK, Ended
  <2>3. PICK n \in States(test, server) : HasPassed(n)
    BY <2>1 DEF CourseInStep
  <2>4. ASSUME NEW j \in Steps(test), NEW k \in Steps(test), j <= k,
               \A i, l \in States(test, server) :
                 (i <= l /\ Possible(test, server, j, i) /\ Possible(test, server, k, l))
                   => ~(Passable(test, server, j, i) /\ Passable(test, server, k, l))
        PROVE  FALSE
    <3>1. j \in 1 .. pc - 1 /\ k \in 1 .. pc - 1
      BY <2>2 DEF Steps
    <3>2. PICK i \in 1 .. n, l \in 1 .. n :
            /\ i <= l
            /\ Possible(test, server, j, i) /\ Passable(test, server, j, i)
            /\ Possible(test, server, k, l) /\ Passable(test, server, k, l)
      BY <2>3, <2>4, <3>1 DEF HasPassed
    <3>3. i \in States(test, server) /\ l \in States(test, server)
      BY <2>1, StatesAreNat
    <3>4. QED BY <2>4, <3>2, <3>3
  <2>5. QED BY <2>1, <2>4, DefectAssumption DEF DefectAssumption
<1>2. QED BY <1>1, Invariance, PTL
=============================================================================
