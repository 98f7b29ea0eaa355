--------------------------- MODULE ScenarioCourses ---------------------------
(***************************************************************************)
(* What a suite must be like for its tests to give the verdicts that       *)
(* Scenarios promises.  The course of a test is what each of its posts     *)
(* makes of a server, one post after the other, whenever the server gets   *)
(* to it.  The assumptions are about the courses alone: nothing in them is *)
(* about reads, polls, waiting or the time that a server takes.            *)
(***************************************************************************)
EXTENDS Scenarios

CONSTANT Course  \* for a test and a server: its state before the first post
                 \* and after each one, with the step of the script that
                 \* posted it

States(t, s) == 1 .. Len(Course[t][s])

ASSUME CourseAssumption ==
  \A t \in DOMAIN Script, s \in Servers :
    LET c == Course[t][s]
    IN  /\ Len(c) \in Nat \ {0}
        /\ c[1] = [step |-> 0, colls |-> [x \in Collections |-> << >>], mailbox |-> 0]
        /\ \A n \in States(t, s) : c[n].mailbox \in Nat
        /\ \A n, m \in States(t, s) : n < m => c[n].step < c[m].step
        /\ \A n \in States(t, s) : n > 1 =>
             LET k == c[n].step
                 effect == Effect(s, Script[t][k])
             IN  /\ k \in Steps(t) /\ Script[t][k].do = "post"
                 /\ c[n].colls = Updated(c[n - 1].colls, effect)
                 /\ c[n].mailbox = Delivered(c[n - 1].mailbox, effect)
        /\ \A k \in Steps(t) :
             Script[t][k].do = "post" => \E n \in States(t, s) : c[n].step = k

\* The state when every post before the step k has been processed.
Settled(t, s, k, n) ==
  /\ n \in States(t, s)
  /\ \A m \in States(t, s) : Course[t][s][m].step < k <=> m <= n

\* The states in which a server can be when the test is at the step k.
Possible(t, s, k, n) ==
  \E m \in States(t, s) :
    Settled(t, s, k, m) /\ n \in 1 .. m /\ (~s.async => n = m)

\* The test can get past the step k while the server is in the state n.
Passable(t, s, k, n) ==
  LET step == Script[t][k]
      state == Course[t][s][n]
  IN  /\ step.do \in {"once", "poll"} => Readable(step)
      /\ IsCheck(step) => Satisfied(step, state.colls)
      /\ step.do = "await" => state.mailbox > 0
      /\ step.do = "post" => s.async \/ Outcome(s, step) # "dropped"

\* A test asks a correct server for nothing but what its posts lead to.
ASSUME LawfulAssumption ==
  \A t \in DOMAIN Script, s \in Servers :
    Correct(s, t) =>
      \A k \in Steps(t), n \in States(t, s) :
        Settled(t, s, k, n) => Passable(t, s, k, n)

\* The poll before a single read waits for enough.
ASSUME PatienceAssumption ==
  \A t \in DOMAIN Script, s \in Servers :
    (Correct(s, t) /\ s.async /\ Patient(t)) =>
      \A k \in Steps(t) : Script[t][k].do = "once" =>
        \E j \in 1 .. k - 1 :
          \A n, m \in States(t, s) :
            (n <= m /\ Possible(t, s, j, n) /\ Passable(t, s, j, n) /\ Possible(t, s, k, m))
              => Passable(t, s, k, m)

\* A defective server cannot get the test past both of two of its steps,
\* whenever it processes the posts; one of them is enough for most tests.
ASSUME DefectAssumption ==
  \A t \in DOMAIN Script, s \in Servers :
    s.defective =>
      \/ Blind(t)
      \/ s.async /\ MayLookTooEarly(t)
      \/ \E j, k \in Steps(t) : j <= k /\ \A n, m \in States(t, s) :
           (n <= m /\ Possible(t, s, j, n) /\ Possible(t, s, k, m))
             => ~(Passable(t, s, j, n) /\ Passable(t, s, k, m))

-----------------------------------------------------------------------------
(***************************************************************************)
(* How a run of Scenarios follows the course of its test.                  *)
(***************************************************************************)
TypeOK ==
  /\ test \in DOMAIN Script
  /\ server \in Servers
  /\ pc \in 1 .. Len(Script[test]) + 1
  /\ tries \in 0 .. Tries
  /\ asleep \in BOOLEAN
  /\ queue \in Seq({Script[test][k] : k \in Steps(test)})
  /\ age \in Nat
  /\ mailbox \in Nat
  /\ verdict \in {"running", "pass", "fail"}

\* The test has made the posts up to the m-th state of its course, and the
\* server, being in the n-th, has the ones in between in its queue.
InCourse(n, m) ==
  LET c == Course[test][server]
  IN  /\ n <= m
      /\ Settled(test, server, pc, m)
      /\ colls = c[n].colls /\ mailbox = c[n].mailbox
      /\ Len(queue) = m - n
      /\ \A i \in 1 .. m - n : queue[i] = Script[test][c[n + i].step]
      /\ ~server.async => n = m

\* The server was in states that let the test get where it is, and in the
\* order of its steps.
HasPassed(n) ==
  \A j, k \in 1 .. pc - 1 :
    j <= k => \E i, l \in 1 .. n :
      /\ i <= l
      /\ Possible(test, server, j, i) /\ Passable(test, server, j, i)
      /\ Possible(test, server, k, l) /\ Passable(test, server, k, l)

CourseInStep ==
  \E n, m \in States(test, server) : InCourse(n, m) /\ HasPassed(n)

\* Every read that fails finds the queue a period older.
AgeInStep ==
  /\ age < Delay
  /\ queue = << >> => age = 0
  /\ queue # << >> => age + (IF asleep THEN 1 ELSE 0) >= tries

PollInStep ==
  /\ asleep => tries > 0
  /\ tries > 0 => At("poll") /\ Readable(Step)
  /\ (tries > 0 /\ Correct(server, test) /\ Step.checked) =>
       server.async /\ tries <= Delay

VerdictInStep ==
  /\ verdict = "pass" => Ended
  /\ (Correct(server, test) /\ (server.async => Patient(test) /\ Delay < Tries))
       => verdict # "fail"

IInv ==
  /\ TypeOK
  /\ CourseInStep /\ AgeInStep /\ PollInStep /\ VerdictInStep
=============================================================================
