------------------------------ MODULE Scenarios ------------------------------
(***************************************************************************)
(* One test of the suite against a server-under-test that is correct or    *)
(* has the defect the test is aimed at, that works before it answers or    *)
(* afterwards, in the order of the posts, and that may insist on           *)
(* dereferencing what is posted to it.  Which verdicts does the test give? *)
(***************************************************************************)
EXTENDS Integers, SequencesExt

CONSTANTS Script,             \* the scripts, by the name of the test
          ServerCollections,  \* collections of the server-under-test
          StaticCollections,  \* documents of the simulated server
          Tries,              \* reads of a poll
          Delay               \* a post is processed in less than so many periods

ASSUME ScenarioAssumption ==
  /\ Tries \in Nat \ {0}
  /\ Delay \in Nat \ {0}
  /\ \A t \in DOMAIN Script :
       Len(Script[t]) \in Nat /\ DOMAIN Script[t] = 1 .. Len(Script[t])

Collections == ServerCollections \cup StaticCollections

Servers == [async : BOOLEAN, defective : BOOLEAN, dereferences : BOOLEAN]

VARIABLES
  test,     \* the test that runs
  server,   \* the kind of server it runs against
  pc,       \* the next step of its script
  tries,    \* reads the current poll has made
  asleep,   \* the poll is between two reads
  colls,    \* the items of every collection, as a GET lists them
  queue,    \* posts that the server has answered and not processed
  age,      \* periods since the queue became non-empty
  mailbox,  \* posts that the simulated server has received
  verdict

testVars == <<test, pc, tries, asleep, verdict>>
serverVars == <<server, colls, queue, age, mailbox>>
vars == <<test, server, pc, tries, asleep, colls, queue, age, mailbox, verdict>>

Init ==
  /\ test \in DOMAIN Script
  /\ server \in Servers
  /\ pc = 1
  /\ tries = 0
  /\ asleep = FALSE
  /\ colls = [c \in Collections |-> << >>]
  /\ queue = << >>
  /\ age = 0
  /\ mailbox = 0
  /\ verdict = "running"

Ended == pc > Len(Script[test])
Step == Script[test][pc]
At(kind) == verdict = "running" /\ ~Ended /\ Step.do = kind

-----------------------------------------------------------------------------
(***************************************************************************)
(* The server-under-test.                                                  *)
(***************************************************************************)
\* What a server makes of a post.
Outcome(s, post) ==
  IF s.dereferences /\ ~post.served THEN "dropped"
  ELSE IF s.defective THEN "wrong" ELSE "right"

NoEffect == [op |-> "none", deliver |-> FALSE]

Effect(s, post) ==
  CASE Outcome(s, post) = "dropped" -> NoEffect
    [] Outcome(s, post) = "right" -> post.right
    [] Outcome(s, post) = "wrong" -> post.wrong

Changed(items, effect) ==
  CASE effect.op = "add" -> <<effect.item>> \o items
    [] effect.op = "append" -> Append(items, effect.item)
    [] effect.op = "remove" -> SelectSeq(items, LAMBDA i : i # effect.item)

Updated(cs, effect) ==
  IF effect.op = "none" THEN cs
  ELSE [cs EXCEPT ![effect.coll] = Changed(@, effect)]

Delivered(received, effect) == received + (IF effect.deliver THEN 1 ELSE 0)

Perform(post) ==
  /\ colls' = Updated(colls, Effect(server, post))
  /\ mailbox' = Delivered(mailbox, Effect(server, post))

\* A server that works after it has answered takes the posts in order.
Work ==
  /\ queue # << >>
  /\ Perform(Head(queue))
  /\ queue' = Tail(queue)
  /\ age' = IF queue' = << >> THEN 0 ELSE age
  /\ UNCHANGED <<testVars, server>>

-----------------------------------------------------------------------------
(***************************************************************************)
(* The test.                                                               *)
(***************************************************************************)
Pass == pc' = pc + 1 /\ UNCHANGED verdict
Fail == verdict' = "fail" /\ UNCHANGED pc

\* A post, with what setup_activity does after it: the answer names the
\* stored activity, which can be fetched.
DoPost ==
  /\ At("post")
  /\ server.async \/ Outcome(server, Step) # "dropped"
  /\ IF server.async
       THEN queue' = Append(queue, Step) /\ UNCHANGED <<colls, mailbox>>
       ELSE Perform(Step) /\ UNCHANGED queue
  /\ pc' = pc + 1
  /\ UNCHANGED <<test, server, tries, asleep, age, verdict>>

\* Mutant: post does not look at the status of the answer.
PostRefusalUnseen ==
  /\ At("post")
  /\ ~server.async
  /\ Outcome(server, Step) = "dropped"
  /\ Pass
  /\ UNCHANGED <<test, tries, asleep, serverVars>>

\* A server that works before it answers refuses what it cannot dereference,
\* and post raises an exception.
PostRefused ==
  /\ At("post")
  /\ ~server.async
  /\ Outcome(server, Step) = "dropped"
  /\ Fail
  /\ UNCHANGED <<test, tries, asleep, serverVars>>

\* A collection that somebody serves.
Readable(step) == step.coll \in Collections

Wanted(want, items) ==
  CASE want.is = "has" -> want.arg \in ToSet(items)
    [] want.is = "lacks" -> want.arg \notin ToSet(items)
    [] want.is = "exactly" -> items = want.arg
    [] want.is = "size" -> Len(items) = want.arg
    [] want.is = "first" -> items # << >> /\ Head(items) = want.arg
    [] want.is = "not empty" -> items # << >>

Satisfied(step, cs) == Readable(step) /\ Wanted(step.want, cs[step.coll])

\* get_collection_item_uris raises on a document that is not served, in a
\* single read and in the loop of a poll.
ReadRaises ==
  /\ \E kind \in {"once", "poll"} : At(kind)
  /\ ~asleep
  /\ tries < Tries
  /\ ~Readable(Step)
  /\ Fail
  /\ UNCHANGED <<test, tries, asleep, serverVars>>

ReadOnce ==
  /\ At("once")
  /\ Readable(Step)
  /\ IF Satisfied(Step, colls) THEN Pass ELSE Fail
  /\ UNCHANGED <<test, tries, asleep, serverVars>>

\* One read of the loop.
PollRead ==
  /\ At("poll")
  /\ ~asleep
  /\ tries < Tries
  /\ Readable(Step)
  /\ tries' = IF Satisfied(Step, colls) THEN 0 ELSE tries + 1
  /\ asleep' = ~Satisfied(Step, colls)
  /\ pc' = IF Satisfied(Step, colls) THEN pc + 1 ELSE pc
  /\ UNCHANGED <<test, verdict, serverVars>>

\* time.sleep(period), also after the last read.  A post is not older than
\* the queue, so that it is processed in less than Delay periods.
PollSleep ==
  /\ At("poll")
  /\ asleep
  /\ queue # << >> => age + 1 < Delay
  /\ asleep' = FALSE
  /\ age' = IF queue # << >> THEN age + 1 ELSE 0
  /\ UNCHANGED <<test, server, pc, tries, colls, queue, mailbox, verdict>>

\* Mutant: the loop is left one read too early.
PollEndsEarly ==
  /\ At("poll")
  /\ ~asleep
  /\ tries >= Tries - 1
  /\ tries' = 0
  /\ IF Step.checked THEN Fail ELSE Pass
  /\ UNCHANGED <<test, asleep, serverVars>>

\* Mutant: nobody looks at what the loop read last.
PollEndsUnchecked ==
  /\ At("poll")
  /\ ~asleep
  /\ tries = Tries
  /\ tries' = 0
  /\ Pass
  /\ UNCHANGED <<test, asleep, serverVars>>

\* The loop is over and returns what it read last.
PollEnds ==
  /\ At("poll")
  /\ ~asleep
  /\ tries = Tries
  /\ tries' = 0
  /\ IF Step.checked THEN Fail ELSE Pass
  /\ UNCHANGED <<test, asleep, serverVars>>

\* get_most_recent_post returns a post or, when none comes, gives up.
Receive ==
  /\ At("await")
  /\ mailbox > 0
  /\ Pass
  /\ UNCHANGED <<test, tries, asleep, serverVars>>

ReceiveTimesOut ==
  /\ At("await")
  /\ mailbox = 0
  /\ queue = << >>
  /\ Fail
  /\ UNCHANGED <<test, tries, asleep, serverVars>>

Finish ==
  /\ verdict = "running"
  /\ Ended
  /\ verdict' = "pass"
  /\ UNCHANGED <<test, pc, tries, asleep, serverVars>>

TestSteps ==
  \/ DoPost
  \/ PostRefused
  \/ ReadRaises
  \/ ReadOnce
  \/ PollRead
  \/ PollSleep
  \/ PollEnds
  \/ Receive
  \/ ReceiveTimesOut
  \/ Finish

Next == Work \/ TestSteps

Spec == Init /\ [][Next]_vars

-----------------------------------------------------------------------------
Steps(t) == 1 .. Len(Script[t])

\* A check whose outcome the test looks at.
IsCheck(step) ==
  \/ step.do = "once"
  \/ step.do = "poll" /\ step.checked

\* A single read only comes after a poll has seen what was posted.
Patient(t) ==
  \A k \in Steps(t) : Script[t][k].do = "once" =>
    \E j \in 1 .. k - 1 :
      /\ Script[t][j].do = "poll" /\ Script[t][j].checked
      /\ \A i \in j .. k : Script[t][i].do # "post"

\* The post that tells a correct server from a defective one.
Aims(t) ==
  {k \in Steps(t) : Script[t][k].do = "post" /\ Script[t][k].right # Script[t][k].wrong}

\* Nothing the test checks after that post depends on the effect.
Blind(t) ==
  \A k \in Aims(t) : \A j \in k + 1 .. Len(Script[t]) :
    LET step == Script[t][j]
        effects == {Script[t][k].right, Script[t][k].wrong}
    IN  /\ IsCheck(step) => \A e \in effects : e.coll # step.coll
        /\ step.do = "await" => \A e \in effects : ~e.deliver

\* The post must have no effect, or the checks hold before anything has been
\* posted: the test may look before there is something to see.
MayLookTooEarly(t) ==
  \/ \A k \in Aims(t) : Script[t][k].right.op = "none" /\ ~Script[t][k].right.deliver
  \/ \A k \in Steps(t) : IsCheck(Script[t][k]) => Wanted(Script[t][k].want, << >>)

\* Everything the test and the server ask for is there: what the test reads,
\* and what it posts if the server dereferences it.
Served(s, t) ==
  \A k \in Steps(t) :
    LET step == Script[t][k]
    IN  /\ (s.dereferences /\ step.do = "post") => step.served
        /\ step.do \in {"once", "poll"} => Readable(step)

\* A server nothing can be said against, and a test that has what it needs.
Correct(s, t) == ~s.defective /\ Served(s, t)

\* The verdict on a server that works before it answers and has no defect is
\* a failure exactly if something is not served, whatever the server does
\* right.  inbox_add and inbox_remove read the collection of a remote actor,
\* which nobody serves, and fail every such server (_test_collections.py:18);
\* inbox_undo_like, inbox_share_local, inbox_add and inbox_remove post what
\* make_activity made, and fail every such server that dereferences it
\* (_test_like.py:142, _test_announce.py:38); all others pass.
SyncVerdicts ==
  (~server.defective /\ ~server.async /\ verdict # "running")
    => (verdict = "fail" <=> ~Served(server, test))

\* A pass tells that everything the test reads is served, whatever the server
\* is like, and that a server which dereferences what it is sent, before it
\* answers, was sent nothing but activities that are served.
PassesTell ==
  verdict = "pass" =>
    \A k \in Steps(test) :
      LET step == Script[test][k]
      IN  /\ step.do \in {"once", "poll"} => Readable(step)
          /\ (step.do = "post" /\ server.dereferences /\ ~server.async) => step.served

\* A correct server that works after it has answered passes the tests that
\* poll, if it is faster than the wait: five reads are four periods
\* (support.py:130-144).
PatientNeverFails ==
  (Correct(server, test) /\ server.async /\ Patient(test)) => verdict # "fail"

\* A defective server never passes the test aimed at its defect, except when
\* the test does not look at the effect, or when the server is slow and what
\* the test looks for is there from the start or must not come about at all
\* (_test_follow.py:105-106, _test_collections.py:70-71, _test_core.py:641-645).
Detects ==
  (verdict = "pass" /\ server.defective)
    => Blind(test) \/ (server.async /\ MayLookTooEarly(test))

\* "Check that block was not delivered" (_test_block.py:30): a test that
\* passes has seen that nothing was delivered to the blocked actor.
BlockNotDelivered ==
  (test = "actor_blocking" /\ verdict = "pass") => mailbox = 0
=============================================================================
