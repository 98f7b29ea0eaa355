----------------------------- MODULE MCScenarios -----------------------------
(***************************************************************************)
(* Scenarios with the scripts of the suite, for TLC.                       *)
(***************************************************************************)
EXTENDS ScenarioCourses

Scripts == INSTANCE ScenarioScripts

MCScript == Scripts!Suite
MCServerCollections == Scripts!OfTheServer
MCStaticCollections == Scripts!OfTheSimulation

\* The courses of the scripts, post by post.
CourseOf(t, s) ==
  LET posts == SelectSeq([k \in Steps(t) |-> k], LAMBDA k : Script[t][k].do = "post")
      start == [step |-> 0, colls |-> [x \in Collections |-> << >>], mailbox |-> 0]
      Then(c, k) ==
        LET effect == Effect(s, Script[t][k])
        IN  Append(c, [step |-> k, colls |-> Updated(Last(c).colls, effect),
                       mailbox |-> Delivered(Last(c).mailbox, effect)])
  IN  FoldLeft(Then, << start >>, posts)

MCCourse == [t \in DOMAIN Script |-> [s \in Servers |-> CourseOf(t, s)]]
=============================================================================
