---------------------------- MODULE TestVerdicts ----------------------------
(***************************************************************************)
(* What the report of a test promises: one verdict, from the test's        *)
(* sections, the decision about its capabilities, the end of its body and   *)
(* whether the server under test has printed an error meanwhile.           *)
(***************************************************************************)
EXTENDS TestConfig, Naturals

CONSTANT NumTests

VARIABLES test,      \* number of the test
          sections,  \* its sections
          seen,      \* an error has been printed since its setup began
          verdict    \* what the report says, Open until then

verdictVars == <<test, sections, seen, verdict>>

Gates == {"run", "skip", "fail", "raised"}
Ends == {"passed", "failed", "skipped"}

Open == [setup |-> "open", call |-> "none", teardown |-> "none", config |-> Missing]

\* The instance's section overrides the test's, key by key.
Says(s, key) ==
  IF s.inner[key] # "absent" THEN s.inner[key] ELSE s.outer[key]

\* A value that is no table has no key for the instance to look for.
Unreadable(s) == s.test = "instance" /\ s.outer.kind = "value"
\* The configuration is read, and is not a table.
Unusable(s) == ~Unreadable(s) /\ "value" \in {s.outer.kind, s.inner.kind}
Usable(s) == "value" \notin {s.outer.kind, s.inner.kind}

SetupOf(s, gate) ==
  CASE ~Usable(s) -> "error"
    [] Usable(s) /\ Says(s, "skip") = "on" -> "skipped"
    [] Usable(s) /\ Says(s, "skip") # "on" /\ Says(s, "xfail") = "on" -> "xfailed"
    [] OTHER -> CASE gate = "run" -> "passed"
                  [] gate = "skip" -> "lacking"
                  [] gate = "fail" -> "failed"
                  [] OTHER -> "error"

\* An error of the server counts unless the test has a key xfail, of any value.
TeardownOf(s, error) ==
  IF Unusable(s) \/ (Usable(s) /\ error /\ Says(s, "xfail") = "absent")
    THEN "error" ELSE "passed"

\* The report shows the configuration if it says anything.
ConfigOf(s) ==
  IF Usable(s) /\ (Says(s, "skip") # "absent" \/ Says(s, "xfail") # "absent")
    THEN Table(Says(s, "skip"), Says(s, "xfail")) ELSE Missing

VerdictOf(s, gate, end, error) ==
  [setup |-> SetupOf(s, gate),
   call |-> IF SetupOf(s, gate) = "passed" THEN end ELSE "none",
   teardown |-> TeardownOf(s, error),
   config |-> ConfigOf(s)]

VerdictInit ==
  /\ test = 0
  /\ sections = [test |-> "plain", outer |-> Missing, inner |-> Missing]
  /\ seen = FALSE
  /\ verdict = Open

NewTest ==
  /\ test < NumTests
  /\ test' = test + 1
  /\ sections' \in Sections
  /\ seen' = FALSE
  /\ verdict' = Open

Error ==
  /\ verdict = Open
  /\ seen' = TRUE
  /\ UNCHANGED <<test, sections, verdict>>

Report ==
  /\ test > 0
  /\ verdict = Open
  /\ \E gate \in Gates, end \in Ends :
       verdict' = VerdictOf(sections, gate, end, seen)
  /\ UNCHANGED <<test, sections, seen>>

VerdictNext == NewTest \/ Error \/ Report

VerdictSpec == VerdictInit /\ [][VerdictNext]_verdictVars
=============================================================================
