---------------------------- MODULE Capabilities ----------------------------
(***************************************************************************)
(* skip_without_server_capabilities (fixtures.py:357-384) step by step:    *)
(* for each identifier a test requires, look it up, then its default, then *)
(* drop its last name and look again, until something is found or nothing  *)
(* is left; then fail, skip or go on to the next identifier.               *)
(***************************************************************************)
EXTENDS CapabilityTable

CONSTANTS MaxRequired  \* bound: capabilities a test requires

ASSUME CapabilitiesAssumption == PrefixClosed /\ MaxRequired \in Nat

VARIABLES
  table,       \* [server.capabilities]
  leafRaises,  \* dictlib.dig raises on a value that is not a table, with an
               \* exception that is not KeyError
  required,    \* the identifiers of the test's markers, in their order
  strict,      \* what the fixture fail_on_unknown_capability does
  pc,          \* start, next identifier, while loop, judging, done
  k,           \* index of the identifier, 0 before the first
  level,       \* number of names of capability_id
  capability,  \* what has been found
  outcome      \* none yet, run, skip, fail, raised

configVars == <<table, leafRaises, required, strict>>
vars == <<table, leafRaises, required, strict, pc, k, level, capability, outcome>>

Requirements == UNION { [1 .. n -> Ids] : n \in 0 .. MaxRequired }

\* The environment variable APTEST_STRICT_CAPABILITIES makes is_env_set
\* raise: str().lower takes no argument.
Init ==
  /\ table \in Tables
  /\ leafRaises \in BOOLEAN
  /\ required \in Requirements
  /\ strict \in {"on", "off", "raises"}
  /\ pc = "start"
  /\ k = 0
  /\ level = 0
  /\ capability = "missing"
  /\ outcome = "none"

-----------------------------------------------------------------------------
Finish(o) == pc' = "done" /\ outcome' = o

\* The fixture's arguments, and the test for an empty table.
Start ==
  /\ pc = "start"
  /\ CASE strict = "raises" -> Finish("raised")
       [] strict # "raises" /\ ~Given(table) -> Finish("run")
       [] OTHER -> pc' = "next" /\ UNCHANGED outcome
  /\ UNCHANGED <<configVars, k, level, capability>>

\* The for loops over markers and arguments.
NextId ==
  /\ pc = "next"
  /\ k < Len(required)
  /\ k' = k + 1
  /\ level' = Len(required[k + 1])
  /\ capability' = "missing"
  /\ pc' = "loop"
  /\ UNCHANGED <<configVars, outcome>>

NoMoreIds ==
  /\ pc = "next"
  /\ k = Len(required)
  /\ Finish("run")
  /\ UNCHANGED <<configVars, k, level, capability>>

\* capability_id
Current == Prefix(required[k], level)

LookupRaises ==
  /\ pc = "loop"
  /\ leafRaises
  /\ UnderLeaf(table, Current)
  /\ Finish("raised")
  /\ UNCHANGED <<configVars, k, level, capability>>

\* Mutant: the default of a level is looked up only where there is no entry.
FoundOwn == table.own[Current]

\* dig(capabilities, capability_id), then dig of its ".default".
Found == Says(table, Current)

\* Mutant: capability_id keeps its names.
StripForgotten == pc' = "loop" /\ UNCHANGED <<level, capability>>

\* Drop the last name of capability_id, or leave the loop when there is only
\* one.
Strip ==
  IF level > 1
    THEN level' = level - 1 /\ pc' = "loop" /\ UNCHANGED capability
    ELSE pc' = "judge" /\ UNCHANGED <<level, capability>>

\* One turn of while capability is None.
Lookup ==
  /\ pc = "loop"
  /\ ~(leafRaises /\ UnderLeaf(table, Current))
  /\ IF Found # "missing"
       THEN capability' = Found /\ pc' = "judge" /\ UNCHANGED level
       ELSE Strip
  /\ UNCHANGED <<configVars, k, outcome>>

\* Mutant: an unknown capability is not reported.
JudgeLenient ==
  /\ pc = "judge"
  /\ IF capability = "false" THEN Finish("skip")
                             ELSE pc' = "next" /\ UNCHANGED outcome
  /\ UNCHANGED <<configVars, k, level, capability>>

Judge ==
  /\ pc = "judge"
  /\ CASE strict = "on" /\ capability = "missing" -> Finish("fail")
       [] capability = "false" -> Finish("skip")
       [] OTHER -> pc' = "next" /\ UNCHANGED outcome
  /\ UNCHANGED <<configVars, k, level, capability>>

Next == Start \/ NextId \/ NoMoreIds \/ LookupRaises \/ Lookup \/ Judge

Spec == Init /\ [][Next]_vars

\* The fixture runs on.
FairSpec == Spec /\ WF_vars(Next)

-----------------------------------------------------------------------------
Gate == INSTANCE CapabilityGate

TypeOK ==
  /\ table \in Tables
  /\ leafRaises \in BOOLEAN
  /\ required \in Seq(Ids)
  /\ strict \in {"on", "off", "raises"}
  /\ pc \in {"start", "next", "loop", "judge", "done"}
  /\ k \in 0 .. Len(required)
  /\ level \in Nat
  /\ capability \in Entries
  /\ outcome \in {"none", "run", "skip", "fail", "raised"}

\* A test runs although the table is given only if no capability it requires
\* is declared false at the deepest level that says anything about it, and,
\* in strict mode, each of them is declared (fixtures.py:363-384).
RunsOnlyIfAllowed ==
  (outcome = "run" /\ Given(table)) =>
    \A j \in 1 .. Len(required) : Gate!Passes(required[j])

\* "The server capabilities can be used to skip tests automatically if the
\* specified capabilities are not declared" (docs/configuration.md:11): where
\* the table is given, a test runs only with capabilities that it declares.
UndeclaredIsSkipped ==
  (outcome = "run" /\ Given(table)) =>
    \A j \in 1 .. Len(required) : ~Undeclared(table, required[j])

\* The loop has found nothing at the levels it has left behind, and what it
\* has found is what the deepest level that says something says.
LoopInStep ==
  /\ pc = "start" => k = 0
  /\ pc \in {"start", "next", "loop", "judge"} <=> outcome = "none"
  /\ pc \in {"next", "loop", "judge"} => Given(table) /\ strict # "raises"
  /\ pc \in {"loop", "judge"} =>
       /\ k > 0
       /\ level \in 1 .. Len(required[k])
       /\ \A m \in level + 1 .. Len(required[k]) :
            Says(table, Prefix(required[k], m)) = "missing"
  /\ pc = "loop" => capability = "missing"
  /\ pc = "judge" =>
       IF capability = "missing" THEN Undeclared(table, required[k])
                                 ELSE Decides(table, required[k], level, capability)

\* The identifiers that are done with allowed the test to run.
PassedAllowed ==
  pc \in {"start", "next", "loop", "judge"} =>
    \A j \in 1 .. (IF pc \in {"loop", "judge"} THEN k - 1 ELSE k) :
      Gate!Passes(required[j])

\* The inductive invariant behind the refinement.
IInv == TypeOK /\ LoopInStep /\ PassedAllowed /\ RunsOnlyIfAllowed

\* The loops take the one decision that CapabilityGate describes.
ImplementsGate == Gate!GateSpec

\* The loops end (fixtures.py:368-377).
ResolutionEnds == <>(pc = "done")
=============================================================================
