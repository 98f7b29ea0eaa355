--------------------------- MODULE CapabilityGate ---------------------------
(***************************************************************************)
(* What skip_without_server_capabilities promises: one decision for the    *)
(* capabilities a test requires, taken in their order.                     *)
(***************************************************************************)
EXTENDS CapabilityTable

VARIABLES table,     \* [server.capabilities]
          required,  \* the identifiers of the test's ap_capability markers
          strict,    \* fail_on_unknown_capability: "on", "off", "raises"
          outcome    \* none yet, run, skip, fail, raised

gateVars == <<table, required, strict, outcome>>

\* The capability is declared, and not as false: the test may run.
Allowed(id) == ~Declared(table, id, "false") /\ ~Undeclared(table, id)

\* Nothing is said about the capability, and nobody asked for a failure.
\* "The server capabilities can be used to skip tests automatically if the
\* specified capabilities are not declared" (docs/configuration.md:11), but
\* "Otherwise, assume capabilities not mentioned in config" (fixtures.py:379):
\* the gate takes no side, the test may be skipped or go on.
Unsettled(id) == Undeclared(table, id) /\ strict # "on"

Passes(id) == Allowed(id) \/ Unsettled(id)

GateInit ==
  /\ table \in Tables
  /\ required \in Seq(Ids)
  /\ strict \in {"on", "off", "raises"}
  /\ outcome = "none"

DecidedBy(j) ==
  /\ \A i \in 1 .. j - 1 : Passes(required[i])
  /\ \/ outcome' = "skip" /\ Declared(table, required[j], "false")
     \/ outcome' = "skip" /\ Unsettled(required[j])
     \/ outcome' = "fail" /\ strict = "on" /\ Undeclared(table, required[j])
     \/ outcome' = "raised" /\ UnderLeaf(table, required[j])

Decide ==
  /\ outcome = "none"
  /\ UNCHANGED <<table, required, strict>>
  /\ \/ outcome' = "raised" /\ strict = "raises"
     \/ outcome' \in {"run", "skip"} /\ ~Given(table)
     \/ /\ outcome' = "run"
        /\ \A j \in 1 .. Len(required) : Passes(required[j])
     \/ Given(table) /\ \E j \in 1 .. Len(required) : DecidedBy(j)

GateSpec == GateInit /\ [][Decide]_gateVars
=============================================================================
