------------------------- MODULE CapabilitiesProofs -------------------------
(***************************************************************************)
(* Theorems about Capabilities, for any set of identifiers that is closed  *)
(* under prefixes, any table and any number of required capabilities.      *)
(***************************************************************************)
EXTENDS Capabilities, TLAPS

-----------------------------------------------------------------------------
(***************************************************************************)
(* Facts about tables.                                                     *)
(***************************************************************************)

LEMMA PrefixInIds ==
  ASSUME NEW id \in Ids, NEW n \in 1 .. Len(id)
  PROVE  Prefix(id, n) \in Ids
BY CapabilitiesAssumption DEF PrefixClosed

LEMMA LengthsTyped ==
  ASSUME NEW id \in Ids
  PROVE  Len(id) \in Nat /\ Len(id) > 0
BY CapabilitiesAssumption DEF PrefixClosed

LEMMA SaysTyped ==
  ASSUME NEW t \in Tables, NEW id \in Ids
  PROVE  Says(t, id) \in Entries
BY DEF Tables, Says

\* At most one level decides.
LEMMA OneDecides ==
  ASSUME NEW t, NEW id \in Ids,
         NEW n, NEW v, Decides(t, id, n, v),
         NEW m, NEW w, Decides(t, id, m, w)
  PROVE  v = w
<1>1. n \in Nat /\ m \in Nat /\ Len(id) \in Nat
  BY LengthsTyped DEF Decides
<1>2. CASE n < m
  BY <1>1, <1>2 DEF Decides
<1>3. CASE m < n
  BY <1>1, <1>3 DEF Decides
<1>4. CASE n = m
  BY <1>4 DEF Decides
<1>5. QED BY <1>1, <1>2, <1>3, <1>4

\* An identifier whose deciding level does not say false passes.
LEMMA DecidedAllowed ==
  ASSUME NEW id \in Ids, NEW n, NEW v, Decides(table, id, n, v), v # "false"
  PROVE  Gate!Passes(id)
<1>1. ~Declared(table, id, "false")
  BY OneDecides DEF Declared
<1>2. ~Undeclared(table, id)
  BY DEF Decides, Undeclared
<1>3. QED
  BY <1>1, <1>2
     DEF Gate!Passes, Gate!Allowed, Gate!Declared, Gate!Decides, Gate!Undeclared,
         Gate!Says, Gate!Prefix, Declared, Decides, Undeclared, Says, Prefix

LEMMA UndeclaredAllowed ==
  ASSUME NEW id \in Ids, Undeclared(table, id), strict # "on"
  PROVE  Gate!Passes(id)
BY DEF Gate!Passes, Gate!Allowed, Gate!Unsettled, Gate!Declared, Gate!Decides,
       Gate!Undeclared, Gate!Says, Gate!Prefix, Decides, Undeclared, Says, Prefix

LEMMA AllowedStable ==
  ASSUME UNCHANGED <<table, strict>>, NEW id
  PROVE  Gate!Passes(id)' <=> Gate!Passes(id)
BY DEF Gate!Passes, Gate!Allowed, Gate!Unsettled, Gate!Declared, Gate!Decides,
       Gate!Undeclared, Gate!Says, Gate!Prefix

LEMMA RequirementsTyped == Requirements \subseteq Seq(Ids)
<1>1. ASSUME NEW n \in 0 .. MaxRequired, NEW r \in [1 .. n -> Ids]
      PROVE  r \in Seq(Ids)
  <2>1. n \in Nat
    BY CapabilitiesAssumption
  <2>2. QED BY <2>1
<1>2. QED BY <1>1 DEF Requirements

-----------------------------------------------------------------------------
(***************************************************************************)
(* The invariant, conjunct by conjunct.                                    *)
(***************************************************************************)

\* The identifier the loops are at, and the levels of it that remain.
LEMMA CurrentTyped ==
  ASSUME IInv, pc \in {"loop", "judge"}
  PROVE  /\ required[k] \in Ids
         /\ level \in 1 .. Len(required[k])
         /\ Len(required[k]) \in Nat
         /\ Current \in Ids
<1>1. k \in 1 .. Len(required) /\ required \in Seq(Ids)
  BY DEF IInv, TypeOK, LoopInStep
<1>2. required[k] \in Ids
  BY <1>1
<1>3. level \in 1 .. Len(required[k])
  BY DEF IInv, LoopInStep
<1>4. QED
  BY <1>2, <1>3, PrefixInIds, LengthsTyped DEF Current

LEMMA TypeStep ==
  ASSUME IInv, [Next]_vars
  PROVE  TypeOK'
<1> USE DEF TypeOK
<1>0. TypeOK
  BY DEF IInv
<1>1. CASE Start
  BY <1>0, <1>1 DEF Start, Finish, configVars
<1>2. CASE NextId
  <2>1. k + 1 \in 1 .. Len(required) /\ required \in Seq(Ids)
    BY <1>0, <1>2 DEF NextId
  <2>2. Len(required[k + 1]) \in Nat
    BY <2>1, LengthsTyped
  <2>3. QED
    BY <1>0, <1>2, <2>1, <2>2 DEF NextId, configVars, Entries
<1>3. CASE NoMoreIds
  BY <1>0, <1>3 DEF NoMoreIds, Finish, configVars
<1>4. CASE LookupRaises
  BY <1>0, <1>4 DEF LookupRaises, Finish, configVars
<1>5. CASE Lookup
  <2>1. Found \in Entries
    BY <1>0, <1>5, CurrentTyped, SaysTyped DEF Lookup, Found
  <2>2. QED
    BY <1>0, <1>5, <2>1 DEF Lookup, Strip, configVars
<1>6. CASE Judge
  BY <1>0, <1>6 DEF Judge, Finish, configVars
<1>7. CASE UNCHANGED vars
  BY <1>0, <1>7 DEF vars
<1>8. QED
  BY <1>1, <1>2, <1>3, <1>4, <1>5, <1>6, <1>7 DEF Next

\* What a turn of the inner loop finds out.
LEMMA LookupFinds ==
  ASSUME IInv, Lookup
  PROVE  LoopInStep'
<1>1. /\ required[k] \in Ids
      /\ level \in 1 .. Len(required[k])
      /\ Len(required[k]) \in Nat
      /\ k > 0
      /\ pc = "loop"
      /\ outcome = "none"
      /\ capability = "missing"
      /\ Given(table) /\ strict # "raises"
      /\ \A m \in level + 1 .. Len(required[k]) :
            Says(table, Prefix(required[k], m)) = "missing"
  BY CurrentTyped DEF IInv, LoopInStep, Lookup
<1>2. UNCHANGED <<table, strict, required, k, outcome>>
  BY DEF Lookup, configVars
<1>3. CASE Found # "missing"
  <2>1. capability' = Found /\ pc' = "judge" /\ level' = level
    BY <1>3 DEF Lookup
  <2>2. Decides(table, required[k], level, Found)
    BY <1>1, <1>3 DEF Decides, Found, Current
  <2>3. QED
    BY <1>1, <1>2, <1>3, <2>1, <2>2 DEF LoopInStep, Given, Decides
<1>4. CASE Found = "missing" /\ level > 1
  <2>1. level' = level - 1 /\ pc' = "loop" /\ capability' = capability
    BY <1>4 DEF Lookup, Strip
  <2>2. \A m \in level' + 1 .. Len(required[k]) :
            Says(table, Prefix(required[k], m)) = "missing"
    BY <1>1, <1>4, <2>1 DEF Found, Current
  <2>3. QED
    BY <1>1, <1>2, <1>4, <2>1, <2>2 DEF LoopInStep, Given
<1>5. CASE Found = "missing" /\ level = 1
  <2>1. level' = level /\ pc' = "judge" /\ capability' = capability
    BY <1>5 DEF Lookup, Strip
  <2>2. Undeclared(table, required[k])
    BY <1>1, <1>5 DEF Undeclared, Found, Current
  <2>3. QED
    BY <1>1, <1>2, <1>5, <2>1, <2>2 DEF LoopInStep, Given, Undeclared
<1>6. QED BY <1>1, <1>3, <1>4, <1>5

LEMMA LoopStep ==
  ASSUME IInv, [Next]_vars
  PROVE  LoopInStep'
<1>0. TypeOK /\ LoopInStep
  BY DEF IInv
<1>1. CASE Start
  BY <1>0, <1>1 DEF Start, Finish, configVars, LoopInStep, Given
<1>2. CASE NextId
  <2>1. k + 1 \in 1 .. Len(required) /\ required \in Seq(Ids)
    BY <1>0, <1>2 DEF NextId, TypeOK
  <2>2. Len(required[k + 1]) \in Nat /\ Len(required[k + 1]) > 0
    BY <2>1, LengthsTyped
  <2>3. /\ k' = k + 1 /\ level' = Len(required'[k']) /\ capability' = "missing"
        /\ pc' = "loop" /\ UNCHANGED <<table, required, strict, outcome>>
    BY <1>2 DEF NextId, configVars
  <2>4. Given(table)' /\ strict' # "raises" /\ outcome' = "none"
    BY <1>0, <1>2, <2>3 DEF NextId, LoopInStep, Given
  <2>5. /\ k' > 0 /\ level' \in 1 .. Len(required'[k'])
        /\ level' + 1 .. Len(required'[k']) = {}
    BY <1>0, <2>1, <2>2, <2>3 DEF TypeOK
  <2>6. QED
    BY <2>3, <2>4, <2>5 DEF LoopInStep
<1>3. CASE NoMoreIds
  BY <1>0, <1>3 DEF NoMoreIds, Finish, configVars, LoopInStep
<1>4. CASE LookupRaises
  BY <1>0, <1>4 DEF LookupRaises, Finish, configVars, LoopInStep
<1>5. CASE Lookup
  BY <1>5, LookupFinds
<1>6. CASE Judge
  BY <1>0, <1>6 DEF Judge, Finish, configVars, LoopInStep, Given
<1>7. CASE UNCHANGED vars
  BY <1>0, <1>7 DEF vars, LoopInStep, Given, Undeclared, Decides
<1>8. QED
  BY <1>1, <1>2, <1>3, <1>4, <1>5, <1>6, <1>7 DEF Next

\* The configuration never changes, so what is allowed does not either.
LEMMA ConfigStays ==
  ASSUME [Next]_vars
  PROVE  UNCHANGED <<table, required, strict>>
BY DEF Next, vars, configVars, Start, NextId, NoMoreIds, LookupRaises, Lookup, Judge

\* An identifier that is judged and lets the loops go on is allowed.
LEMMA JudgedAllowed ==
  ASSUME IInv, Judge, pc' = "next"
  PROVE  Gate!Passes(required[k])
<1>1. /\ required[k] \in Ids
      /\ IF capability = "missing"
           THEN Undeclared(table, required[k])
           ELSE Decides(table, required[k], level, capability)
  BY CurrentTyped DEF IInv, LoopInStep, Judge
<1>2. CASE capability = "missing"
  BY <1>1, <1>2, UndeclaredAllowed DEF Judge, Finish
<1>3. CASE capability # "missing"
  BY <1>1, <1>3, DecidedAllowed DEF Judge, Finish
<1>4. QED BY <1>2, <1>3

LEMMA PassedStep ==
  ASSUME IInv, [Next]_vars
  PROVE  PassedAllowed'
<1>0. /\ k \in Nat
      /\ pc \in {"start", "next", "loop", "judge"} => PassedAllowed
      /\ pc = "start" => k = 0
      /\ pc \in {"loop", "judge"} => k > 0
  BY DEF IInv, TypeOK, LoopInStep
<1>1. UNCHANGED <<table, required, strict>>
  BY ConfigStays
<1>2. \A id : Gate!Passes(id)' <=> Gate!Passes(id)
  BY <1>1, AllowedStable
<1>3. SUFFICES ASSUME pc' \in {"start", "next", "loop", "judge"},
                      NEW j \in 1 .. (IF pc' \in {"loop", "judge"} THEN k' - 1 ELSE k')
               PROVE  Gate!Passes(required[j])
  BY <1>1, <1>2 DEF PassedAllowed
<1>4. CASE Start
  BY <1>0, <1>3, <1>4 DEF Start, Finish
<1>5. CASE NextId
  <2>1. j \in 1 .. k /\ pc = "next"
    BY <1>0, <1>3, <1>5 DEF NextId
  <2>2. QED BY <1>0, <2>1 DEF PassedAllowed
<1>6. CASE Lookup
  <2>1. j \in 1 .. k - 1 /\ pc = "loop"
    BY <1>0, <1>3, <1>6 DEF Lookup, Strip
  <2>2. QED BY <1>0, <2>1 DEF PassedAllowed
<1>7. CASE Judge
  <2>1. pc' = "next" /\ j \in 1 .. k /\ pc = "judge"
    BY <1>0, <1>3, <1>7 DEF Judge, Finish
  <2>2. CASE j = k
    BY <1>7, <2>1, <2>2, JudgedAllowed
  <2>3. CASE j \in 1 .. k - 1
    BY <1>0, <2>1, <2>3 DEF PassedAllowed
  <2>4. QED BY <1>0, <2>1, <2>2, <2>3
<1>8. CASE UNCHANGED vars
  BY <1>0, <1>3, <1>8 DEF vars, PassedAllowed
<1>9. CASE NoMoreIds \/ LookupRaises
  BY <1>3, <1>9 DEF NoMoreIds, LookupRaises, Finish
<1>10. QED
  BY <1>4, <1>5, <1>6, <1>7, <1>8, <1>9 DEF Next

LEMMA RunsStep ==
  ASSUME IInv, [Next]_vars
  PROVE  RunsOnlyIfAllowed'
<1>1. UNCHANGED <<table, required, strict>>
  BY ConfigStays
<1>2. \A id : Gate!Passes(id)' <=> Gate!Passes(id)
  BY <1>1, AllowedStable
<1>3. SUFFICES ASSUME outcome' = "run", Given(table), NEW j \in 1 .. Len(required)
               PROVE  Gate!Passes(required[j])
  BY <1>1, <1>2 DEF RunsOnlyIfAllowed, Given
<1>4. CASE outcome = "run"
  BY <1>3, <1>4 DEF IInv, RunsOnlyIfAllowed
<1>5. CASE outcome # "run"
  <2>1. NoMoreIds
    BY <1>3, <1>5 DEF Next, vars, Start, NextId, LookupRaises, Lookup, Judge, Finish
  <2>2. QED
    BY <1>3, <2>1 DEF NoMoreIds, IInv, PassedAllowed
<1>6. QED BY <1>4, <1>5

\* The inductive invariant holds of every behaviour of the loops: what the
\* fixture has found so far is what the table says (fixtures.py:363-384).
THEOREM Invariance == Spec => []IInv
<1>1. Init => IInv
  <2>1. SUFFICES ASSUME Init PROVE IInv
    OBVIOUS
  <2>2. required \in Seq(Ids)
    BY <2>1, RequirementsTyped DEF Init
  <2>3. TypeOK
    BY <2>1, <2>2 DEF Init, TypeOK, Entries
  <2>4. QED
    BY <2>1, <2>3 DEF Init, IInv, LoopInStep, PassedAllowed, RunsOnlyIfAllowed
<1>2. IInv /\ [Next]_vars => IInv'
  BY TypeStep, LoopStep, PassedStep, RunsStep DEF IInv
<1>3. QED BY <1>1, <1>2, PTL DEF Spec

\* A test never runs with a capability whose deepest declaration is false,
\* nor, in strict mode, with an undeclared one.
THEOREM RunsAreAllowed == Spec => []RunsOnlyIfAllowed
<1>1. IInv => RunsOnlyIfAllowed
  BY DEF IInv
<1>2. QED BY <1>1, Invariance, PTL

-----------------------------------------------------------------------------
(***************************************************************************)
(* The loops implement the gate.                                           *)
(***************************************************************************)

\* The abstract specification reads the same table in the same way.
LEMMA SameReadings ==
  /\ Gate!Tables = Tables
  /\ Gate!Given(table) <=> Given(table)
  /\ \A id : /\ Gate!Declared(table, id, "false") <=> Declared(table, id, "false")
             /\ Gate!Undeclared(table, id) <=> Undeclared(table, id)
             /\ Gate!UnderLeaf(table, id) <=> UnderLeaf(table, id)
<1>1. Gate!Tables = Tables
  BY DEF Gate!Tables, Tables, Gate!Entries, Entries, Gate!Prefix, Prefix
<1>2. QED
  BY <1>1 DEF Gate!Given, Given, Gate!Declared, Declared, Gate!Decides, Decides,
              Gate!Says, Says, Gate!Prefix, Prefix, Gate!Undeclared, Undeclared,
              Gate!UnderLeaf, UnderLeaf

\* A lookup of a prefix that runs into a value is one of the identifier too.
LEMMA PrefixUnderLeaf ==
  ASSUME NEW id \in Ids, NEW n \in 1 .. Len(id), UnderLeaf(table, Prefix(id, n)),
         Len(id) \in Nat
  PROVE  UnderLeaf(table, id)
<1>1. Prefix(id, n) \in Ids
  BY PrefixInIds
<1>2. PICK m \in 1 .. Len(Prefix(id, n)) - 1 :
        table.own[Prefix(Prefix(id, n), m)] \in {"true", "false", "other"}
  BY DEF UnderLeaf
<1>3. id \in Seq(Names) /\ n \in Nat /\ n <= Len(id)
  BY CapabilitiesAssumption DEF PrefixClosed
<1>4. Len(Prefix(id, n)) = n
  BY <1>3 DEF Prefix
<1>5. Prefix(Prefix(id, n), m) = Prefix(id, m)
  BY <1>3, <1>4 DEF Prefix
<1>6. m \in 1 .. Len(id) - 1
  BY <1>3, <1>4
<1>7. QED
  BY <1>2, <1>5, <1>6 DEF UnderLeaf

\* Every step but those that decide is invisible in the gate.
LEMMA StepDecides ==
  ASSUME IInv, [Next]_vars
  PROVE  [Gate!Decide]_(Gate!gateVars)
<1>0. UNCHANGED <<table, required, strict>>
  BY ConfigStays
<1>1. CASE outcome' = outcome
  BY <1>0, <1>1 DEF Gate!gateVars
<1>2. CASE outcome' # outcome
  <2>0. outcome = "none"
    BY <1>2 DEF IInv, LoopInStep, Next, vars, Start, NextId, NoMoreIds,
                LookupRaises, Lookup, Judge, Finish
  <2>1. CASE Start
    BY <1>0, <1>2, <2>0, <2>1, SameReadings DEF Start, Finish, Gate!Decide
  <2>2. CASE NoMoreIds
    <3>1. \A j \in 1 .. Len(required) : Gate!Passes(required[j])
      BY <2>2 DEF NoMoreIds, IInv, PassedAllowed
    <3>2. QED
      BY <1>0, <2>0, <2>2, <3>1 DEF NoMoreIds, Finish, Gate!Decide
  <2>3. CASE LookupRaises
    <3>1. /\ Given(table)
          /\ required[k] \in Ids /\ level \in 1 .. Len(required[k])
          /\ Len(required[k]) \in Nat
          /\ k \in 1 .. Len(required)
          /\ \A i \in 1 .. k - 1 : Gate!Passes(required[i])
      BY <2>3, CurrentTyped DEF LookupRaises, IInv, TypeOK, LoopInStep, PassedAllowed
    <3>2. UnderLeaf(table, required[k])
      BY <2>3, <3>1, PrefixUnderLeaf DEF LookupRaises, Current
    <3>3. Gate!DecidedBy(k)
      BY <2>3, <3>1, <3>2, SameReadings DEF LookupRaises, Finish, Gate!DecidedBy
    <3>4. QED
      BY <1>0, <2>0, <3>1, <3>3, SameReadings DEF Gate!Decide
  <2>4. CASE Judge
    <3>1. /\ Given(table)
          /\ required[k] \in Ids
          /\ k \in 1 .. Len(required)
          /\ \A i \in 1 .. k - 1 : Gate!Passes(required[i])
          /\ IF capability = "missing"
               THEN Undeclared(table, required[k])
               ELSE Decides(table, required[k], level, capability)
      BY <2>4, CurrentTyped DEF Judge, IInv, TypeOK, LoopInStep, PassedAllowed
    <3>2. CASE strict = "on" /\ capability = "missing"
      <4>1. outcome' = "fail"
        BY <2>4, <3>2 DEF Judge, Finish
      <4>2. Gate!DecidedBy(k)
        BY <3>1, <3>2, <4>1, SameReadings DEF Gate!DecidedBy
      <4>3. QED
        BY <1>0, <2>0, <3>1, <4>2, SameReadings DEF Gate!Decide
    <3>3. CASE capability = "false"
      <4>1. outcome' = "skip"
        BY <2>4, <3>3 DEF Judge, Finish
      <4>2. Declared(table, required[k], "false")
        BY <3>1, <3>3 DEF Declared, Decides
      <4>3. Gate!DecidedBy(k)
        BY <3>1, <4>1, <4>2, SameReadings DEF Gate!DecidedBy
      <4>4. QED
        BY <1>0, <2>0, <3>1, <4>3, SameReadings DEF Gate!Decide
    <3>4. QED
      BY <1>2, <2>4, <3>2, <3>3 DEF Judge, Finish
  <2>5. QED
    BY <1>2, <2>1, <2>2, <2>3, <2>4 DEF Next, vars, NextId, Lookup
<1>3. QED BY <1>1, <1>2

\* The fixture with its loops takes the one decision of CapabilityGate, for
\* every table and every list of required capabilities.
THEOREM LoopsImplementGate == Spec => Gate!GateSpec
<1>1. Init => Gate!GateInit
  BY RequirementsTyped, SameReadings DEF Init, Gate!GateInit
<1>2. IInv /\ [Next]_vars => [Gate!Decide]_(Gate!gateVars)
  BY StepDecides
<1>3. QED
  BY <1>1, <1>2, Invariance, PTL DEF Spec, Gate!GateSpec
=============================================================================
