------------------------------ MODULE TestBody ------------------------------
(***************************************************************************)
(* What the body of a test calls: actors, with the dictionaries of         *)
(* ActorDocuments, and the helpers on values and requests of               *)
(* SupportValues.  A test is one thread, so a call of a helper has         *)
(* returned, or raised, before the test goes on.  The helpers read and     *)
(* write nothing that the actors do, so calls of helpers are interleaved   *)
(* with the actors' only where a test has asked for no actor and made no   *)
(* dictionary yet; anywhere else they would do the same.                   *)
(***************************************************************************)
EXTENDS ActorDocuments, SupportValues

bodyVars == <<vars, valuesVars>>

BodyInit == Init /\ ValuesInit

\* No helper is running.
HelpersIdle == dates.outcome = "none" /\ media.call = "none" /\ phase = "idle"

\* A test that has only begun.
JustBegun == ~failed /\ top = 0 /\ \A h \in Handles : ~Have(h)

BodyNext ==
  \/ HelpersIdle /\ Next /\ UNCHANGED valuesVars
  \/ JustBegun /\ ValuesNext /\ UNCHANGED vars

BodySpec == BodyInit /\ [][BodyNext]_bodyVars
=============================================================================
