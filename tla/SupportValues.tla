---------------------------- MODULE SupportValues ----------------------------
(***************************************************************************)
(* The helpers that a test calls on values and requests, one call at a     *)
(* time: a test is one thread, so a call has returned, or raised, before   *)
(* the next begins.                                                        *)
(***************************************************************************)
EXTENDS DateTimes, MediaTypes, HttpSignature

valuesVars == <<dates, media, signingVars>>

ValuesInit == DatesInit /\ MediaInit /\ SigningInit

ValuesNext ==
    \/ media.call = "none" /\ phase = "idle" /\ DatesNext /\ UNCHANGED <<media, signingVars>>
    \/ dates.outcome = "none" /\ phase = "idle" /\ MediaNext /\ UNCHANGED <<dates, signingVars>>
    \/ dates.outcome = "none" /\ media.call = "none" /\ SigningNext /\ UNCHANGED <<dates, media>>

ValuesSpec == ValuesInit /\ [][ValuesNext]_valuesVars

=============================================================================
