------------------------------ MODULE DateTimes ------------------------------
(***************************************************************************)
(* validate_as2_rfc3339 and validate_date_times (support.py): the timed    *)
(* properties of an entity are looked at one after the other, in the order *)
(* in which Python happens to iterate over the set DATETIME_FIELDS, until  *)
(* one of them raises.                                                     *)
(*                                                                         *)
(* A value is a record whose "kind" tells what Python holds: a string that *)
(* is shaped like a timestamp, a string that is an IRI, another string, or *)
(* something that is no string.                                            *)
(***************************************************************************)
EXTENDS Integers

CONSTANTS
    Fields,      \* the timed properties, DATETIME_FIELDS
    Closed,      \* the one of them that may hold something else
    DateValues   \* the values that the entities of an instance hold

\* The parts of a string that is shaped like a timestamp; any day, month and
\* year can be written down.
Timestamps ==
    [kind : {"time"}, year : Nat, month : Nat, day : Nat,
     separator : {"T", "space"},
     seconds : {"left out", "with fraction", "without fraction"},
     zone : {"Z", "offset", "none"}, tail : {"none", "line end"}]

ASSUME ClosedIsAField == Closed \in Fields
ASSUME DateValuesAssumption ==
    DateValues \subseteq Timestamps \cup [kind : {"iri", "text", "no string"}]

VARIABLE dates   \* the running call of validate_date_times

NoCall == [outcome |-> "none"]

----------------------------------------------------------------------------
(* One timestamp *)

IsLeap(year) == year % 4 = 0 /\ (year % 100 # 0 \/ year % 400 = 0)

\* calendar.monthrange(year, month)[1]
MaxDay(year, month) ==
    CASE month = 2 -> IF IsLeap(year) THEN 29 ELSE 28
      [] month \in {4, 6, 9, 11} -> 30
      [] OTHER -> 31

\* RFC3339_REGEX. "$" also matches before a line end, so the tail of the
\* string does not matter; the group of the seconds is optional as a whole,
\* but the fraction inside it is not. Years have four digits.
MatchesRegex(v) ==
    /\ v.kind = "time"
    /\ v.month \in 1 .. 12
    /\ v.separator = "T"
    /\ v.seconds \in {"left out", "with fraction"}
    /\ v.zone \in {"Z", "offset"}

ValidateAs2Rfc3339(v) ==
    /\ MatchesRegex(v)
    /\ v.year # 0
    /\ v.day \in 1 .. MaxDay(v.year, v.month)

----------------------------------------------------------------------------
(* The loop over the fields *)

\* Mutant: the test for an IRI is made for every field.
FieldOutcomeIris(field, v) ==
    IF v.kind = "no string" THEN "type error"
    ELSE IF ValidateAs2Rfc3339(v) \/ v.kind = "iri" THEN "fine"
    ELSE "invalid"

\* The branch of "closed" asks whether the NAME of the field is a string, so
\* it is always taken, and it tries the value as a date and then as an IRI.
\* Matching a value that is no string raises a TypeError.
FieldOutcome(field, v) ==
    IF v.kind = "no string" THEN "type error"
    ELSE IF ValidateAs2Rfc3339(v) THEN "fine"
    ELSE IF field = Closed /\ v.kind = "iri" THEN "fine"
    ELSE "invalid"

Entities == UNION {[present -> DateValues] : present \in SUBSET Fields}

DatesInit == dates = NoCall

ValidateDates(entity) ==
    /\ dates.outcome = "none"
    /\ dates' = [entity |-> entity, left |-> Fields, outcome |-> "running"]

\* One turn of the loop; the order is Python's to choose.
ValidateField(field) ==
    /\ dates.outcome = "running"
    /\ field \in dates.left
    /\ LET result == IF field \in DOMAIN dates.entity
                     THEN FieldOutcome(field, dates.entity[field])
                     ELSE "fine"
           rest == dates.left \ {field}
       IN dates' = [dates EXCEPT
                      !.left = rest,
                      !.outcome = IF result # "fine" THEN result
                                  ELSE IF rest = {} THEN "valid"
                                  ELSE "running"]

DatesReturn ==
    /\ dates.outcome \notin {"none", "running"}
    /\ dates' = NoCall

DatesNext ==
    \/ \E entity \in Entities : ValidateDates(entity)
    \/ \E field \in Fields : ValidateField(field)
    \/ DatesReturn

----------------------------------------------------------------------------
(* What a date-time of ActivityStreams is: "All properties with date and   *)
(* time values must conform to the "date-time" production in [RFC3339] with *)
(* the one exception that seconds may be omitted. An uppercase "T"         *)
(* character must be used [...], and an uppercase "Z" character must be     *)
(* used in the absence of a numeric time zone offset."                     *)
(* (support.py:414-419)                                                    *)

MonthLengths(year) ==
    <<31, IF IsLeap(year) THEN 29 ELSE 28, 31, 30, 31, 30,
      31, 31, 30, 31, 30, 31>>

\* The fraction of the seconds may be left out, and there is a year 0000, in
\* RFC 3339, sections 1 and 5.6.
IsDateTime(v) ==
    /\ v.kind = "time"
    /\ v.month \in 1 .. 12
    /\ 1 <= v.day /\ v.day <= MonthLengths(v.year)[v.month]
    /\ v.separator = "T"
    /\ v.zone \in {"Z", "offset"}

ConformsToAS2(v) == IsDateTime(v) /\ v.tail = "none"

\* "closed" "Can also be Object|Link|boolean" (support.py:401): an object and
\* a boolean are no strings, and a link may be written as its IRI.
Documented(field, v) ==
    ConformsToAS2(v) \/ (field = Closed /\ v.kind \in {"iri", "no string"})

Ended == dates.outcome \notin {"none", "running"}

\* In whatever order the fields are visited, the entity is accepted exactly
\* when each of its timed properties is accepted alone, so that no order ends
\* the loop before a bad value has been seen; and nothing is accepted that
\* the documentation rules out, but for a line end after a date-time
\* (validate_date_times, support.py:413-439).  Nothing is said of what may be
\* refused: the code refuses more than the documentation, a date-time whose
\* seconds have no fraction, one of the year 0, and a "closed" that is no
\* string.
DatesVerdict ==
    Ended =>
        /\ dates.outcome = "valid"
             <=> \A field \in DOMAIN dates.entity :
                   FieldOutcome(field, dates.entity[field]) = "fine"
        /\ dates.outcome = "valid" =>
             \A field \in DOMAIN dates.entity :
               LET v == dates.entity[field]
               IN Documented(field, v) \/ (IsDateTime(v) /\ v.tail = "line end")

=============================================================================
