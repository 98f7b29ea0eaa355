----------------------------- MODULE TestConfig -----------------------------
(***************************************************************************)
(* The sections of config.toml that bear on a test, and what is read from  *)
(* them (fixtures.py:310-336): the section with the name of the test and,  *)
(* for an instance of a parametrized test, the table in it with the name   *)
(* of the parameters.                                                      *)
(***************************************************************************)

\* A key is absent, or its value counts as false or as true.
Values == {"absent", "off", "on"}

\* A section is missing, a table, or a value that is no table: a number, a
\* date or true.  Strings are left out: they fail in yet another way.
Table(skip, xfail) == [kind |-> "table", skip |-> skip, xfail |-> xfail]
Missing == [kind |-> "none", skip |-> "absent", xfail |-> "absent"]
NoTable == [kind |-> "value", skip |-> "absent", xfail |-> "absent"]

Tables == {Table(skip, xfail) : skip \in Values, xfail \in Values}
Section == Tables \cup {Missing, NoTable}

\* Only the table of a test has a table for its instances.
Sections ==
  [test : {"plain"}, outer : Section, inner : {Missing}]
    \cup [test : {"instance"}, outer : Tables, inner : Section]
    \cup [test : {"instance"}, outer : {Missing, NoTable}, inner : {Missing}]
=============================================================================
