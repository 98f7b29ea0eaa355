-------------------------- MODULE CapabilityTable --------------------------
(***************************************************************************)
(* What the table [server.capabilities] of config.toml says, read the way  *)
(* skip_without_server_capabilities reads it (fixtures.py:339-384).  A     *)
(* capability identifier is a sequence of names, "a.b.c" in the file.      *)
(***************************************************************************)
EXTENDS Naturals, Sequences

CONSTANTS Names,  \* what identifiers are made of
          Ids     \* the identifiers considered

\* The first n names of an identifier.
Prefix(id, n) == SubSeq(id, 1, n)

\* The identifiers are closed under prefixes.
PrefixClosed ==
  \A id \in Ids :
    /\ id \in Seq(Names) \ { << >> }
    /\ \A n \in 1 .. Len(id) : Prefix(id, n) \in Ids

\* What a key of the table holds: no entry, a table, true, false, or a value
\* that is not a boolean.
Entries == {"missing", "table", "true", "false", "other"}

\* own[id] is the entry under id, dflt[id] the one under id.default.  There
\* is an entry below a key only if that key holds a table.
Tables ==
  { t \in [own : [Ids -> Entries], dflt : [Ids -> Entries]] :
      \A id \in Ids :
        /\ (t.own[id] # "missing" /\ Len(id) > 1)
             => t.own[Prefix(id, Len(id) - 1)] = "table"
        /\ t.dflt[id] # "missing" => t.own[id] = "table" }

\* What the table says at one level of an identifier: the entry, or the
\* default when the entry is a table (fixtures.py:369-371).
Says(t, id) ==
  IF t.own[id] \in {"missing", "table"} THEN t.dflt[id] ELSE t.own[id]

\* Level n of the identifier decides, and says v: no longer prefix says
\* anything.
Decides(t, id, n, v) ==
  /\ n \in 1 .. Len(id)
  /\ Says(t, Prefix(id, n)) = v
  /\ v # "missing"
  /\ \A m \in n + 1 .. Len(id) : Says(t, Prefix(id, m)) = "missing"

\* The identifier has the value v in the table.
Declared(t, id, v) == \E n \in 1 .. Len(id) : Decides(t, id, n, v)

Undeclared(t, id) == \A n \in 1 .. Len(id) : Says(t, Prefix(id, n)) = "missing"

\* A lookup of the identifier runs into a value that is not a table.
UnderLeaf(t, id) ==
  \E n \in 1 .. Len(id) - 1 :
    t.own[Prefix(id, n)] \in {"true", "false", "other"}

\* if capabilities: the table exists and has an entry.
Given(t) == \E id \in Ids : t.own[id] # "missing"
=============================================================================
