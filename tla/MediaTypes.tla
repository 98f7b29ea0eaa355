----------------------------- MODULE MediaTypes -----------------------------
(***************************************************************************)
(* parse_accept_header and parse_content_type (support.py).  A media type  *)
(* arrives as a type and a sequence of tokens: names and the marks "." and *)
(* "+" between them; a parameter is a key with or without a value.         *)
(***************************************************************************)
EXTENDS Integers, Sequences

CONSTANTS
    AcceptHeaders,    \* the Accept headers: sequences of entries
    Subtypes          \* what follows the "/" of a Content-Type: token sequences

IsMark(token) == token \in {".", "+"}

\* Names with a mark between any two of them.
Alternates(tokens) ==
    /\ tokens \in Seq(STRING) /\ tokens # << >>
    /\ ~IsMark(tokens[1]) /\ ~IsMark(tokens[Len(tokens)])
    /\ \A i \in 1 .. Len(tokens) - 1 :
          IsMark(tokens[i]) <=> ~IsMark(tokens[i + 1])

ASSUME SubtypesAssumption == \A tokens \in Subtypes : Alternates(tokens)

VARIABLE media        \* the running call

NoParse == [call |-> "none", outcome |-> "none"]
NoValue == "no value"     \* a parameter without "="
Unbound == "unbound"      \* a local variable that has not been assigned yet
NotANumber == "not a number"

Failures == {"unbound local", "value error", "type error"}

----------------------------------------------------------------------------
(* parse_accept_header, one step for each parameter *)

MediaInit == media = NoParse

ParseAccept(header) ==
    /\ media.call = "none"
    /\ media' = [call |-> "accept", header |-> header, field |-> 1,
                 params |-> << >>, key |-> Unbound, outcome |-> "running"]

Parsing(call) ==
    /\ media.call = call
    /\ media.outcome = "running"

\* No entry after the first is ever looked at: see EndEntry.
Entry == media.header[1]

\* The variable key is one of the function: a parameter without a value is
\* stored under the key that the parameter before it has left there.
ParseParam ==
    /\ Parsing("accept")
    /\ media.field <= Len(Entry.params)
    /\ LET p == Entry.params[media.field]
           key == IF p.value = NoValue THEN media.key ELSE p.key
           failure ==
              IF key = Unbound THEN "unbound local"
              ELSE IF p.value # NoValue /\ p.key = "q" /\ p.value = NotANumber
                THEN "value error" ELSE "running"
       IN media' = [media EXCEPT
                      !.key = key,
                      !.field = @ + 1,
                      !.params = IF failure = "running"
                                 THEN Append(@, [key |-> key, value |-> p.value])
                                 ELSE @,
                      !.outcome = failure]

\* MediaDescriptor has five fields without a default and is called with three
\* of them, so the constructor raises before the descriptor is appended: no
\* entry is ever accepted, and the sort after the loop is not reached.
EndEntry ==
    /\ Parsing("accept")
    /\ media.field > Len(Entry.params)
    /\ media' = [media EXCEPT
                   !.outcome = IF Entry.slashes = 1 THEN "type error"
                                                    ELSE "value error"]

----------------------------------------------------------------------------
(* parse_content_type: one expression after the other, without a loop *)

Marks(tokens, mark) == {i \in 1 .. Len(tokens) : tokens[i] = mark}

\* Mutant: split(".", 1), at the first dot.
SplitTreeAtFirst(tokens) ==
    LET dots == Marks(tokens, ".")
        first == CHOOSE i \in dots : \A j \in dots : i <= j
    IN IF dots = {} THEN [tree |-> << >>, rest |-> tokens]
       ELSE [tree |-> SubSeq(tokens, 1, first - 1),
             rest |-> SubSeq(tokens, first + 1, Len(tokens))]

\* rsplit(".", 1): the tree is everything before the last dot.
SplitTree(tokens) ==
    LET dots == Marks(tokens, ".")
        last == CHOOSE i \in dots : \A j \in dots : j <= i
    IN IF dots = {} THEN [tree |-> << >>, rest |-> tokens]
       ELSE [tree |-> SubSeq(tokens, 1, last - 1),
             rest |-> SubSeq(tokens, last + 1, Len(tokens))]

\* split("+", 1): the suffix is everything after the first plus.
SplitSuffix(tokens) ==
    LET pluses == Marks(tokens, "+")
        first == CHOOSE i \in pluses : \A j \in pluses : i <= j
    IN IF pluses = {} THEN [subtype |-> tokens, suffix |-> << >>]
       ELSE [subtype |-> SubSeq(tokens, 1, first - 1),
             suffix |-> SubSeq(tokens, first + 1, Len(tokens))]

ParseContentType(tokens) ==
    /\ media.call = "none"
    /\ LET tree == SplitTree(tokens)
           suffix == SplitSuffix(tree.rest)
       IN media' = [call |-> "content type", tokens |-> tokens,
                    tree |-> tree.tree, subtype |-> suffix.subtype,
                    suffix |-> suffix.suffix, outcome |-> "parsed"]

MediaReturn ==
    /\ media.outcome \notin {"none", "running"}
    /\ media' = NoParse

MediaNext ==
    \/ \E header \in AcceptHeaders : ParseAccept(header)
    \/ ParseParam
    \/ EndEntry
    \/ \E tokens \in Subtypes : ParseContentType(tokens)
    \/ MediaReturn

----------------------------------------------------------------------------
(* Properties *)

Joined(before, mark, after) ==
    IF before = << >> THEN after ELSE before \o <<mark>> \o after

\* What parse_content_type takes apart can be put together again: no token
\* is lost or moved, and the subtype that the tests compare is one name,
\* whatever dots and pluses the facets of the tree and the suffix have.
ContentTypeRecovered ==
    media.outcome = "parsed" =>
        /\ Len(media.subtype) = 1
        /\ media.tokens =
             Joined(media.tree, ".",
                    IF media.suffix = << >> THEN media.subtype
                    ELSE media.subtype \o <<"+">> \o media.suffix)

=============================================================================
