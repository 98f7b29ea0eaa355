----------------------------- MODULE MCTestBody -----------------------------
(***************************************************************************)
(* An instance of TestBody for TLC.  Actors: a remote actor, and one that  *)
(* does not sign and was asked for under the same name, so that both       *)
(* publish the same profile.                                               *)
(***************************************************************************)
EXTENDS TestBody

MCHandles == {"remote", "unauthenticated"}
MCNameOf == [h \in MCHandles |-> "remote_actor"]
MCUnsigned == {"unauthenticated"}

\* {} and an activity around an object.
MCLiterals ==
  {[type |-> "none", actor |-> Nobody, nests |-> FALSE, to |-> "none"],
   [type |-> "Like", actor |-> Nobody, nests |-> TRUE, to |-> "public"]}

-----------------------------------------------------------------------------
Time(year, month, day) ==
    [kind |-> "time", year |-> year, month |-> month, day |-> day,
     separator |-> "T", seconds |-> "left out", zone |-> "Z", tail |-> "none"]

MCFields == {"published", "updated", "closed"}

\* The 29th of February in four years, a day that no month has, and each part
\* of a timestamp once in a form that is not allowed.
MCDateValues ==
    {Time(year, 2, 29) : year \in {0, 1900, 2000, 2023, 2024}}
      \cup {Time(2023, 4, day) : day \in {0, 30, 31}}
      \cup {Time(2023, 12, 31), Time(2023, 13, 1)}
      \cup {[Time(2023, 1, 31) EXCEPT !.seconds = s] :
               s \in {"with fraction", "without fraction"}}
      \cup {[Time(2023, 1, 31) EXCEPT !.separator = "space"],
            [Time(2023, 1, 31) EXCEPT !.zone = "none"],
            [Time(2023, 1, 31) EXCEPT !.zone = "offset"],
            [Time(2023, 1, 31) EXCEPT !.tail = "line end"]}
      \cup {[kind |-> k] : k \in {"iri", "text", "no string"}}

Param(key, value) == [key |-> key, value |-> value]
MediaRange(params) == [slashes |-> 1, params |-> params]

\* Entries as in "text/html;level=1;q=0.5", "text/html;flag", "text" and so on.
MCAcceptHeaders ==
    {<<MediaRange(<<Param("level", "1"), Param("q", "0.5")>>), MediaRange(<< >>)>>,
     <<MediaRange(<< >>)>>,
     <<MediaRange(<<Param("level", "1"), Param("flag", NoValue)>>)>>,
     <<MediaRange(<<Param("flag", NoValue)>>)>>,
     <<MediaRange(<<Param("q", NotANumber)>>)>>,
     <<[slashes |-> 0, params |-> << >>]>>}

\* A name, and up to three more, each after a dot or a plus.
Alternating(n) ==
    {[i \in 1 .. 2 * n + 1 |-> IF i % 2 = 1 THEN <<"ld", "json", "api", "v1">>[(i + 1) \div 2]
                               ELSE mark[i \div 2]] :
       mark \in [1 .. n -> {".", "+"}]}
MCSubtypes == UNION {Alternating(n) : n \in 0 .. 3}

\* A path, and one that needs an escape.
MCUnquoted == [p \in {"/outbox", "/a%20b"} |-> IF p = "/a%20b" THEN "/a b" ELSE p]

MCRequests ==
    [method : {"get", "post"}, host : {"sut"}, path : DOMAIN MCUnquoted,
     query : {NoQuery, "page"}, body : {"empty", "note"}]

MCHeaderLists ==
    {<< >>, DefaultList, <<"digest">>, <<"content-type">>,
     <<Target, "content-type", "digest">>, <<"host", "date", "host">>}
=============================================================================
