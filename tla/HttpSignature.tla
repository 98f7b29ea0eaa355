---------------------------- MODULE HttpSignature ----------------------------
(***************************************************************************)
(* A request that an actor of a test sends to the server under test        *)
(* (http/client.py, get and post) and the signature that HTTPSignatureAuth *)
(* puts on it (http/signatures.py): the missing headers are filled in one  *)
(* by one, then the text to sign is put together line by line.             *)
(*                                                                         *)
(* The requests are those of httpx, which has set the Host header, and the *)
(* Content-Type of a post, before it calls the authentication.  A hash is  *)
(* the text that it hashes, and a signature is the text that it signs; the *)
(* key belongs to ActorDocuments.                                          *)
(***************************************************************************)
EXTENDS Naturals, Sequences

CONSTANTS
    Requests,     \* records [method, host, path, query, body]; the path and
                  \* the query are as they are sent, with their escapes
    Unquoted,     \* Unquoted[p]: the path p with its percent-escapes decoded
    HeaderLists,  \* the lists of headers that an actor may be made to sign
    Date,         \* formatdate() at the moment of the call
    Absent        \* the value of a header that a request does not have

Target == "(request-target)"
HeaderNames == {"host", "date", "digest", "content-type"}
DefaultList == <<Target, "host", "date", "digest">>
NoQuery == "no query"
NoRequest == "none"

ASSUME SigningAssumption ==
    /\ HeaderLists \subseteq Seq(HeaderNames \cup {Target})
    /\ Date # Absent /\ "json" # Absent
    /\ \A r \in Requests :
          r.host # Absent /\ r.body # Absent /\ r.path \in DOMAIN Unquoted

VARIABLES
    phase,    \* "idle", "synthesize", "construct", "sent" or "raised"
    request,  \* the request of httpx
    auth,     \* the list of headers to sign, empty if the actor has no auth
    headers,  \* the headers of the request
    at,       \* the position of the running loop in that list
    lines,    \* signature_data
    signed    \* what the Signature header stands for, empty without the header

signingVars == <<phase, request, auth, headers, at, lines, signed>>

NoHeaders == [h \in HeaderNames |-> Absent]

\* The headers that httpx has set when the authentication is called.
GivenHeaders(r) ==
    [h \in HeaderNames |-> CASE h = "host" -> r.host
                             [] h = "content-type" /\ r.method = "post" -> "json"
                             [] OTHER -> Absent]

SigningInit ==
    /\ phase = "idle"
    /\ request = NoRequest
    /\ auth = << >>
    /\ headers = NoHeaders
    /\ at = 1
    /\ lines = << >>
    /\ signed = << >>

----------------------------------------------------------------------------

\* get or post of an authenticated actor: httpx runs auth_flow before it
\* sends. An empty list of headers means the default one.
SendSigned(r, list) ==
    /\ phase = "idle"
    /\ phase' = "synthesize"
    /\ request' = r
    /\ auth' = IF list = << >> THEN DefaultList ELSE list
    /\ headers' = GivenHeaders(r)
    /\ UNCHANGED <<at, lines, signed>>

\* An unauthenticated actor has no auth, so httpx sends at once.
SendUnsigned(r) ==
    /\ phase = "idle"
    /\ phase' = "sent"
    /\ request' = r
    /\ headers' = GivenHeaders(r)
    /\ UNCHANGED <<auth, at, lines, signed>>

\* Mutant: the digest is made before the content is there.
SynthesizedEarly(name) ==
    CASE name = "date" -> Date
      [] name = "digest" -> "empty"
      [] name = "host" -> request.host
      [] OTHER -> Absent

\* What synthesize_headers makes for a header that is missing: a date, and
\* the digest of the content, which httpx never leaves None. A post without
\* content has an empty one.
Synthesized(name) ==
    CASE name = "date" -> Date
      [] name = "digest" -> request.body
      [] name = "host" -> request.host
      [] OTHER -> Absent

SynthesizeHeader ==
    /\ phase = "synthesize"
    /\ at <= Len(auth)
    /\ at' = at + 1
    /\ headers' = IF auth[at] \in HeaderNames /\ headers[auth[at]] = Absent
                  THEN [headers EXCEPT ![auth[at]] = Synthesized(auth[at])]
                  ELSE headers
    /\ UNCHANGED <<phase, request, auth, lines, signed>>

SynthesizeEnds ==
    /\ phase = "synthesize"
    /\ at > Len(auth)
    /\ phase' = "construct"
    /\ at' = 1
    /\ UNCHANGED <<request, auth, headers, lines, signed>>

\* A request of httpx has no path_url, so url.path is signed: it is without
\* the query, and httpx returns it decoded (what it sends is url.raw_path).
SignedTarget(r) ==
    [method |-> r.method, path |-> Unquoted[r.path], query |-> NoQuery]

\* Mutant: a header that is missing is passed over.
ConstructPresentLine ==
    /\ phase = "construct"
    /\ at <= Len(auth)
    /\ at' = at + 1
    /\ lines' = IF auth[at] = Target
                THEN Append(lines, [name |-> Target, value |-> SignedTarget(request)])
                ELSE IF headers[auth[at]] # Absent
                THEN Append(lines, [name |-> auth[at], value |-> headers[auth[at]]])
                ELSE lines
    /\ UNCHANGED <<phase, request, auth, headers, signed>>

ConstructLine ==
    /\ phase = "construct"
    /\ at <= Len(auth)
    /\ IF auth[at] = Target THEN
         /\ lines' = Append(lines, [name |-> Target, value |-> SignedTarget(request)])
         /\ at' = at + 1
         /\ phase' = phase
       ELSE IF headers[auth[at]] # Absent THEN
         /\ lines' = Append(lines, [name |-> auth[at], value |-> headers[auth[at]]])
         /\ at' = at + 1
         /\ phase' = phase
       ELSE \* KeyError
         /\ phase' = "raised"
         /\ UNCHANGED <<at, lines>>
    /\ UNCHANGED <<request, auth, headers, signed>>

\* The Signature header names the headers in the order in which they were
\* signed; httpx then sends the request.
Sign ==
    /\ phase = "construct"
    /\ at > Len(auth)
    /\ phase' = "sent"
    /\ signed' = lines
    /\ UNCHANGED <<request, auth, headers, at, lines>>

\* The answer has come, or the exception has gone to the test.
SigningReturn ==
    /\ phase \in {"sent", "raised"}
    /\ phase' = "idle"
    /\ request' = NoRequest
    /\ auth' = << >>
    /\ headers' = NoHeaders
    /\ at' = 1
    /\ lines' = << >>
    /\ signed' = << >>

SigningNext ==
    \/ \E r \in Requests, list \in HeaderLists : SendSigned(r, list)
    \/ \E r \in Requests : SendUnsigned(r)
    \/ SynthesizeHeader
    \/ SynthesizeEnds
    \/ ConstructLine
    \/ Sign
    \/ SigningReturn

SigningSpec == SigningInit /\ [][SigningNext]_signingVars

----------------------------------------------------------------------------
(* What a receiver makes of the request *)

\* The line that a receiver puts together for a name in the Signature
\* header, from the request as it arrives. (draft-cavage-http-signatures,
\* section 2.3: the target is the path with its query, as in the first line
\* of the request.)
ReceivedLine(name) ==
    [name |-> name,
     value |-> IF name = Target
               THEN [method |-> request.method, path |-> request.path,
                     query |-> request.query]
               ELSE headers[name]]

Verifies ==
    /\ signed # << >>
    /\ signed = [i \in 1 .. Len(auth) |-> ReceivedLine(auth[i])]
    /\ headers["digest"] \in {Absent, request.body}

SignsTarget == \E i \in 1 .. Len(auth) : auth[i] = Target

\* The target of the request is signed as it is sent: the url has no query,
\* and no escape in its path.
TargetKept(r) == r.query = NoQuery /\ Unquoted[r.path] = r.path

\* The signature on a request that was sent holds for that request as it
\* arrives, header by header and in the order that it names, unless it covers
\* the target of a url with a query or with an escape in its path: those
\* signatures never hold (auth_flow, signatures.py:130-150, 187-207).
SignatureHolds ==
    phase = "sent" /\ auth # << >> =>
        (Verifies <=> TargetKept(request) \/ ~SignsTarget)

\* A header that the actor wants signed and the request cannot have.
Unsignable(r, name) == name = "content-type" /\ r.method # "post"

\* An authenticated actor either sends a request under a signature that
\* covers every header of its list, or raises because one of them cannot be
\* had: it never sends with fewer headers signed than it was made to sign,
\* and never raises for one that could have been filled in.
SignsAllOrNothing ==
    auth # << >> =>
        LET missing == \E i \in 1 .. Len(auth) : Unsignable(request, auth[i])
        IN /\ phase = "raised" => missing
           /\ phase = "sent" => ~missing /\ signed # << >>
                                /\ Len(signed) = Len(auth)

=============================================================================
